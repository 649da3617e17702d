------------------------- MODULE OauthOwnershipProofs -------------------------
(***************************************************************************)
(* Whose the objects in Authentik are, for every value of the constants.    *)
(*                                                                         *)
(*   1. The charm leaves alone what it does not own: OnlyOwnHeld is an       *)
(*      inductive invariant, and with it no step but an administrator's      *)
(*      changes a foreign provider or its applications.                      *)
(*   2. What belongs to an active relation is not collected.                 *)
(*   3. A relation owns one provider at most, in a deployment of one unit    *)
(*      or where there is nothing to adopt.                                  *)
(***************************************************************************)
EXTENDS OauthReconcilerProofs, FiniteSetTheorems

------------------------------------------------------------------------------
(* 1. Nothing of somebody else's.  What a change of Authentik's contents may  *)
(* do.                                                                       *)

\* No provider becomes foreign, no application is given a foreign one.
Kept(ps, as, ps2, as2) ==
  /\ \A p \in Pks : ps[p].name # Foreign => ps2[p].name # Foreign
  /\ \A s \in Slugs : as2[s] = as[s] \/ NotForeign(ps2, as2[s])

\* Foreign providers and their applications stay as they are.
Untouched(ps, as, ps2, as2) ==
  \A p \in Pks : ps[p].name = Foreign =>
    /\ ps2[p] = ps[p]
    /\ \A s \in Slugs : as[s] = p => as2[s] = p

LEMMA UnchangedStore ==
  ASSUME NEW ps, NEW as
  PROVE  Kept(ps, as, ps, as) /\ Untouched(ps, as, ps, as)
BY DEF Kept, Untouched

LEMMA PutProvider ==
  ASSUME NEW ps \in [Pks -> Providers \cup {NoProvider}], NEW as, NEW p \in Pks, NEW rec,
         ps[p].name # Foreign, rec.name # Foreign
  PROVE  /\ Kept(ps, as, WithProvider(ps, p, rec), as)
         /\ Untouched(ps, as, WithProvider(ps, p, rec), as)
BY DEF Kept, Untouched, WithProvider

LEMMA PutApplication ==
  ASSUME NEW ps, NEW as \in [Slugs -> AppStates], NEW s \in Slugs, NEW a,
         NotForeign(ps, as[s]), NotForeign(ps, a)
  PROVE  /\ Kept(ps, as, ps, WithApp(as, s, a))
         /\ Untouched(ps, as, ps, WithApp(as, s, a))
BY DEF Kept, Untouched, WithApp, NotForeign

LEMMA DropProvider ==
  ASSUME NEW ps \in [Pks -> Providers \cup {NoProvider}], NEW as \in [Slugs -> AppStates],
         NEW p \in Pks
  PROVE  /\ Kept(ps, as, WithoutProvider(ps, p), Detach(as, p))
         /\ NotForeign(ps, p) => Untouched(ps, as, WithoutProvider(ps, p), Detach(as, p))
<1>1. NoProvider.name # Foreign BY DEF NoProvider, NoName, Foreign
<1>2. NoPk \notin Pks BY DEF NoPk, Pks
<1> QED BY <1>1, <1>2 DEF Kept, Untouched, WithoutProvider, Detach, NotForeign

------------------------------------------------------------------------------
(* Ownership is not lost by such a change.                                   *)

LEMMA KeptEntry ==
  ASSUME NEW ps, NEW as, NEW ps2, NEW as2, Kept(ps, as, ps2, as2),
         NEW r \in Relations, NEW e \in Entries \cup {NoEntry}, OwnEntry(ps, as, r, e)
  PROVE  OwnEntry(ps2, as2, r, e)
<1>1. e.slug # "none" => <<e.slug, r>> \in Slugs BY DEF Entries, NoEntry, Slugs, Kinds
<1> QED BY <1>1 DEF Kept, OwnEntry, NotForeign

LEMMA KeptHook ==
  ASSUME NEW ps, NEW as, NEW ps2, NEW as2, Kept(ps, as, ps2, as2),
         NEW h, WellFormed(h), OwnHook(ps, as, h)
  PROVE  OwnHook(ps2, as2, h)
<1>1. h \in HookTypes BY DEF WellFormed
<1>2. \A r \in Relations : OwnEntry(ps2, as2, r, h.cache[r])
  BY <1>1, KeptEntry DEF OwnHook, HookTypes
<1>3. h.pc \in SyncCalls => SlugOf(h) \in Slugs
  BY DEF WellFormed, HookShape, SlugOf, Slugs
<1> QED BY <1>2, <1>3 DEF OwnHook, Kept, NotForeign, SyncCalls

LEMMA OwnStep ==
  ASSUME TypeOK, OnlyOwnHeld, NEW u \in Units, NEW h, Continue(u, h),
         Kept(provs, apps, provs', apps'), OwnHook(provs', apps', h),
         \A q \in late' : q.name # Foreign, cache' = cache
  PROVE  OnlyOwnHeld'
<1>1. \A r \in Relations : NotForeign(provs', apps'[ManagedName(r)])
  BY DEF OnlyOwnHeld, Kept, NotForeign, ManagedName, Slugs, Kinds
<1>2. \A r \in Relations : OwnEntry(provs', apps', r, cache'[r])
  BY KeptEntry DEF OnlyOwnHeld, TypeOK
<1>3. \A v \in Units : OwnHook(provs', apps', hook'[v])
  <2> TAKE v \in Units
  <2>1. CASE v = u BY <2>1 DEF Continue, TypeOK
  <2>2. CASE v # u
    <3>1. hook'[v] = hook[v] BY <2>2 DEF Continue, TypeOK
    <3>2. OwnHook(provs', apps', hook[v]) BY KeptHook, HookWellFormed DEF OnlyOwnHeld
    <3> QED BY <3>1, <3>2
  <2> QED BY <2>1, <2>2
<1> QED BY <1>1, <1>2, <1>3 DEF OnlyOwnHeld

\* A step after which every hook is what it was, or holds nothing of its own.
LEMMA OwnLocal ==
  ASSUME TypeOK, OnlyOwnHeld, NEW u \in Units, NEW h, Continue(u, h),
         OwnHook(provs, apps, h), UNCHANGED <<authentik, cache>>
  PROVE  OnlyOwnHeld'
<1>1. provs' = provs /\ apps' = apps /\ late' = late /\ cache' = cache BY DEF authentik
<1>2. Kept(provs, apps, provs', apps') BY <1>1, UnchangedStore
<1>3. OwnHook(provs', apps', h) BY <1>1
<1>4. \A q \in late' : q.name # Foreign BY <1>1 DEF OnlyOwnHeld
<1> QED BY <1>1, <1>2, <1>3, <1>4, OwnStep

------------------------------------------------------------------------------
(* The steps of a hook that do not write to Authentik.                       *)

\* An idle hook holds nothing; a hook that has only to commit, its cache.
LEMMA OwnIdle == ASSUME NEW ps, NEW as PROVE OwnHook(ps, as, IdleHook)
<1>1. /\ IdleHook.pc = "idle" /\ IdleHook.pk = NoPk /\ IdleHook.slug = "none"
      /\ \A r \in Relations : IdleHook.cache[r] = NoEntry
  BY DEF IdleHook, NothingStored
<1>2. NoPk \notin Pks BY DEF NoPk, Pks
<1>3. NoEntry.pk = NoPk /\ NoEntry.slug = "none" BY DEF NoEntry
<1> QED BY <1>1, <1>2, <1>3 DEF OwnHook, OwnEntry, NotForeign, SyncCalls

LEMMA OwnCaught ==
  ASSUME TypeOK, OnlyOwnHeld, NEW u \in Units, Caught(u) \/ CaughtStaleFlow(u),
         UNCHANGED <<authentik, cache>>
  PROVE  OnlyOwnHeld'
<1> DEFINE h == hook[u]
<1>1. PICK g : Continue(u, g) /\ g.cache = h.cache /\ g.pc = "commit"
  <2>1. h \in HookTypes BY HookWellFormed DEF WellFormed
  <2>2. \A f \in [FlowKeys -> FlowUuids \cup {NoFlow}] :
          /\ [h EXCEPT !.pc = "commit"].cache = h.cache
          /\ [h EXCEPT !.pc = "commit"].pc = "commit"
          /\ [h EXCEPT !.pc = "commit", !.flow = f].cache = h.cache
          /\ [h EXCEPT !.pc = "commit", !.flow = f].pc = "commit"
    BY <2>1 DEF HookTypes
  <2>3. IdleHook.flow \in [FlowKeys -> FlowUuids \cup {NoFlow}] BY DEF IdleHook, NothingStored
  <2> HIDE DEF h
  <2> QED BY <2>2, <2>3 DEF Caught, CaughtStaleFlow, h
<1>2. OwnHook(provs, apps, g) BY <1>1 DEF OnlyOwnHeld, OwnHook, SyncCalls
<1> QED BY <1>1, <1>2, OwnLocal

LEMMA OwnFailed ==
  ASSUME TypeOK, OnlyOwnHeld, NEW u \in Units, HookFailed(u), UNCHANGED authentik
  PROVE  OnlyOwnHeld'
BY OwnIdle, OwnLocal DEF HookFailed, stored

LEMMA OwnStartHook ==
  ASSUME TypeOK, OnlyOwnHeld, NEW u \in Units, NEW e \in Events, StartHook(u, e)
  PROVE  OnlyOwnHeld'
<1>1. PICK g : /\ Continue(u, g) /\ g.cache = cache /\ g.pk = NoPk /\ g.slug = "none"
               /\ g.pc \in {"gc", "flow", "next"}
  <2> DEFINE active == ActiveFor(u, e)
             g == [IdleHook EXCEPT
                !.pc = IF active = {} THEN "gc"
                       ELSE IF NeedsFlow(flowCache) THEN "flow" ELSE "next",
                !.event = e, !.active = active, !.todo = active,
                !.seen = [cache |-> cache, flow |-> flowCache, bag |-> bag],
                !.cache = cache, !.flow = flowCache, !.bag = bag, !.conf = conf]
  <2>1. Continue(u, g) BY DEF StartHook
  <2>2. /\ g.cache = cache /\ g.pk = NoPk /\ g.slug = "none" /\ g.pc \in {"gc", "flow", "next"}
    <3>1. \A pc : [IdleHook EXCEPT
                !.pc = pc,
                !.event = e, !.active = active, !.todo = active,
                !.seen = [cache |-> cache, flow |-> flowCache, bag |-> bag],
                !.cache = cache, !.flow = flowCache, !.bag = bag, !.conf = conf].pc = pc
      BY DEF IdleHook
    <3> HIDE DEF active
    <3> QED BY <3>1 DEF IdleHook
  <2> HIDE DEF g
  <2> QED BY <2>1, <2>2
<1>2. NoPk \notin Pks BY DEF NoPk, Pks
<1>3. OwnHook(provs, apps, g) BY <1>1, <1>2 DEF OnlyOwnHeld, OwnHook, NotForeign, SyncCalls
<1> QED BY <1>1, <1>3, OwnLocal DEF StartHook, Local, stored

\* A hook that keeps its cache, provider and slug.
LEMMA OwnSame ==
  ASSUME NEW ps, NEW as, NEW h, OwnHook(ps, as, h), h.pc \notin {"validate", "commit"},
         NEW g, g.cache = h.cache, g.pk = h.pk, g.cur = h.cur, g.slug = h.slug,
         g.pc # "validate", g.pc \in SyncCalls => h.pc \in SyncCalls
  PROVE  OwnHook(ps, as, g)
BY DEF OwnHook, SlugOf

LEMMA OwnResolveFlow ==
  ASSUME TypeOK, OnlyOwnHeld, NEW u \in Units, ResolveFlow(u)
  PROVE  OnlyOwnHeld'
<1> DEFINE h == hook[u]
<1>1. PICK f, pc : pc \in {"flow", "next"} /\ Continue(u, [h EXCEPT !.flow = f, !.pc = pc])
  <2> DEFINE k == IF h.flow["auth"] = NoFlow THEN "auth" ELSE "inval"
             f == [h.flow EXCEPT ![k] = flows[k]]
  <2>1. CASE NeedsFlow(f)
    <3>1. Continue(u, [h EXCEPT !.flow = f, !.pc = "flow"]) BY <2>1 DEF ResolveFlow
    <3> HIDE DEF f, h
    <3> QED BY <3>1
  <2>2. CASE ~NeedsFlow(f)
    <3>1. Continue(u, [h EXCEPT !.flow = f, !.pc = "next"]) BY <2>2 DEF ResolveFlow
    <3> HIDE DEF f, h
    <3> QED BY <3>1
  <2> QED BY <2>1, <2>2
<1>2. OwnHook(provs, apps, h) /\ h.pc = "flow" /\ h \in HookTypes
  BY HookWellFormed DEF OnlyOwnHeld, ResolveFlow, At, WellFormed
<1> DEFINE g == [h EXCEPT !.flow = f, !.pc = pc]
<1>3. OwnHook(provs, apps, g)
  <2> HIDE DEF h
  <2>1. /\ g.cache = h.cache /\ g.pk = h.pk /\ g.cur = h.cur /\ g.slug = h.slug /\ g.pc = pc
    BY <1>1, <1>2 DEF HookTypes
  <2> HIDE DEF g
  <2> QED BY <1>1, <1>2, <2>1, OwnSame DEF SyncCalls
<1> HIDE DEF g
<1> QED BY <1>1, <1>3, OwnLocal DEF ResolveFlow, Local, stored, g

LEMMA OwnToGarbage ==
  ASSUME TypeOK, OnlyOwnHeld, NEW u \in Units, ToGarbage(u)
  PROVE  OnlyOwnHeld'
<1> DEFINE h == hook[u]
           g == [h EXCEPT !.pc = "gc"]
<1>1. OwnHook(provs, apps, h) /\ h.pc = "next" /\ h \in HookTypes
  BY HookWellFormed DEF OnlyOwnHeld, ToGarbage, At, WellFormed
<1>2. OwnHook(provs, apps, g)
  <2> HIDE DEF h
  <2>1. /\ g.cache = h.cache /\ g.pk = h.pk /\ g.cur = h.cur /\ g.slug = h.slug /\ g.pc = "gc"
    BY <1>1 DEF HookTypes
  <2> HIDE DEF g
  <2> QED BY <1>1, <2>1, OwnSame DEF SyncCalls
<1>3. Continue(u, g) BY DEF ToGarbage
<1> HIDE DEF g
<1> QED BY <1>2, <1>3, OwnLocal DEF ToGarbage, Local, stored

LEMMA OwnSkipRelation ==
  ASSUME TypeOK, OnlyOwnHeld, NEW u \in Units, SkipRelation(u)
  PROVE  OnlyOwnHeld'
<1>1. PICK r \in Relations :
        /\ TakesTurn(u, r)
        /\ Continue(u, [Published(hook[u], r) EXCEPT !.todo = @ \ {r}])
        /\ Local
  BY DEF SkipRelation
<1> DEFINE h == hook[u]
           p == Published(h, r)
           g == [p EXCEPT !.todo = p.todo \ {r}]
<1>2. OwnHook(provs, apps, h) /\ h.pc = "next" /\ h \in HookTypes
  BY <1>1, HookWellFormed DEF OnlyOwnHeld, TakesTurn, At, WellFormed
<1>3. p \in HookTypes /\ p = [h EXCEPT !.bag = p.bag] BY HookWellFormed, PublishedTypes
<1>4. OwnHook(provs, apps, g)
  <2> HIDE DEF h, p
  <2>1. /\ g.cache = h.cache /\ g.pk = h.pk /\ g.cur = h.cur /\ g.slug = h.slug
        /\ g.pc = "next"
    BY <1>2, <1>3 DEF HookTypes
  <2> HIDE DEF g
  <2> QED BY <1>2, <2>1, OwnSame DEF SyncCalls
<1> HIDE DEF g
<1> QED BY <1>1, <1>4, OwnLocal DEF Local, stored, g

LEMMA OwnBeginRelation ==
  ASSUME TypeOK, OnlyOwnHeld, NEW u \in Units, BeginRelation(u)
  PROVE  OnlyOwnHeld'
<1>1. PICK r \in Relations :
        LET h == Published(hook[u], r)
            begun == [h EXCEPT !.pc = "mappings", !.cur = r, !.pk = h.cache[r].pk,
                               !.slug = CachedSlug(h, r)]
        IN /\ TakesTurn(u, r)
           /\ \E c : Continue(u, [begun EXCEPT !.creds = c])
           /\ Local
  BY DEF BeginRelation
<1> DEFINE h == hook[u]
           p == Published(h, r)
           s == CachedSlug(p, r)
           k == p.cache[r].pk
           begun == [p EXCEPT !.pc = "mappings", !.cur = r, !.pk = k, !.slug = s]
<1>2. OwnHook(provs, apps, h) /\ h.pc = "next" /\ h \in HookTypes
  BY <1>1, HookWellFormed DEF OnlyOwnHeld, TakesTurn, At, WellFormed
<1>3. p \in HookTypes /\ p = [h EXCEPT !.bag = p.bag] BY HookWellFormed, PublishedTypes
<1>4. p.cache = h.cache
  <2> HIDE DEF h, p
  <2> QED BY <1>2, <1>3 DEF HookTypes
<1>5. NotForeign(provs, k) /\ NotForeign(provs, apps[<<s, r>>])
  <2>1. OwnEntry(provs, apps, r, p.cache[r]) BY <1>2, <1>4 DEF OwnHook
  <2>2. NotForeign(provs, apps[<<"managed", r>>]) BY DEF OnlyOwnHeld, ManagedName
  <2> HIDE DEF p
  <2> QED BY <2>1, <2>2 DEF OwnEntry, CachedSlug
<1>6. PICK c : Continue(u, [begun EXCEPT !.creds = c]) BY <1>1
<1> DEFINE g == [begun EXCEPT !.creds = c]
<1>7. OwnHook(provs, apps, g)
  <2> HIDE DEF h, p, s, k
  <2>1. /\ g.cache = p.cache /\ g.pk = k /\ g.cur = r /\ g.slug = s
        /\ g.pc = "mappings"
    BY <1>3 DEF HookTypes
  <2> HIDE DEF g
  <2> QED BY <1>2, <1>4, <1>5, <2>1 DEF OwnHook, SlugOf
<1> HIDE DEF g
<1> QED BY <1>1, <1>6, <1>7, OwnLocal DEF Local, stored, g

\* Of a unit that makes a call, other than on a provider yet to be validated.
LEMMA OwnCaller ==
  ASSUME TypeOK, OnlyOwnHeld, NEW u \in Units, hook[u].pc \in SyncCalls \ {"validate"}
  PROVE  /\ OwnHook(provs, apps, hook[u]) /\ hook[u] \in HookTypes
         /\ hook[u].cur \in Relations
         /\ NotForeign(provs, hook[u].pk) /\ NotForeign(provs, apps[SlugOf(hook[u])])
<1>1. hook[u] \in HookTypes /\ hook[u].cur \in Relations /\ hook[u].slug # "none"
  BY CallingHook DEF Kinds
<1> QED BY <1>1 DEF OnlyOwnHeld, OwnHook, SyncCalls

LEMMA OwnResolveMappings ==
  ASSUME TypeOK, OnlyOwnHeld, NEW u \in Units, ResolveMappings(u)
  PROVE  OnlyOwnHeld'
<1> DEFINE h == hook[u]
           g(pc) == [h EXCEPT !.mapped = TRUE, !.pc = pc]
<1>1. h.pc = "mappings" BY DEF ResolveMappings, At
<1>2. OwnHook(provs, apps, h) /\ h \in HookTypes BY <1>1, OwnCaller DEF SyncCalls
<1>3. \A pc \in {"cachedApp", "managedApp"} : OwnHook(provs, apps, g(pc))
  <2> TAKE pc \in {"cachedApp", "managedApp"}
  <2> HIDE DEF h
  <2>1. /\ g(pc).cache = h.cache /\ g(pc).pk = h.pk /\ g(pc).cur = h.cur
        /\ g(pc).slug = h.slug /\ g(pc).pc = pc
    BY <1>2 DEF HookTypes
  <2> HIDE DEF g
  <2> QED BY <1>1, <1>2, <2>1, OwnSame DEF SyncCalls
<1>4. \/ CaughtStaleFlow(u)
      \/ Continue(u, g("cachedApp"))
      \/ Continue(u, g("managedApp"))
  BY DEF ResolveMappings
<1>5. UNCHANGED <<authentik, cache>> BY DEF ResolveMappings, Local, stored
<1> HIDE DEF g
<1> QED BY <1>3, <1>4, <1>5, OwnCaught, OwnLocal

LEMMA OwnGetCachedApplication ==
  ASSUME TypeOK, OnlyOwnHeld, NEW u \in Units, GetCachedApplication(u)
  PROVE  OnlyOwnHeld'
<1> DEFINE h == hook[u]
           g(app) == [h EXCEPT !.app = app, !.pc = "cachedProv"]
<1>1. h.pc = "cachedApp" BY DEF GetCachedApplication, At
<1>2. OwnHook(provs, apps, h) /\ h \in HookTypes BY <1>1, OwnCaller DEF SyncCalls
<1>3. \A app \in BOOLEAN : OwnHook(provs, apps, g(app))
  <2> TAKE app \in BOOLEAN
  <2> HIDE DEF h
  <2>1. /\ g(app).cache = h.cache /\ g(app).pk = h.pk /\ g(app).cur = h.cur
        /\ g(app).slug = h.slug /\ g(app).pc = "cachedProv"
    BY <1>2 DEF HookTypes
  <2> HIDE DEF g
  <2> QED BY <1>1, <1>2, <2>1, OwnSame DEF SyncCalls
<1>4. \/ \E app \in BOOLEAN : Continue(u, g(app))
      \/ Caught(u)
      \/ HookFailed(u)
  BY DEF GetCachedApplication
<1>5. UNCHANGED authentik /\ (~HookFailed(u) => UNCHANGED cache)
  BY DEF GetCachedApplication, Local, stored
<1> HIDE DEF g
<1>6. CASE HookFailed(u) BY <1>5, <1>6, OwnFailed
<1>7. CASE ~HookFailed(u) BY <1>3, <1>4, <1>5, <1>7, OwnCaught, OwnLocal
<1> QED BY <1>6, <1>7

LEMMA OwnGetCachedProvider ==
  ASSUME TypeOK, OnlyOwnHeld, NEW u \in Units, GetCachedProvider(u)
  PROVE  OnlyOwnHeld'
<1> DEFINE h == hook[u]
           update == [h EXCEPT !.pc = "update"]
           c == [h.cache EXCEPT ![h.cur] = NoEntry]
           again == [h EXCEPT !.cache = c, !.pc = "managedApp",
                              !.pk = NoPk, !.slug = "managed", !.app = FALSE]
<1>1. h.pc = "cachedProv" BY DEF GetCachedProvider, At
<1>2. OwnHook(provs, apps, h) /\ h \in HookTypes /\ h.cur \in Relations
  BY <1>1, OwnCaller DEF SyncCalls
<1>3. OwnHook(provs, apps, update)
  <2> HIDE DEF h
  <2>1. /\ update.cache = h.cache /\ update.pk = h.pk /\ update.cur = h.cur
        /\ update.slug = h.slug /\ update.pc = "update"
    BY <1>2 DEF HookTypes
  <2> HIDE DEF update
  <2> QED BY <1>1, <1>2, <2>1, OwnSame DEF SyncCalls
<1>4. OwnHook(provs, apps, again)
  <2>1. \A r \in Relations : OwnEntry(provs, apps, r, c[r])
    <3>1. OwnEntry(provs, apps, h.cur, NoEntry) BY DEF OwnEntry, NoEntry, NotForeign, NoPk, Pks
    <3>2. h.cache \in [Relations -> Entries \cup {NoEntry}]
          /\ \A r \in Relations : OwnEntry(provs, apps, r, h.cache[r])
      BY <1>2 DEF HookTypes, OwnHook
    <3> HIDE DEF h
    <3> QED BY <3>1, <3>2
  <2> HIDE DEF h, c
  <2>2. /\ again.cache = c /\ again.pk = NoPk /\ again.cur = h.cur
        /\ again.slug = "managed" /\ again.pc = "managedApp"
    BY <1>2 DEF HookTypes
  <2> HIDE DEF again
  <2>3. NotForeign(provs, apps[<<"managed", h.cur>>]) BY <1>2 DEF OnlyOwnHeld, ManagedName
  <2>4. NoPk \notin Pks BY DEF NoPk, Pks
  <2> QED BY <2>1, <2>2, <2>3, <2>4 DEF OwnHook, NotForeign, SlugOf
<1>5. Continue(u, update) \/ Continue(u, again) BY DEF GetCachedProvider
<1>6. UNCHANGED <<authentik, cache>> BY DEF GetCachedProvider, Local, stored
<1> HIDE DEF update, again
<1> QED BY <1>3, <1>4, <1>5, <1>6, OwnLocal

LEMMA OwnGetApplication ==
  ASSUME TypeOK, OnlyOwnHeld, NEW u \in Units, NEW pc \in SyncCalls \ {"validate"},
         NEW kind \in Kinds, NEW otherwise \in SyncCalls \ {"validate"},
         GetApplication(u, pc, kind, otherwise)
  PROVE  OnlyOwnHeld'
<1> DEFINE h == hook[u]
           absent == [h EXCEPT !.pc = otherwise, !.slug = "managed"]
           found == [h EXCEPT !.pc = "validate", !.slug = kind, !.pk = apps[<<kind, h.cur>>]]
<1>1. h.pc = pc BY DEF GetApplication, At
<1>2. OwnHook(provs, apps, h) /\ h \in HookTypes /\ h.cur \in Relations
      /\ NotForeign(provs, h.pk)
  BY <1>1, OwnCaller
<1>3. OwnHook(provs, apps, absent)
  <2>1. NotForeign(provs, apps[<<"managed", h.cur>>]) BY <1>2 DEF OnlyOwnHeld, ManagedName
  <2> HIDE DEF h
  <2>2. /\ absent.cache = h.cache /\ absent.pk = h.pk /\ absent.cur = h.cur
        /\ absent.slug = "managed" /\ absent.pc = otherwise
    BY <1>2 DEF HookTypes
  <2> HIDE DEF absent
  <2> QED BY <1>2, <2>1, <2>2 DEF OwnHook, SlugOf
<1>4. OwnHook(provs, apps, found)
  <2> HIDE DEF h
  <2>1. /\ found.cache = h.cache /\ found.pk = apps[<<kind, h.cur>>] /\ found.cur = h.cur
        /\ found.slug = kind /\ found.pc = "validate"
    BY <1>2 DEF HookTypes
  <2> HIDE DEF found
  <2> QED BY <1>2, <2>1 DEF OwnHook, SlugOf
<1>5. Continue(u, absent) \/ Caught(u) \/ Continue(u, found)
  BY DEF GetApplication
<1>6. UNCHANGED <<authentik, cache>> BY DEF GetApplication, Local, stored
<1> HIDE DEF absent, found
<1> QED BY <1>3, <1>4, <1>5, <1>6, OwnCaught, OwnLocal

\* Recording one's own provider and application in the cache.
LEMMA OwnPersisted ==
  ASSUME NEW ps, NEW as, NEW h \in HookTypes, h.cur \in Relations, h.slug # "none",
         h.pc \in SyncCalls \ {"validate"}, OwnHook(ps, as, h)
  PROVE  OwnHook(ps, as, Persisted(h))
<1> DEFINE e == [pk |-> h.pk, slug |-> h.slug, hash |-> NoHash]
           c == [h.cache EXCEPT ![h.cur] = e]
           g == [h EXCEPT !.cache = c]
<1>1. OwnEntry(ps, as, h.cur, e) BY DEF OwnHook, OwnEntry, SlugOf, SyncCalls
<1>2. \A r \in Relations : OwnEntry(ps, as, r, c[r])
  <2> HIDE DEF e
  <2> QED BY <1>1 DEF OwnHook, HookTypes
<1>3. Persisted(h) = g BY DEF Persisted
<1> HIDE DEF c
<1>4. /\ g.cache = c /\ g.pk = h.pk /\ g.cur = h.cur /\ g.slug = h.slug /\ g.pc = h.pc
  BY DEF HookTypes
<1> HIDE DEF g
<1>5. OwnHook(ps, as, g) BY <1>2, <1>4 DEF OwnHook, SlugOf
<1> QED BY <1>3, <1>5

LEMMA OwnValidateProvider ==
  ASSUME TypeOK, OnlyOwnHeld, NEW u \in Units, ValidateProvider(u)
  PROVE  OnlyOwnHeld'
<1> DEFINE h == hook[u]
           g == [h EXCEPT !.pc = "update", !.app = TRUE]
<1>1. h.pc = "validate" BY DEF ValidateProvider, At
<1>2. OwnHook(provs, apps, h) /\ h \in HookTypes /\ h.cur \in Relations
      /\ h.slug \in Kinds /\ h.pk \in Pks
  BY <1>1, CallingHook DEF OnlyOwnHeld, SyncCalls, KeyCalls
<1>3. UNCHANGED <<authentik, cache>> BY DEF ValidateProvider, Local, stored
<1>4. CASE Caught(u) BY <1>3, <1>4, OwnCaught
<1>5. CASE provs[h.pk].name \in ExpectedNames(h) /\ Continue(u, Persisted(g))
  <2>1. provs[h.pk].name # Foreign
    BY <1>5 DEF ExpectedNames, ManagedName, LegacyName, Foreign
  <2>2. NotForeign(provs, apps[SlugOf(h)]) /\ NotForeign(provs, h.pk)
    BY <1>1, <1>2, <2>1 DEF OwnHook, NotForeign
  <2>3. g \in HookTypes /\ g.cur = h.cur /\ g.slug = h.slug /\ g.pk = h.pk
        /\ g.cache = h.cache /\ g.pc = "update"
    <3> HIDE DEF h
    <3> QED BY <1>2 DEF HookTypes, Positions, Calls, SyncCalls
  <2> HIDE DEF g, h
  <2>4. OwnHook(provs, apps, g) BY <1>2, <2>2, <2>3 DEF OwnHook, SlugOf
  <2>5. OwnHook(provs, apps, Persisted(g)) BY <1>2, <2>3, <2>4, OwnPersisted DEF Kinds, SyncCalls
  <2> QED BY <1>3, <1>5, <2>5, OwnLocal
<1> QED BY <1>4, <1>5 DEF ValidateProvider

\* A provider found by the relation's own name is no foreign one.
LEMMA NamedNotForeign ==
  ASSUME NEW ps, NEW r \in Relations, NEW p \in PksNamed(ps, ManagedName(r))
  PROVE  p \in Pks /\ NotForeign(ps, p)
BY DEF PksNamed, ManagedName, Foreign, NotForeign

LEMMA OwnFindProvider ==
  ASSUME TypeOK, OnlyOwnHeld, NEW u \in Units, FindProvider(u)
  PROVE  OnlyOwnHeld'
<1> DEFINE h == hook[u]
           none == [h EXCEPT !.pc = "create", !.pk = NoPk]
           g(p) == [h EXCEPT !.pc = "update", !.pk = p]
<1>1. h.pc = "find" BY DEF FindProvider, At
<1>2. OwnHook(provs, apps, h) /\ h \in HookTypes /\ h.cur \in Relations
      /\ NotForeign(provs, apps[SlugOf(h)]) /\ h.slug # "none"
  BY <1>1, OwnCaller, CallingHook DEF SyncCalls, Kinds
<1>3. OwnHook(provs, apps, none)
  <2> HIDE DEF h
  <2>1. /\ none.cache = h.cache /\ none.pk = NoPk /\ none.cur = h.cur
        /\ none.slug = h.slug /\ none.pc = "create"
    BY <1>2 DEF HookTypes
  <2> HIDE DEF none
  <2>2. NoPk \notin Pks BY DEF NoPk, Pks
  <2> QED BY <1>2, <2>1, <2>2 DEF OwnHook, NotForeign, SlugOf
<1>4. \A p \in PksNamed(provs, ManagedName(h.cur)) : OwnHook(provs, apps, Persisted(g(p)))
  <2> TAKE p \in PksNamed(provs, ManagedName(h.cur))
  <2>1. p \in Pks /\ NotForeign(provs, p) BY <1>2, NamedNotForeign
  <2> HIDE DEF h
  <2>2. g(p) \in HookTypes /\ g(p).cur = h.cur /\ g(p).slug = h.slug /\ g(p).pk = p
        /\ g(p).cache = h.cache /\ g(p).pc = "update"
    BY <1>2, <2>1 DEF HookTypes, Positions, Calls, SyncCalls
  <2> HIDE DEF g
  <2>3. OwnHook(provs, apps, g(p)) BY <1>2, <2>1, <2>2 DEF OwnHook, SlugOf
  <2> QED BY <1>2, <2>2, <2>3, OwnPersisted DEF SyncCalls
<1>5. \/ Continue(u, none)
      \/ \E p \in PksNamed(provs, ManagedName(h.cur)) : Continue(u, Persisted(g(p)))
  BY DEF FindProvider
<1>6. UNCHANGED <<authentik, cache>> BY DEF FindProvider, Local, stored
<1> HIDE DEF none, g
<1> QED BY <1>3, <1>4, <1>5, <1>6, OwnLocal

------------------------------------------------------------------------------
(* The steps that write to Authentik.                                        *)

StoreUntouched == Untouched(provs, apps, provs', apps')

\* A unit that creates a provider, or finds it created, holds it as its own.
LEMMA OwnAfterCreate ==
  ASSUME TypeOK, OnlyOwnHeld, NEW u \in Units, hook[u].pc \in {"create", "recover"},
         NEW ps, NEW p \in Pks, NotForeign(ps, p), Kept(provs, apps, ps, apps)
  PROVE  OwnHook(ps, apps, AfterCreate(hook[u], p))
<1> DEFINE h == hook[u]
           g == [h EXCEPT !.pc = "createApp", !.pk = p, !.made = TRUE]
<1>1. OwnHook(ps, apps, h) BY HookWellFormed, KeptHook DEF OnlyOwnHeld
<1>2. h \in HookTypes /\ h.cur \in Relations /\ h.slug # "none"
      /\ h.pc \in SyncCalls \ {"validate"}
  BY CallingHook DEF SyncCalls, Kinds
<1>3. AfterCreate(hook[u], p) = Persisted(g) BY DEF AfterCreate
<1> HIDE DEF h
<1>4. g \in HookTypes /\ g.cur = h.cur /\ g.slug = h.slug /\ g.pk = p
      /\ g.cache = h.cache /\ g.pc = "createApp"
  BY <1>2 DEF HookTypes, Positions, Calls, SyncCalls
<1> HIDE DEF g
<1>5. OwnHook(ps, apps, g) BY <1>1, <1>2, <1>4 DEF OwnHook, SlugOf, SyncCalls
<1> QED BY <1>2, <1>3, <1>4, <1>5, OwnPersisted DEF SyncCalls

\* A new provider takes the key of none, and is not foreign.
LEMMA NewProvider ==
  ASSUME TypeOK, NEW p \in Pks, FreshPk(p), NEW rec, rec.name # Foreign
  PROVE  /\ Kept(provs, apps, WithProvider(provs, p, rec), apps)
         /\ Untouched(provs, apps, WithProvider(provs, p, rec), apps)
         /\ NotForeign(WithProvider(provs, p, rec), p)
<1>1. provs[p] = NoProvider BY DEF FreshPk, Least, PksInUse, ProviderExists
<1>2. provs[p].name # Foreign BY <1>1 DEF NoProvider, NoName, Foreign
<1>3. NotForeign(WithProvider(provs, p, rec), p) BY DEF NotForeign, WithProvider, TypeOK
<1> QED BY <1>2, <1>3, PutProvider DEF TypeOK

LEMMA RequestNotForeign == ASSUME NEW h PROVE Request(h).name # Foreign
BY DEF Request, ManagedName, Foreign

LEMMA OwnCreateProvider ==
  ASSUME TypeOK, OnlyOwnHeld, NEW u \in Units, CreateProvider(u)
  PROVE  OnlyOwnHeld' /\ StoreUntouched
<1>1. hook[u].pc = "create" BY DEF CreateProvider, At
<1>2. PICK p \in Pks : /\ FreshPk(p) /\ provs' = WithProvider(provs, p, Request(hook[u]))
                       /\ Continue(u, AfterCreate(hook[u], p))
  BY DEF CreateProvider, ProviderCreated
<1>3. apps' = apps /\ late' = late /\ cache' = cache BY DEF CreateProvider, stored
<1>4. /\ Kept(provs, apps, provs', apps') /\ StoreUntouched /\ NotForeign(provs', p)
  BY <1>2, <1>3, NewProvider, RequestNotForeign DEF StoreUntouched
<1>5. OwnHook(provs', apps', AfterCreate(hook[u], p)) BY <1>1, <1>3, <1>4, OwnAfterCreate
<1>6. \A q \in late' : q.name # Foreign BY <1>3 DEF OnlyOwnHeld
<1> QED BY <1>2, <1>3, <1>4, <1>5, <1>6, OwnStep

LEMMA OwnCreateProviderLost ==
  ASSUME TypeOK, OnlyOwnHeld, NEW u \in Units, CreateProviderLost(u)
  PROVE  OnlyOwnHeld' /\ StoreUntouched
<1> DEFINE h == hook[u]
           g == [h EXCEPT !.pc = "recover", !.lost = TRUE]
<1>1. h.pc = "create" BY DEF CreateProviderLost, At
<1>2. Continue(u, g) /\ apps' = apps /\ cache' = cache BY DEF CreateProviderLost, stored
<1>3. Kept(provs, apps, provs', apps') /\ StoreUntouched
  <2>1. provs' = provs \/ \E p \in Pks : FreshPk(p) /\ provs' = WithProvider(provs, p, Request(h))
    BY DEF CreateProviderLost, ProviderCreated
  <2> HIDE DEF h
  <2> QED BY <1>2, <2>1, NewProvider, RequestNotForeign, UnchangedStore DEF StoreUntouched
<1>4. \A q \in late' : q.name # Foreign
  BY RequestNotForeign DEF OnlyOwnHeld, CreateProviderLost
<1>5. OwnHook(provs, apps, h) /\ h \in HookTypes BY <1>1, OwnCaller DEF SyncCalls
<1>6. OwnHook(provs', apps', h) BY <1>3, HookWellFormed, KeptHook DEF OnlyOwnHeld
<1>7. OwnHook(provs', apps', g)
  <2> HIDE DEF h
  <2>1. /\ g.cache = h.cache /\ g.pk = h.pk /\ g.cur = h.cur /\ g.slug = h.slug
        /\ g.pc = "recover"
    BY <1>5 DEF HookTypes
  <2> HIDE DEF g
  <2> QED BY <1>1, <1>6, <2>1, OwnSame DEF SyncCalls
<1> HIDE DEF g
<1> QED BY <1>2, <1>3, <1>4, <1>7, OwnStep

LEMMA OwnCreateProviderConflict ==
  ASSUME TypeOK, OnlyOwnHeld, NEW u \in Units, CreateProviderConflict(u)
  PROVE  OnlyOwnHeld'
<1> DEFINE h == hook[u]
           g == [h EXCEPT !.pc = "recover"]
<1>1. h.pc = "create" BY DEF CreateProviderConflict, At
<1>2. OwnHook(provs, apps, h) /\ h \in HookTypes BY <1>1, OwnCaller DEF SyncCalls
<1>3. OwnHook(provs, apps, g)
  <2> HIDE DEF h
  <2>1. /\ g.cache = h.cache /\ g.pk = h.pk /\ g.cur = h.cur /\ g.slug = h.slug
        /\ g.pc = "recover"
    BY <1>2 DEF HookTypes
  <2> HIDE DEF g
  <2> QED BY <1>1, <1>2, <2>1, OwnSame DEF SyncCalls
<1>4. Continue(u, g) /\ UNCHANGED <<authentik, cache>>
  BY DEF CreateProviderConflict, Local, stored
<1> HIDE DEF g
<1> QED BY <1>3, <1>4, OwnLocal

LEMMA OwnRecoverProvider ==
  ASSUME TypeOK, OnlyOwnHeld, NEW u \in Units, RecoverProvider(u)
  PROVE  OnlyOwnHeld'
<1>1. hook[u].pc = "recover" /\ hook[u].cur \in Relations
  BY CallingHook DEF RecoverProvider, At, SyncCalls
<1>2. ASSUME NEW p \in PksNamed(provs, ManagedName(hook[u].cur)),
             Continue(u, AfterCreate(hook[u], p)), Local
      PROVE  OnlyOwnHeld'
  <2>1. p \in Pks /\ NotForeign(provs, p) BY <1>1, NamedNotForeign
  <2>2. OwnHook(provs, apps, AfterCreate(hook[u], p))
    BY <1>1, <2>1, OwnAfterCreate, UnchangedStore
  <2> QED BY <1>2, <2>2, OwnLocal DEF Local, stored
<1>3. ASSUME HookFailed(u), UNCHANGED authentik PROVE OnlyOwnHeld'
  BY <1>3, OwnFailed
<1>4. ASSUME Caught(u), Local PROVE OnlyOwnHeld'
  BY <1>4, OwnCaught DEF Local, stored
<1> QED BY <1>2, <1>3, <1>4 DEF RecoverProvider

LEMMA OwnUpdateProvider ==
  ASSUME TypeOK, OnlyOwnHeld, NEW u \in Units, UpdateProvider(u)
  PROVE  OnlyOwnHeld' /\ StoreUntouched
<1> DEFINE h == hook[u]
           g(pc) == [h EXCEPT !.pc = pc]
<1>1. h.pc = "update" BY DEF UpdateProvider, At
<1>2. OwnHook(provs, apps, h) /\ h \in HookTypes /\ NotForeign(provs, h.pk) /\ h.pk \in Pks
  BY <1>1, OwnCaller, CallingHook DEF SyncCalls, KeyCalls
<1>3. apps' = apps /\ late' = late /\ cache' = cache BY DEF UpdateProvider, stored
<1>4. CASE CaughtStaleFlow(u) /\ provs' = provs
  BY <1>3, <1>4, OwnCaught, UnchangedStore DEF StoreUntouched, UpdateProvider, authentik
<1>5. CASE /\ provs' = WithProvider(provs, h.pk, Request(h))
           /\ \E pc \in {"createApp", "updateApp"} : Continue(u, g(pc))
  <2>1. Kept(provs, apps, provs', apps') /\ StoreUntouched
    <3> HIDE DEF h
    <3> QED BY <1>2, <1>3, <1>5, PutProvider, RequestNotForeign
            DEF StoreUntouched, NotForeign, TypeOK
  <2>2. OwnHook(provs', apps', h) BY <2>1, HookWellFormed, KeptHook DEF OnlyOwnHeld
  <2>3. \A pc \in {"createApp", "updateApp"} : OwnHook(provs', apps', g(pc))
    <3> TAKE pc \in {"createApp", "updateApp"}
    <3> HIDE DEF h
    <3>1. /\ g(pc).cache = h.cache /\ g(pc).pk = h.pk /\ g(pc).cur = h.cur
          /\ g(pc).slug = h.slug /\ g(pc).pc = pc
      BY <1>2 DEF HookTypes
    <3> HIDE DEF g
    <3> QED BY <1>1, <2>2, <3>1, OwnSame DEF SyncCalls
  <2>4. \A q \in late' : q.name # Foreign BY <1>3 DEF OnlyOwnHeld
  <2> HIDE DEF g
  <2> QED BY <1>3, <1>5, <2>1, <2>3, <2>4, OwnStep
<1>6. CASE h.app BY <1>4, <1>5, <1>6 DEF UpdateProvider
<1>7. CASE ~h.app BY <1>4, <1>5, <1>7 DEF UpdateProvider
<1> QED BY <1>6, <1>7

\* The hook that has synchronized a relation has recorded what it worked on.
LEMMA OwnSynchronized ==
  ASSUME NEW ps, NEW as, NEW h \in HookTypes, h.cur \in Relations,
         h.pc \in SyncCalls \ {"validate"}, OwnHook(ps, as, h)
  PROVE  OwnHook(ps, as, Synchronized(h))
<1> DEFINE e == [pk |-> h.pk, slug |-> h.slug, hash |-> HashOf(h, h.cur)]
           c == [h.cache EXCEPT ![h.cur] = e]
           g == Synchronized(h)
<1>1. OwnEntry(ps, as, h.cur, e) BY DEF OwnHook, OwnEntry, SlugOf, SyncCalls
<1>2. \A r \in Relations : OwnEntry(ps, as, r, c[r])
  <2> HIDE DEF e
  <2> QED BY <1>1 DEF OwnHook, HookTypes
<1>3. g.cache = c /\ g.pk = NoPk /\ g.slug = "none" /\ g.pc = "next"
  <2> HIDE DEF e
  <2>1. g.cache = c BY DEF Synchronized, HookTypes, e
  <2>2. g.pk = NoPk /\ g.slug = "none" /\ g.pc = "next" BY DEF Synchronized, HookTypes
  <2> QED BY <2>1, <2>2
<1>4. NoPk \notin Pks BY DEF NoPk, Pks
<1> HIDE DEF c, g
<1>5. OwnHook(ps, as, g) BY <1>2, <1>3, <1>4 DEF OwnHook, NotForeign, SyncCalls
<1> QED BY <1>5 DEF g

\* Writing the hook's own provider into the application of its slug.
LEMMA OwnWriteApplication ==
  ASSUME TypeOK, OnlyOwnHeld, NEW u \in Units, hook[u].pc \in {"createApp", "updateApp"},
         Continue(u, Synchronized(hook[u])),
         apps' = WithApp(apps, SlugOf(hook[u]), hook[u].pk),
         UNCHANGED <<provs, late, cache>>
  PROVE  OnlyOwnHeld' /\ StoreUntouched
<1> DEFINE h == hook[u]
<1>1. /\ h \in HookTypes /\ h.cur \in Relations /\ SlugOf(h) \in Slugs
      /\ NotForeign(provs, h.pk) /\ NotForeign(provs, apps[SlugOf(h)])
  <2>1. h.slug \in Kinds BY CallingHook DEF SyncCalls
  <2> QED BY <2>1, OwnCaller DEF SyncCalls, SlugOf, Slugs
<1>2. Kept(provs, apps, provs', apps') /\ StoreUntouched
  <2> HIDE DEF h
  <2> QED BY <1>1, PutApplication DEF StoreUntouched, TypeOK, h
<1>3. OwnHook(provs', apps', h) BY <1>2, HookWellFormed, KeptHook DEF OnlyOwnHeld
<1>4. NotForeign(provs', apps'[SlugOf(h)])
  BY <1>1, <1>2 DEF Kept, NotForeign
<1>5. OwnHook(provs', apps', Synchronized(h)) BY <1>1, <1>3, <1>4, OwnSynchronized DEF SyncCalls
<1>6. \A q \in late' : q.name # Foreign BY DEF OnlyOwnHeld
<1> QED BY <1>2, <1>5, <1>6, OwnStep

LEMMA OwnCreateApplication ==
  ASSUME TypeOK, OnlyOwnHeld, NEW u \in Units, CreateApplication(u)
  PROVE  OnlyOwnHeld' /\ StoreUntouched
BY OwnWriteApplication DEF CreateApplication, At, stored

LEMMA OwnCreateApplicationRefused ==
  ASSUME TypeOK, OnlyOwnHeld, NEW u \in Units, CreateApplicationRefused(u)
  PROVE  OnlyOwnHeld'
<1>1. hook[u].pc = "createApp" BY DEF CreateApplicationRefused, At
<1>2. UNCHANGED <<authentik, cache>> BY DEF CreateApplicationRefused, Local, stored
<1>3. CASE Continue(u, Synchronized(hook[u]))
  <2>1. OwnHook(provs, apps, Synchronized(hook[u]))
    BY <1>1, OwnCaller, OwnSynchronized DEF SyncCalls
  <2> QED BY <1>2, <1>3, <2>1, OwnLocal
<1>4. CASE Caught(u) \/ CaughtStaleFlow(u) BY <1>2, <1>4, OwnCaught
<1> QED BY <1>3, <1>4 DEF CreateApplicationRefused

LEMMA OwnUpdateApplication ==
  ASSUME TypeOK, OnlyOwnHeld, NEW u \in Units, UpdateApplication(u)
  PROVE  OnlyOwnHeld' /\ StoreUntouched
<1>1. UNCHANGED <<provs, late, cache>> BY DEF UpdateApplication, stored
<1>2. CASE CaughtStaleFlow(u) /\ apps' = apps
  BY <1>1, <1>2, OwnCaught, UnchangedStore DEF StoreUntouched, UpdateApplication, authentik
<1>3. CASE ~(CaughtStaleFlow(u) /\ apps' = apps)
  BY <1>1, <1>3, OwnWriteApplication DEF UpdateApplication, At
<1> QED BY <1>2, <1>3

LEMMA OwnCollectNext ==
  ASSUME TypeOK, OnlyOwnHeld, NEW u \in Units, CollectNext(u)
  PROVE  OnlyOwnHeld'
<1> DEFINE h == hook[u]
           done == [h EXCEPT !.pc = "commit"]
           g(r) == [h EXCEPT !.cur = r, !.pk = h.cache[r].pk,
                             !.pc = IF h.cache[r].slug # "none" THEN "gcApp" ELSE "gcProv"]
<1>1. /\ OwnHook(provs, apps, h) /\ h \in HookTypes /\ h.pc = "gc"
  BY HookWellFormed DEF OnlyOwnHeld, WellFormed, CollectNext, At
<1>2. OwnHook(provs, apps, done)
  <2> HIDE DEF h
  <2>1. done.cache = h.cache /\ done.pc = "commit" BY <1>1 DEF HookTypes
  <2> HIDE DEF done
  <2> QED BY <1>1, <2>1 DEF OwnHook, SyncCalls
<1>3. \A r \in Relations : OwnHook(provs, apps, g(r))
  <2> TAKE r \in Relations
  <2>1. NotForeign(provs, h.cache[r].pk) BY <1>1 DEF OwnHook, OwnEntry
  <2> HIDE DEF h
  <2> DEFINE pc == IF h.cache[r].slug # "none" THEN "gcApp" ELSE "gcProv"
  <2>2. pc \in {"gcApp", "gcProv"} OBVIOUS
  <2> HIDE DEF pc
  <2>3. g(r).cache = h.cache /\ g(r).pk = h.cache[r].pk /\ g(r).pc = pc
    BY <1>1 DEF HookTypes, pc
  <2> HIDE DEF g
  <2> QED BY <1>1, <2>1, <2>2, <2>3 DEF OwnHook, SyncCalls
<1>4. Continue(u, done) \/ \E r \in Relations : Continue(u, g(r))
  BY DEF CollectNext, Orphans
<1>5. UNCHANGED <<authentik, cache>> BY DEF CollectNext, Local, stored
<1> HIDE DEF done, g
<1> QED BY <1>2, <1>3, <1>4, <1>5, OwnLocal

LEMMA OwnDeleteApplication ==
  ASSUME TypeOK, OnlyOwnHeld, NEW u \in Units, DeleteApplication(u)
  PROVE  OnlyOwnHeld' /\ StoreUntouched
<1> DEFINE h == hook[u]
           e == h.cache[h.cur]
           s == <<e.slug, h.cur>>
           e2 == [e EXCEPT !.slug = "none", !.hash = NoHash]
           c == [h.cache EXCEPT ![h.cur] = e2]
           g == [h EXCEPT !.pc = "gcProv", !.cache = c]
<1>1. h.pc = "gcApp" BY DEF DeleteApplication, At
<1>2. h \in HookTypes /\ h.cur \in Relations /\ e \in Entries BY <1>1, CollectingHook
<1>3. e.slug \in Kinds BY <1>1, HookWellFormed DEF WellFormed, HookShape
<1>4. s \in Slugs /\ NotForeign(provs, apps[s])
  BY <1>2, <1>3 DEF OnlyOwnHeld, OwnHook, OwnEntry, Slugs, Kinds
<1>5. provs' = provs /\ late' = late /\ cache' = cache
      /\ apps' = WithApp(apps, s, AppAbsent)
  BY DEF DeleteApplication, stored, WithoutApp, WithApp
<1>6. Kept(provs, apps, provs', apps') /\ StoreUntouched
  <2>1. NotForeign(provs, AppAbsent) BY DEF NotForeign, AppAbsent, Pks
  <2> HIDE DEF s
  <2> QED BY <1>4, <1>5, <2>1, PutApplication DEF StoreUntouched, TypeOK
<1>7. OwnHook(provs', apps', h) BY <1>6, HookWellFormed, KeptHook DEF OnlyOwnHeld
<1>8. [h EXCEPT !.pc = "gcProv", !.cache[h.cur].slug = "none", !.cache[h.cur].hash = NoHash]
        = g
  <2> HIDE DEF h
  <2> QED BY <1>2 DEF HookTypes
<1>9. OwnHook(provs', apps', g)
  <2>1. \A r \in Relations : OwnEntry(provs', apps', r, c[r])
    <3>1. e2.pk = e.pk /\ e2.slug = "none" BY <1>2 DEF Entries
    <3>2. OwnEntry(provs', apps', h.cur, e2) BY <1>2, <1>7, <3>1 DEF OwnHook, OwnEntry
    <3>3. h.cache \in [Relations -> Entries \cup {NoEntry}]
          /\ \A r \in Relations : OwnEntry(provs', apps', r, h.cache[r])
      BY <1>2, <1>7 DEF HookTypes, OwnHook
    <3> HIDE DEF h, e2
    <3> QED BY <3>2, <3>3
  <2> HIDE DEF h, c
  <2>2. g.cache = c /\ g.pk = h.pk /\ g.pc = "gcProv" BY <1>2 DEF HookTypes
  <2> HIDE DEF g
  <2> QED BY <1>1, <1>7, <2>1, <2>2 DEF OwnHook, SyncCalls
<1>10. Continue(u, g) BY <1>8 DEF DeleteApplication
<1>11. \A q \in late' : q.name # Foreign BY <1>5 DEF OnlyOwnHeld
<1> HIDE DEF g
<1> QED BY <1>5, <1>6, <1>9, <1>10, <1>11, OwnStep

LEMMA OwnDeleteProvider ==
  ASSUME TypeOK, OnlyOwnHeld, NEW u \in Units, DeleteProvider(u)
  PROVE  OnlyOwnHeld' /\ StoreUntouched
<1> DEFINE h == hook[u]
           c == [h.cache EXCEPT ![h.cur] = NoEntry]
           g == Forgotten(h)
<1>1. h.pc = "gcProv" BY DEF DeleteProvider, At
<1>2. h \in HookTypes /\ h.cur \in Relations /\ h.pk \in Pks BY <1>1, CollectingHook
<1>3. /\ provs' = WithoutProvider(provs, h.pk) /\ apps' = Detach(apps, h.pk)
      /\ late' = late /\ cache' = cache /\ Continue(u, g)
  BY DEF DeleteProvider, stored
<1>4. NotForeign(provs, h.pk) BY <1>1 DEF OnlyOwnHeld, OwnHook
<1>5. Kept(provs, apps, provs', apps') /\ StoreUntouched
  <2> HIDE DEF h
  <2> QED BY <1>2, <1>3, <1>4, DropProvider DEF StoreUntouched, TypeOK
<1>6. OwnHook(provs', apps', h) BY <1>5, HookWellFormed, KeptHook DEF OnlyOwnHeld
<1>7. OwnHook(provs', apps', g)
  <2>1. NoPk \notin Pks BY DEF NoPk, Pks
  <2>2. \A r \in Relations : OwnEntry(provs', apps', r, c[r])
    <3>1. OwnEntry(provs', apps', h.cur, NoEntry) BY <2>1 DEF OwnEntry, NoEntry, NotForeign
    <3>2. h.cache \in [Relations -> Entries \cup {NoEntry}]
          /\ \A r \in Relations : OwnEntry(provs', apps', r, h.cache[r])
      BY <1>2, <1>6 DEF HookTypes, OwnHook
    <3> HIDE DEF h
    <3> QED BY <3>1, <3>2
  <2> HIDE DEF h
  <2>3. g.cache = c /\ g.pk = NoPk /\ g.pc = "gc"
    BY <1>2 DEF HookTypes, Forgotten
  <2> HIDE DEF g, c
  <2> QED BY <2>1, <2>2, <2>3 DEF OwnHook, NotForeign, SyncCalls
<1>8. \A q \in late' : q.name # Foreign BY <1>3 DEF OnlyOwnHeld
<1> HIDE DEF g
<1> QED BY <1>3, <1>5, <1>7, <1>8, OwnStep

LEMMA OwnLateCreate ==
  ASSUME TypeOK, OnlyOwnHeld, LateCreate
  PROVE  OnlyOwnHeld' /\ StoreUntouched
<1>1. PICK q \in late :
        /\ late' = late \ {q}
        /\ \/ \E p \in Pks : FreshPk(p) /\ provs' = WithProvider(provs, p, q)
           \/ UNCHANGED provs
  BY DEF LateCreate
<1>2. apps' = apps /\ cache' = cache /\ hook' = hook BY DEF LateCreate, stored
<1>3. q.name # Foreign BY DEF OnlyOwnHeld
<1>4. Kept(provs, apps, provs', apps') /\ StoreUntouched
  BY <1>1, <1>2, <1>3, NewProvider, UnchangedStore DEF StoreUntouched
<1>5. \A r \in Relations : NotForeign(provs', apps'[ManagedName(r)])
  BY <1>4 DEF OnlyOwnHeld, Kept, NotForeign, ManagedName, Slugs, Kinds
<1>6. \A r \in Relations : OwnEntry(provs', apps', r, cache'[r])
  BY <1>2, <1>4, KeptEntry DEF OnlyOwnHeld, TypeOK
<1>7. \A u \in Units : OwnHook(provs', apps', hook'[u])
  BY <1>2, <1>4, KeptHook, HookWellFormed DEF OnlyOwnHeld
<1>8. \A x \in late' : x.name # Foreign BY <1>1 DEF OnlyOwnHeld
<1> QED BY <1>4, <1>5, <1>6, <1>7, <1>8 DEF OnlyOwnHeld

\* A hook that succeeds hands its own cache to Juju, or leaves Juju's.
LEMMA OwnCommit ==
  ASSUME TypeOK, OnlyOwnHeld, NEW u \in Units, Commit(u)
  PROVE  OnlyOwnHeld'
<1>1. UNCHANGED authentik BY DEF Commit
<1>2. CASE HookFailed(u) BY <1>1, <1>2, OwnFailed
<1>3. CASE /\ Continue(u, IdleHook)
           /\ cache' = hook[u].cache \/ cache' = cache
  <2>1. \A r \in Relations : OwnEntry(provs, apps, r, cache'[r])
    BY <1>3 DEF OnlyOwnHeld, OwnHook
  <2>2. \A v \in Units : OwnHook(provs, apps, hook'[v])
    BY <1>3, OwnIdle DEF OnlyOwnHeld, Continue, TypeOK
  <2>3. provs' = provs /\ apps' = apps /\ late' = late BY <1>1 DEF authentik
  <2> QED BY <2>1, <2>2, <2>3 DEF OnlyOwnHeld
<1> QED BY <1>2, <1>3 DEF Commit

------------------------------------------------------------------------------
(* The environment.                                                          *)

\* Steps that touch neither Authentik, nor the cache, nor a hook.
LEMMA OwnElsewhere ==
  ASSUME OnlyOwnHeld, UNCHANGED <<provs, apps, late, cache, hook>>
  PROVE  OnlyOwnHeld' /\ StoreUntouched
BY UnchangedStore DEF OnlyOwnHeld, StoreUntouched

LEMMA OwnAdmin ==
  ASSUME TypeOK, OnlyOwnHeld, AdminDeletesProvider \/ AdminDeletesApplication
  PROVE  OnlyOwnHeld'
<1>1. UNCHANGED <<late, cache, hook>>
  BY DEF AdminDeletesProvider, AdminDeletesApplication, stored
<1>2. Kept(provs, apps, provs', apps')
  <2>1. CASE AdminDeletesProvider
    BY <2>1, DropProvider DEF AdminDeletesProvider, TypeOK
  <2>2. CASE AdminDeletesApplication
    BY <2>2 DEF AdminDeletesApplication, Kept, WithoutApp, NotForeign, AppAbsent, Pks, TypeOK
  <2> QED BY <2>1, <2>2
<1>3. \A r \in Relations : NotForeign(provs', apps'[ManagedName(r)])
  BY <1>2 DEF OnlyOwnHeld, Kept, NotForeign, ManagedName, Slugs, Kinds
<1>4. \A r \in Relations : OwnEntry(provs', apps', r, cache'[r])
  BY <1>1, <1>2, KeptEntry DEF OnlyOwnHeld, TypeOK
<1>5. \A u \in Units : OwnHook(provs', apps', hook'[u])
  BY <1>1, <1>2, KeptHook, HookWellFormed DEF OnlyOwnHeld
<1> QED BY <1>1, <1>3, <1>4, <1>5 DEF OnlyOwnHeld

LEMMA OwnEnvironment ==
  ASSUME TypeOK, OnlyOwnHeld, Environment
  PROVE  OnlyOwnHeld' /\ (tampers' = tampers => StoreUntouched)
<1>1. CASE LateCreate BY <1>1, OwnLateCreate
<1>2. CASE AdminDeletesProvider \/ AdminDeletesApplication
  <2>1. tampers' # tampers
    BY <1>2 DEF AdminDeletesProvider, AdminDeletesApplication, Tamper, TypeOK
  <2> QED BY <1>2, <2>1, OwnAdmin
<1>3. CASE AdminRecreatesFlow
  BY <1>3, OwnElsewhere DEF AdminRecreatesFlow, stored
<1>4. ASSUME NEW r \in Relations,
             Integrate(r) \/ ChangeConf(r) \/ RemoveRelation(r) \/ ClientSecretLost(r)
      PROVE  UNCHANGED <<provs, apps, late, cache, hook>>
  BY <1>4 DEF Integrate, ChangeConf, RemoveRelation, ClientSecretLost, authentik, stored
<1>5. ASSUME NEW u \in Units, ResolveWithoutRetry(u)
      PROVE  UNCHANGED <<provs, apps, late, cache, hook>>
  BY <1>5 DEF ResolveWithoutRetry, authentik, stored
<1> QED BY <1>1, <1>2, <1>3, <1>4, <1>5, OwnElsewhere DEF Environment

\* The steps of a hook that leave the contents of Authentik as they are.
LEMMA OwnQuietStep ==
  ASSUME TypeOK, OnlyOwnHeld, NEW u \in Units,
         \/ ResolveFlow(u) \/ SkipRelation(u) \/ BeginRelation(u) \/ ToGarbage(u)
         \/ ResolveMappings(u) \/ Discovery(u) \/ CollectNext(u) \/ Commit(u)
         \/ CreateProviderInvalid(u) \/ CreateProviderConflict(u) \/ RecoverProvider(u)
         \/ CreateApplicationRefused(u)
  PROVE  OnlyOwnHeld' /\ StoreUntouched
<1>1. CASE Discovery(u)
  <2>1. ASSUME GetManagedApplication(u) \/ GetLegacyApplication(u) PROVE OnlyOwnHeld'
    BY <2>1, OwnGetApplication
       DEF GetManagedApplication, GetLegacyApplication, SyncCalls, Kinds
  <2>2. OnlyOwnHeld'
    BY <1>1, <2>1, OwnGetCachedApplication, OwnGetCachedProvider, OwnValidateProvider,
       OwnFindProvider DEF Discovery
  <2>3. UNCHANGED authentik
    BY <1>1 DEF Discovery, GetCachedApplication, GetCachedProvider, GetManagedApplication,
       GetLegacyApplication, GetApplication, ValidateProvider, FindProvider, Local
  <2> QED BY <2>2, <2>3, UnchangedStore DEF StoreUntouched, authentik
<1>2. CASE CreateProviderInvalid(u)
  <2>1. UNCHANGED <<authentik, cache>> BY <1>2 DEF CreateProviderInvalid, Local, stored
  <2>2. OnlyOwnHeld' BY <1>2, <2>1, OwnCaught DEF CreateProviderInvalid
  <2> QED BY <2>1, <2>2, UnchangedStore DEF StoreUntouched, authentik
<1>3. CASE ~Discovery(u) /\ ~CreateProviderInvalid(u)
  <2>1. OnlyOwnHeld'
    BY <1>3, OwnResolveFlow, OwnSkipRelation, OwnBeginRelation, OwnToGarbage,
       OwnResolveMappings, OwnCollectNext, OwnCommit, OwnCreateProviderConflict,
       OwnRecoverProvider, OwnCreateApplicationRefused
  <2>2. UNCHANGED authentik
    BY <1>3 DEF ResolveFlow, SkipRelation, BeginRelation, ToGarbage, ResolveMappings,
       CollectNext, Commit, CreateProviderConflict, RecoverProvider,
       CreateApplicationRefused, Local
  <2> QED BY <2>1, <2>2, UnchangedStore DEF StoreUntouched, authentik
<1> QED BY <1>1, <1>2, <1>3

LEMMA OwnFaults ==
  ASSUME TypeOK, OnlyOwnHeld, NEW u \in Units, Faults(u)
  PROVE  OnlyOwnHeld' /\ StoreUntouched
<1>1. CASE HookFails(u)
  BY <1>1, OwnFailed, UnchangedStore DEF HookFails, StoreUntouched, authentik
<1>2. CASE CallRefused(u)
  BY <1>2, OwnCaught, UnchangedStore DEF CallRefused, StoreUntouched, authentik, stored
<1>3. CASE CreateProviderLost(u) BY <1>3, OwnCreateProviderLost
<1>4. CASE Elect(u)
  BY <1>4, OwnElsewhere DEF Elect, authentik, stored
<1>5. CASE \E e \in Events : SkippedHook(u, e)
  BY <1>5, OwnElsewhere DEF SkippedHook, HandleEvent, authentik, stored
<1> QED BY <1>1, <1>2, <1>3, <1>4, <1>5 DEF Faults

LEMMA OwnDispatch ==
  ASSUME TypeOK, OnlyOwnHeld, NEW u \in Units, NEW e \in Events, Dispatch(u, e)
  PROVE  OnlyOwnHeld' /\ StoreUntouched
<1>1. CASE StartHook(u, e)
  BY <1>1, OwnStartHook, UnchangedStore DEF StartHook, Local, StoreUntouched, authentik
<1>2. CASE FollowerHook(u, e)
  BY <1>2, OwnElsewhere DEF FollowerHook, HandleEvent, authentik, stored
<1> QED BY <1>1, <1>2 DEF Dispatch

LEMMA OwnNext ==
  ASSUME TypeOK, OnlyOwnHeld, Next
  PROVE  OnlyOwnHeld' /\ (tampers' = tampers => StoreUntouched)
<1>1. ASSUME NEW u \in Units, HookStep(u) PROVE OnlyOwnHeld' /\ StoreUntouched
  BY <1>1, OwnQuietStep, OwnCreateProvider, OwnUpdateProvider, OwnCreateApplication,
     OwnUpdateApplication, OwnDeleteApplication, OwnDeleteProvider
     DEF HookStep, Writes, Collection
<1> QED BY <1>1, OwnFaults, OwnDispatch, OwnEnvironment DEF Next

LEMMA OwnInit ==
  ASSUME Init
  PROVE  OnlyOwnHeld
<1>1. \A r \in Relations : apps[ManagedName(r)] = AppAbsent
  BY DEF Init, ManagedName, Slugs, Kinds
<1>2. \A r \in Relations : cache[r] = NoEntry BY DEF Init
<1>3. AppAbsent \notin Pks /\ NoPk \notin Pks BY DEF AppAbsent, NoPk, Pks
<1>4. NoEntry.pk = NoPk /\ NoEntry.slug = "none" BY DEF NoEntry
<1>5. late = {} /\ \A u \in Units : hook[u] = IdleHook BY DEF Init
<1> QED BY <1>1, <1>2, <1>3, <1>4, <1>5, OwnIdle DEF OnlyOwnHeld, OwnEntry, NotForeign

------------------------------------------------------------------------------

\* What the reconciler keeps in order to write to it later is never somebody
\* else's: however hooks of several units interleave, fail and are retried.
THEOREM OwnershipKept == Spec => []OnlyOwnHeld
<1>1. Init => OnlyOwnHeld BY OwnInit
<1>2. TypeOK /\ OnlyOwnHeld /\ [Next]_vars => OnlyOwnHeld'
  <2>1. ASSUME OnlyOwnHeld, UNCHANGED vars PROVE OnlyOwnHeld'
    BY <2>1, OwnElsewhere DEF vars, authentik, stored
  <2> QED BY <2>1, OwnNext
<1> QED BY <1>1, <1>2, TypeCorrect, PTL DEF Spec

\* The charm never changes or deletes what it does not own, nor takes an
\* application from it: for any number of units and relations, and any faults.
THEOREM ForeignSafe == Spec => ForeignUntouched
<1>1. TypeOK /\ OnlyOwnHeld /\ [Next]_vars =>
        [tampers' = tampers =>
           \A p \in Pks : provs[p].name = Foreign =>
             /\ provs'[p] = provs[p]
             /\ \A s \in Slugs : apps[s] = p => apps'[s] = p]_vars
  BY OwnNext DEF StoreUntouched, Untouched
<1> QED BY <1>1, TypeCorrect, OwnershipKept, PTL DEF Spec, ForeignUntouched

------------------------------------------------------------------------------
(* 2. What belongs to an active relation is not collected.  The argument      *)
(* joins names and life cycles: an entry leads to a provider named for its    *)
(* relation, and a hook holds an entry of a relation it does not synchronize  *)
(* only if that relation is on its way out, which it cannot come back from.   *)

\* The provider p, if it exists, has a name of relation r.
Named(ps, p, r) == p \in Pks => ps[p].name \in NamesOf(r) \cup {NoName}

\* An event of Juju for a relation is one that removes it.
Ending(rl, e) == e \in Relations => rl[e] \in {"dying", "gone"}

\* What a hook synchronizes is active, what it collects is not.
Scoped(h) ==
  /\ h.todo \subseteq h.active
  /\ h.pc \in SyncCalls => h.cur \in h.active
  /\ h.pc \in {"gcApp", "gcProv"} => h.cur \notin h.active /\ h.pk = h.cache[h.cur].pk

\* An entry the hook may collect is not of a relation that may still be used.
Settled(rl, h) ==
  /\ \A r \in Relations \ h.active : rl[r] \in {"none", "active"} => h.cache[r] = NoEntry
  /\ \A r \in h.active : rl[r] # "none"
  /\ Ending(rl, h.event)

TrackedHook(ps, rl, h) ==
  h.pc # "idle" =>
    /\ \A r \in Relations : Named(ps, h.cache[r].pk, r)
    /\ h.pc \in SyncCalls \ {"validate"} => Named(ps, h.pk, h.cur)
    /\ Scoped(h) /\ Settled(rl, h)

Tracked ==
  /\ \A r \in Relations : Named(provs, cache[r].pk, r) /\ (rel[r] = "none" => cache[r] = NoEntry)
  /\ \A u \in Units : \A e \in left[u] \cup failed[u] : Ending(rel, e)
  /\ \A u \in Units : TrackedHook(provs, rel, hook[u])

------------------------------------------------------------------------------
(* What a step of a hook has to show.                                        *)

\* The providers somebody keeps the key of.
Held(p) ==
  \/ \E r \in Relations : p = cache[r].pk
  \/ \E u \in Units : p = hook[u].pk \/ \E r \in Relations : p = hook[u].cache[r].pk

\* No provider that somebody keeps is given another relation's name.
Renamed(ps) == \A p, r : Held(p) /\ Named(provs, p, r) => Named(ps, p, r)

LEMMA RenamedNot == Renamed(provs) BY DEF Renamed

LEMMA TrackedKept ==
  ASSUME NEW u \in Units, NEW ps, Renamed(ps), NEW rl, TrackedHook(provs, rl, hook[u])
  PROVE  TrackedHook(ps, rl, hook[u])
<1>1. Held(hook[u].pk) /\ \A r \in Relations : Held(hook[u].cache[r].pk) BY DEF Held
<1> QED BY <1>1 DEF TrackedHook, Renamed

LEMMA TrackedStep ==
  ASSUME TypeOK, Tracked, NEW u \in Units, NEW h, Continue(u, h),
         UNCHANGED <<cache, rel, left, failed>>, Renamed(provs'), TrackedHook(provs', rel, h)
  PROVE  Tracked'
<1>1. \A r \in Relations : Named(provs', cache[r].pk, r) BY DEF Tracked, Renamed, Held
<1>2. ASSUME NEW v \in Units PROVE TrackedHook(provs', rel, hook'[v])
  <2>1. CASE v = u BY <2>1 DEF Continue, TypeOK
  <2>2. CASE v # u
    <3>1. hook'[v] = hook[v] BY <2>2 DEF Continue, TypeOK
    <3> QED BY <3>1, TrackedKept DEF Tracked
  <2> QED BY <2>1, <2>2
<1>3. \A v \in Units : TrackedHook(provs', rel', hook'[v]) BY <1>2
<1>4. \A r \in Relations : rel'[r] = "none" => cache'[r] = NoEntry BY DEF Tracked
<1>5. \A v \in Units : \A e \in left'[v] \cup failed'[v] : Ending(rel', e)
  BY DEF Tracked
<1>6. \A r \in Relations : Named(provs', cache'[r].pk, r) BY <1>1
<1> QED BY <1>3, <1>4, <1>5, <1>6 DEF Tracked

\* A step that writes no provider.
LEMMA TrackedLocal ==
  ASSUME TypeOK, Tracked, NEW u \in Units, NEW h, Continue(u, h),
         UNCHANGED <<provs, cache, rel, left, failed>>, TrackedHook(provs, rel, h)
  PROVE  Tracked'
<1>1. Renamed(provs') /\ TrackedHook(provs', rel, h) BY RenamedNot
<1> QED BY <1>1, TrackedStep

\* The relations move on with their life cycle, and nothing else happens.
Onward ==
  \A r \in Relations : /\ rel[r] # "none" => rel'[r] # "none"
                       /\ rel[r] \in {"dying", "gone"} => rel'[r] \in {"dying", "gone"}

LEMMA TrackedOnward ==
  ASSUME TypeOK, NEW ps, NEW h, TrackedHook(ps, rel, h), Onward,
         rel' \in [Relations -> {"none", "active", "dying", "gone"}], h.active \subseteq Relations
  PROVE  TrackedHook(ps, rel', h)
<1>1. \A r \in Relations : rel'[r] \in {"none", "active"} => rel[r] \in {"none", "active"}
  BY DEF Onward, TypeOK
<1>2. h.pc # "idle" => Settled(rel', h) BY <1>1 DEF TrackedHook, Settled, Onward, Ending
<1> QED BY <1>2 DEF TrackedHook

LEMMA TrackedElsewhere ==
  ASSUME TypeOK, Tracked, UNCHANGED <<provs, cache, hook>>, Onward,
         rel' \in [Relations -> {"none", "active", "dying", "gone"}],
         \A u \in Units : \A e \in left'[u] \cup failed'[u] :
           e \in left[u] \cup failed[u] \/ Ending(rel, e)
  PROVE  Tracked'
<1>1. \A u \in Units : hook[u].active \subseteq Relations BY DEF TypeOK, HookTypes
<1>2. \A u \in Units : TrackedHook(provs', rel', hook'[u])
  BY <1>1, TrackedOnward DEF Tracked
<1>3. \A u \in Units : \A e \in left'[u] \cup failed'[u] : Ending(rel', e)
  BY DEF Tracked, Ending, Onward
<1>4. \A r \in Relations : Named(provs', cache'[r].pk, r) /\ (rel'[r] = "none" => cache'[r] = NoEntry)
  BY DEF Tracked, Onward
<1> QED BY <1>2, <1>3, <1>4 DEF Tracked

LEMMA TrackedIdle == ASSUME NEW ps, NEW rl PROVE TrackedHook(ps, rl, IdleHook)
<1>1. IdleHook.pc = "idle" BY DEF IdleHook
<1> QED BY <1>1 DEF TrackedHook

\* A hook that goes on with the same cache.
LEMMA TrackedSame ==
  ASSUME NEW ps, NEW rl, NEW h, TrackedHook(ps, rl, h), h.pc # "idle",
         NEW g, g.cache = h.cache, g.active = h.active, g.event = h.event, Scoped(g),
         g.pc \in SyncCalls \ {"validate"} => Named(ps, g.pk, g.cur)
  PROVE  TrackedHook(ps, rl, g)
BY DEF TrackedHook, Settled

\* A hook that goes on with another entry for the relation it is at.
LEMMA TrackedEntry ==
  ASSUME NEW ps, NEW rl, NEW h, TrackedHook(ps, rl, h), h.pc # "idle",
         h.cache \in [Relations -> Entries \cup {NoEntry}],
         NEW e, NEW g, g.cache = [h.cache EXCEPT ![h.cur] = e],
         g.active = h.active, g.event = h.event, Scoped(g),
         Named(ps, e.pk, h.cur),
         h.cur \in h.active \/ rl[h.cur] \notin {"none", "active"},
         g.pc \in SyncCalls \ {"validate"} => Named(ps, g.pk, g.cur)
  PROVE  TrackedHook(ps, rl, g)
<1>1. \A r \in Relations : g.cache[r] = IF r = h.cur THEN e ELSE h.cache[r] OBVIOUS
<1>2. Settled(rl, g) BY <1>1 DEF TrackedHook, Settled
<1>3. \A r \in Relations : Named(ps, g.cache[r].pk, r)
  <2> TAKE r \in Relations
  <2>1. CASE r = h.cur BY <1>1, <2>1
  <2>2. CASE r # h.cur BY <1>1, <2>2 DEF TrackedHook
  <2> QED BY <2>1, <2>2
<1> QED BY <1>2, <1>3 DEF TrackedHook

LEMMA TrackedEvent ==
  ASSUME TypeOK, Tracked, NEW u \in Units, hook[u].pc # "idle"
  PROVE  Ending(rel, hook[u].event)
BY DEF Tracked, TrackedHook, Settled

LEMMA TrackedFailed ==
  ASSUME TypeOK, Tracked, NEW u \in Units, hook[u].pc # "idle", HookFailed(u), UNCHANGED provs
  PROVE  Tracked'
<1>1. UNCHANGED <<cache, rel, left>> BY DEF HookFailed, stored, model
<1>2. Continue(u, IdleHook) /\ failed' = [failed EXCEPT ![u] = {hook[u].event}] BY DEF HookFailed
<1>3. \A v \in Units : \A e \in left'[v] \cup failed'[v] : Ending(rel', e)
  <2> SUFFICES ASSUME NEW v \in Units, NEW e \in left[v] \cup failed'[v] PROVE Ending(rel, e)
    BY <1>1
  <2>1. CASE v = u /\ e \in failed'[v]
    <3>1. e = hook[u].event BY <1>2, <2>1 DEF TypeOK
    <3> QED BY <3>1, TrackedEvent
  <2>2. CASE ~(v = u /\ e \in failed'[v])
    <3>1. e \in left[v] \cup failed[v] BY <1>2, <2>2 DEF TypeOK
    <3> QED BY <3>1 DEF Tracked
  <2> QED BY <2>1, <2>2
<1>4. ASSUME NEW v \in Units PROVE TrackedHook(provs, rel, hook'[v])
  <2>1. CASE v = u BY <1>2, <2>1, TrackedIdle DEF Continue, TypeOK
  <2>2. CASE v # u BY <1>2, <2>2 DEF Continue, TypeOK, Tracked
  <2> QED BY <2>1, <2>2
<1>5. \A v \in Units : TrackedHook(provs', rel', hook'[v]) BY <1>1, <1>4
<1>6. \A r \in Relations : Named(provs', cache'[r].pk, r) /\ (rel'[r] = "none" => cache'[r] = NoEntry)
  BY <1>1 DEF Tracked
<1> QED BY <1>3, <1>5, <1>6 DEF Tracked

\* The hook of a unit that is running one.
LEMMA TrackedRunning ==
  ASSUME TypeOK, Tracked, NEW u \in Units, hook[u].pc # "idle"
  PROVE  /\ hook[u] \in HookTypes /\ TrackedHook(provs, rel, hook[u])
         /\ Scoped(hook[u]) /\ Settled(rel, hook[u])
         /\ \A r \in Relations : Named(provs, hook[u].cache[r].pk, r)
BY HookWellFormed DEF WellFormed, Tracked, TrackedHook

\* Of a unit that makes a call to synchronize a relation.
LEMMA TrackedCaller ==
  ASSUME TypeOK, Tracked, NEW u \in Units, hook[u].pc \in SyncCalls
  PROVE  /\ hook[u] \in HookTypes /\ hook[u].cur \in Relations /\ hook[u].slug \in Kinds
         /\ hook[u].cur \in hook[u].active /\ hook[u].todo \subseteq hook[u].active
         /\ TrackedHook(provs, rel, hook[u]) /\ hook[u].pc # "idle"
         /\ hook[u].cache \in [Relations -> Entries \cup {NoEntry}]
         /\ Named(provs, hook[u].cache[hook[u].cur].pk, hook[u].cur)
         /\ hook[u].pc # "validate" => Named(provs, hook[u].pk, hook[u].cur)
<1>1. hook[u].pc # "idle" BY DEF SyncCalls
<1>2. hook[u] \in HookTypes /\ hook[u].cur \in Relations /\ hook[u].slug \in Kinds
  BY CallingHook
<1>3. /\ TrackedHook(provs, rel, hook[u]) /\ Scoped(hook[u])
      /\ \A r \in Relations : Named(provs, hook[u].cache[r].pk, r)
  BY <1>1, TrackedRunning
<1>4. hook[u].cache \in [Relations -> Entries \cup {NoEntry}] BY <1>2 DEF HookTypes
<1> QED BY <1>1, <1>2, <1>3, <1>4 DEF Scoped, TrackedHook

\* A hook that goes on with its cache, and touches nothing else.
LEMMA TrackedMoved ==
  ASSUME TypeOK, Tracked, NEW u \in Units, hook[u].pc # "idle",
         NEW g, Continue(u, g), Local, g.cache = hook[u].cache, g.active = hook[u].active,
         g.event = hook[u].event, Scoped(g),
         g.pc \in SyncCalls \ {"validate"} => Named(provs, g.pk, g.cur)
  PROVE  Tracked'
<1>1. TrackedHook(provs, rel, g) BY TrackedRunning, TrackedSame
<1> QED BY <1>1, TrackedLocal DEF Local, authentik, stored, model

LEMMA TrackedCaught ==
  ASSUME TypeOK, Tracked, NEW u \in Units, hook[u].pc # "idle",
         Caught(u) \/ CaughtStaleFlow(u), UNCHANGED <<authentik, stored, model, failed>>
  PROVE  Tracked'
<1> DEFINE h == hook[u]
           a == [h EXCEPT !.pc = "commit"]
           b == [h EXCEPT !.pc = "commit", !.flow = IdleHook.flow]
<1>1. h \in HookTypes /\ TrackedHook(provs, rel, h) /\ Scoped(h) BY TrackedRunning
<1>2. PICK g : /\ Continue(u, g) /\ g.cache = h.cache /\ g.active = h.active
               /\ g.event = h.event /\ g.todo = h.todo /\ g.pc = "commit"
  <2>1. Continue(u, a) \/ Continue(u, b) BY DEF Caught, CaughtStaleFlow
  <2> HIDE DEF h
  <2>2. /\ a.cache = h.cache /\ a.active = h.active /\ a.event = h.event
        /\ a.todo = h.todo /\ a.pc = "commit"
    BY <1>1 DEF HookTypes
  <2>3. /\ b.cache = h.cache /\ b.active = h.active /\ b.event = h.event
        /\ b.todo = h.todo /\ b.pc = "commit"
    BY <1>1 DEF HookTypes
  <2> HIDE DEF a, b
  <2> QED BY <2>1, <2>2, <2>3
<1>3. Scoped(g) BY <1>1, <1>2 DEF Scoped, SyncCalls
<1>4. TrackedHook(provs, rel, g) BY <1>1, <1>2, <1>3, TrackedSame DEF SyncCalls
<1> QED BY <1>2, <1>4, TrackedLocal DEF authentik, stored, model

------------------------------------------------------------------------------
(* The steps of a hook that leave Authentik as it is.                        *)

LEMMA TrackedStartHook ==
  ASSUME TypeOK, Tracked, NEW u \in Units, NEW e \in Events, StartHook(u, e)
  PROVE  Tracked'
<1> DEFINE active == ActiveFor(u, e)
<1>1. PICK g : /\ Continue(u, g) /\ g.cache = cache /\ g.event = e
               /\ g.active = active /\ g.todo = active
               /\ g.pc \in {"gc", "flow", "next"}
  <2> DEFINE g(pc) == [IdleHook EXCEPT
                !.pc = pc,
                !.event = e, !.active = active, !.todo = active,
                !.seen = [cache |-> cache, flow |-> flowCache, bag |-> bag],
                !.cache = cache, !.flow = flowCache, !.bag = bag, !.conf = conf]
  <2>1. Continue(u, g("gc")) \/ Continue(u, g("flow")) \/ Continue(u, g("next"))
    <3>1. CASE active = {} BY <3>1 DEF StartHook
    <3>2. CASE active # {} /\ NeedsFlow(flowCache) BY <3>2 DEF StartHook
    <3>3. CASE active # {} /\ ~NeedsFlow(flowCache) BY <3>3 DEF StartHook
    <3> QED BY <3>1, <3>2, <3>3
  <2>2. \A pc : /\ g(pc).cache = cache /\ g(pc).event = e /\ g(pc).active = active
                /\ g(pc).todo = active /\ g(pc).pc = pc
    <3> HIDE DEF active
    <3> QED BY DEF IdleHook
  <2> HIDE DEF g, active
  <2> QED BY <2>1, <2>2
<1>2. Scoped(g) BY <1>1 DEF Scoped, SyncCalls
<1>3. Ending(rel, e) BY DEF StartHook, MayDispatch, Ending
<1>4. ASSUME NEW r \in Relations \ active, rel[r] \in {"none", "active"} PROVE cache[r] = NoEntry
  <2>1. CASE rel[r] = "none" BY <2>1 DEF Tracked
  <2>2. CASE rel[r] = "active"
    <3>1. r \in left[u] \/ r = e BY <2>2 DEF ActiveFor
    <3> QED BY <1>3, <2>2, <3>1 DEF Tracked, Ending
  <2> QED BY <1>4, <2>1, <2>2
<1>5. \A r \in active : rel[r] # "none" BY DEF ActiveFor
<1> HIDE DEF active
<1>6. Settled(rel, g) BY <1>1, <1>3, <1>4, <1>5 DEF Settled
<1>7. TrackedHook(provs, rel, g) BY <1>1, <1>2, <1>6 DEF TrackedHook, Tracked, SyncCalls
<1> QED BY <1>1, <1>7, TrackedLocal DEF StartHook, Local, authentik, stored, model

LEMMA TrackedResolveFlow ==
  ASSUME TypeOK, Tracked, NEW u \in Units, ResolveFlow(u)
  PROVE  Tracked'
<1> DEFINE h == hook[u]
<1>1. PICK f, pc : pc \in {"flow", "next"} /\ Continue(u, [h EXCEPT !.flow = f, !.pc = pc])
  <2> DEFINE k == IF h.flow["auth"] = NoFlow THEN "auth" ELSE "inval"
             f == [h.flow EXCEPT ![k] = flows[k]]
  <2>1. CASE NeedsFlow(f)
    <3>1. Continue(u, [h EXCEPT !.flow = f, !.pc = "flow"]) BY <2>1 DEF ResolveFlow
    <3> HIDE DEF f, h
    <3> QED BY <3>1
  <2>2. CASE ~NeedsFlow(f)
    <3>1. Continue(u, [h EXCEPT !.flow = f, !.pc = "next"]) BY <2>2 DEF ResolveFlow
    <3> HIDE DEF f, h
    <3> QED BY <3>1
  <2> QED BY <2>1, <2>2
<1>2. h.pc # "idle" BY DEF ResolveFlow, At
<1>3. h \in HookTypes /\ Scoped(h) BY <1>2, TrackedRunning
<1> DEFINE g == [h EXCEPT !.flow = f, !.pc = pc]
<1>4. g.cache = h.cache /\ g.active = h.active /\ g.event = h.event /\ g.todo = h.todo /\ g.pc = pc
  <2> HIDE DEF h
  <2> QED BY <1>3 DEF HookTypes
<1> HIDE DEF g
<1>5. Scoped(g) BY <1>1, <1>3, <1>4 DEF Scoped, SyncCalls
<1> QED BY <1>1, <1>2, <1>4, <1>5, TrackedMoved DEF ResolveFlow, SyncCalls, g

LEMMA TrackedToGarbage ==
  ASSUME TypeOK, Tracked, NEW u \in Units, ToGarbage(u)
  PROVE  Tracked'
<1> DEFINE h == hook[u]
           g == [h EXCEPT !.pc = "gc"]
<1>1. h.pc # "idle" BY DEF ToGarbage, At
<1>2. h \in HookTypes /\ Scoped(h) BY <1>1, TrackedRunning
<1>3. g.cache = h.cache /\ g.active = h.active /\ g.event = h.event /\ g.todo = h.todo /\ g.pc = "gc"
  <2> HIDE DEF h
  <2> QED BY <1>2 DEF HookTypes
<1>4. Continue(u, g) /\ Local BY DEF ToGarbage
<1> HIDE DEF g
<1>5. Scoped(g) BY <1>2, <1>3 DEF Scoped, SyncCalls
<1> QED BY <1>1, <1>3, <1>4, <1>5, TrackedMoved DEF SyncCalls

LEMMA TrackedSkipRelation ==
  ASSUME TypeOK, Tracked, NEW u \in Units, SkipRelation(u)
  PROVE  Tracked'
<1>1. PICK r \in Relations :
        /\ TakesTurn(u, r)
        /\ Continue(u, [Published(hook[u], r) EXCEPT !.todo = @ \ {r}])
        /\ Local
  BY DEF SkipRelation
<1> DEFINE h == hook[u]
           p == Published(h, r)
           g == [p EXCEPT !.todo = p.todo \ {r}]
<1>2. h.pc = "next" BY <1>1 DEF TakesTurn, At
<1>3. h \in HookTypes /\ Scoped(h) BY <1>2, TrackedRunning
<1>4. p \in HookTypes /\ p = [h EXCEPT !.bag = p.bag] BY HookWellFormed, PublishedTypes
<1>5. /\ g.cache = h.cache /\ g.active = h.active /\ g.event = h.event
      /\ g.todo = h.todo \ {r} /\ g.pc = "next"
  <2> HIDE DEF h, p
  <2> QED BY <1>2, <1>3, <1>4 DEF HookTypes
<1>6. Continue(u, g) BY <1>1
<1> HIDE DEF g
<1>7. Scoped(g) BY <1>3, <1>5 DEF Scoped, SyncCalls
<1> QED BY <1>1, <1>2, <1>5, <1>6, <1>7, TrackedMoved DEF SyncCalls

LEMMA TrackedBeginRelation ==
  ASSUME TypeOK, Tracked, NEW u \in Units, BeginRelation(u)
  PROVE  Tracked'
<1>1. PICK r \in Relations :
        LET h == Published(hook[u], r)
            begun == [h EXCEPT !.pc = "mappings", !.cur = r, !.pk = h.cache[r].pk,
                               !.slug = CachedSlug(h, r)]
        IN /\ TakesTurn(u, r)
           /\ \E c : Continue(u, [begun EXCEPT !.creds = c])
           /\ Local
  BY DEF BeginRelation
<1> DEFINE h == hook[u]
           p == Published(h, r)
           s == CachedSlug(p, r)
           k == p.cache[r].pk
           begun == [p EXCEPT !.pc = "mappings", !.cur = r, !.pk = k, !.slug = s]
<1>2. h.pc = "next" /\ r \in h.todo BY <1>1 DEF TakesTurn, At, Least
<1>3. h \in HookTypes /\ Scoped(h) /\ Named(provs, h.cache[r].pk, r) BY <1>2, TrackedRunning
<1>4. p \in HookTypes /\ p = [h EXCEPT !.bag = p.bag] BY HookWellFormed, PublishedTypes
<1>5. PICK c : Continue(u, [begun EXCEPT !.creds = c]) BY <1>1
<1> DEFINE g == [begun EXCEPT !.creds = c]
<1>6. /\ g.cache = h.cache /\ g.active = h.active /\ g.event = h.event /\ g.todo = h.todo
      /\ g.pc = "mappings" /\ g.cur = r /\ g.pk = h.cache[r].pk
  <2>1. p.cache = h.cache /\ p.active = h.active /\ p.event = h.event /\ p.todo = h.todo
    <3> HIDE DEF h, p
    <3> QED BY <1>3, <1>4 DEF HookTypes
  <2> HIDE DEF h, s, p
  <2>2. /\ g.cache = p.cache /\ g.active = p.active /\ g.event = p.event /\ g.todo = p.todo
        /\ g.pc = "mappings" /\ g.cur = r /\ g.pk = k
    <3> HIDE DEF k
    <3> QED BY <1>4 DEF HookTypes
  <2> QED BY <2>1, <2>2
<1>7. Continue(u, g) BY <1>5
<1> HIDE DEF g
<1>8. Scoped(g) BY <1>2, <1>3, <1>6 DEF Scoped
<1>9. Named(provs, g.pk, g.cur) BY <1>3, <1>6
<1> QED BY <1>1, <1>2, <1>6, <1>7, <1>8, <1>9, TrackedMoved

LEMMA TrackedResolveMappings ==
  ASSUME TypeOK, Tracked, NEW u \in Units, ResolveMappings(u)
  PROVE  Tracked'
<1> DEFINE h == hook[u]
           g(pc) == [h EXCEPT !.mapped = TRUE, !.pc = pc]
<1>1. h.pc = "mappings" BY DEF ResolveMappings, At
<1>2. /\ h \in HookTypes /\ h.cur \in h.active /\ h.todo \subseteq h.active
      /\ Named(provs, h.pk, h.cur) /\ h.pc # "idle"
  BY <1>1, TrackedCaller DEF SyncCalls
<1>3. \A pc : /\ g(pc).cache = h.cache /\ g(pc).active = h.active /\ g(pc).event = h.event
              /\ g(pc).todo = h.todo /\ g(pc).cur = h.cur /\ g(pc).pk = h.pk /\ g(pc).pc = pc
  <2> HIDE DEF h
  <2> QED BY <1>2 DEF HookTypes
<1>4. \/ CaughtStaleFlow(u)
      \/ Continue(u, g("cachedApp"))
      \/ Continue(u, g("managedApp"))
  BY DEF ResolveMappings
<1>5. Local BY DEF ResolveMappings
<1> HIDE DEF g
<1>6. ASSUME NEW pc \in {"cachedApp", "managedApp"}, Continue(u, g(pc)) PROVE Tracked'
  <2>1. Scoped(g(pc)) BY <1>2, <1>3 DEF Scoped
  <2>2. Named(provs, g(pc).pk, g(pc).cur) BY <1>2, <1>3
  <2> QED BY <1>2, <1>3, <1>5, <1>6, <2>1, <2>2, TrackedMoved
<1>7. CASE CaughtStaleFlow(u) BY <1>2, <1>5, <1>7, TrackedCaught DEF Local
<1> QED BY <1>4, <1>6, <1>7

LEMMA TrackedGetCachedApplication ==
  ASSUME TypeOK, Tracked, NEW u \in Units, GetCachedApplication(u)
  PROVE  Tracked'
<1> DEFINE h == hook[u]
           g(app) == [h EXCEPT !.app = app, !.pc = "cachedProv"]
<1>1. h.pc = "cachedApp" BY DEF GetCachedApplication, At
<1>2. /\ h \in HookTypes /\ h.cur \in h.active /\ h.todo \subseteq h.active
      /\ Named(provs, h.pk, h.cur) /\ h.pc # "idle"
  BY <1>1, TrackedCaller DEF SyncCalls
<1>3. \A app : /\ g(app).cache = h.cache /\ g(app).active = h.active
               /\ g(app).event = h.event /\ g(app).todo = h.todo
               /\ g(app).cur = h.cur /\ g(app).pk = h.pk /\ g(app).pc = "cachedProv"
  <2> HIDE DEF h
  <2> QED BY <1>2 DEF HookTypes
<1>4. \/ \E app : Continue(u, g(app)) /\ Local
      \/ Caught(u) /\ Local
      \/ HookFailed(u) /\ UNCHANGED authentik
  BY DEF GetCachedApplication
<1> HIDE DEF g
<1>5. ASSUME NEW app, Continue(u, g(app)), Local PROVE Tracked'
  <2>1. Scoped(g(app)) BY <1>2, <1>3 DEF Scoped
  <2>2. Named(provs, g(app).pk, g(app).cur) BY <1>2, <1>3
  <2> QED BY <1>2, <1>3, <1>5, <2>1, <2>2, TrackedMoved
<1>6. ASSUME Caught(u), Local PROVE Tracked' BY <1>2, <1>6, TrackedCaught DEF Local
<1>7. ASSUME HookFailed(u), UNCHANGED authentik PROVE Tracked'
  BY <1>2, <1>7, TrackedFailed DEF authentik
<1> QED BY <1>4, <1>5, <1>6, <1>7

LEMMA TrackedGetCachedProvider ==
  ASSUME TypeOK, Tracked, NEW u \in Units, GetCachedProvider(u)
  PROVE  Tracked'
<1> DEFINE h == hook[u]
           update == [h EXCEPT !.pc = "update"]
           c == [h.cache EXCEPT ![h.cur] = NoEntry]
           again == [h EXCEPT !.cache = c, !.pc = "managedApp",
                              !.pk = NoPk, !.slug = "managed", !.app = FALSE]
<1>1. h.pc = "cachedProv" BY DEF GetCachedProvider, At
<1>2. /\ h \in HookTypes /\ h.cur \in h.active /\ h.todo \subseteq h.active
      /\ Named(provs, h.pk, h.cur) /\ h.pc # "idle" /\ TrackedHook(provs, rel, h)
      /\ h.cache \in [Relations -> Entries \cup {NoEntry}]
  BY <1>1, TrackedCaller DEF SyncCalls
<1>3. /\ update.cache = h.cache /\ update.active = h.active /\ update.event = h.event
      /\ update.todo = h.todo /\ update.cur = h.cur /\ update.pk = h.pk /\ update.pc = "update"
  <2> HIDE DEF h
  <2> QED BY <1>2 DEF HookTypes
<1>4. /\ again.cache = c /\ again.active = h.active /\ again.event = h.event
      /\ again.todo = h.todo /\ again.cur = h.cur /\ again.pc = "managedApp" /\ again.pk = NoPk
  <2> HIDE DEF h, c
  <2> QED BY <1>2 DEF HookTypes
<1>5. Local /\ (Continue(u, update) \/ Continue(u, again)) BY DEF GetCachedProvider
<1> HIDE DEF update, again
<1>6. CASE Continue(u, update)
  <2>1. Scoped(update) BY <1>2, <1>3 DEF Scoped
  <2>2. Named(provs, update.pk, update.cur) BY <1>2, <1>3
  <2> QED BY <1>2, <1>3, <1>5, <1>6, <2>1, <2>2, TrackedMoved
<1>7. CASE Continue(u, again)
  <2>1. Scoped(again) BY <1>2, <1>4 DEF Scoped
  <2>2. Named(provs, NoPk, h.cur) /\ NoEntry.pk = NoPk BY DEF Named, NoPk, Pks, NoEntry
  <2> HIDE DEF h
  <2>3. TrackedHook(provs, rel, again) BY <1>2, <1>4, <2>1, <2>2, TrackedEntry
  <2> QED BY <1>5, <1>7, <2>3, TrackedLocal DEF Local, authentik, stored, model, h
<1> QED BY <1>5, <1>6, <1>7

LEMMA TrackedGetApplication ==
  ASSUME TypeOK, Tracked, NEW u \in Units, NEW pc \in SyncCalls \ {"validate"},
         NEW kind \in Kinds, NEW otherwise \in SyncCalls,
         GetApplication(u, pc, kind, otherwise)
  PROVE  Tracked'
<1> DEFINE h == hook[u]
           a == apps[<<kind, h.cur>>]
           absent == [h EXCEPT !.pc = otherwise, !.slug = "managed"]
           found == [h EXCEPT !.pc = "validate", !.slug = kind, !.pk = a]
<1>1. h.pc = pc BY DEF GetApplication, At
<1>2. /\ h \in HookTypes /\ h.cur \in h.active /\ h.todo \subseteq h.active
      /\ Named(provs, h.pk, h.cur) /\ h.pc # "idle"
  BY <1>1, TrackedCaller DEF SyncCalls
<1>3. /\ absent.cache = h.cache /\ absent.active = h.active /\ absent.event = h.event
      /\ absent.todo = h.todo /\ absent.cur = h.cur /\ absent.pk = h.pk
      /\ absent.pc = otherwise
  <2> HIDE DEF h
  <2> QED BY <1>2 DEF HookTypes
<1>4. /\ found.cache = h.cache /\ found.active = h.active /\ found.event = h.event
      /\ found.todo = h.todo /\ found.cur = h.cur /\ found.pc = "validate"
  <2> HIDE DEF h, a
  <2> QED BY <1>2 DEF HookTypes
<1>5. Local /\ (Continue(u, absent) \/ Caught(u) \/ Continue(u, found)) BY DEF GetApplication
<1> HIDE DEF absent, found
<1>6. CASE Continue(u, absent)
  <2>1. Scoped(absent) BY <1>2, <1>3 DEF Scoped, SyncCalls
  <2>2. Named(provs, absent.pk, absent.cur) BY <1>2, <1>3
  <2> QED BY <1>2, <1>3, <1>5, <1>6, <2>1, <2>2, TrackedMoved
<1>7. CASE Continue(u, found)
  <2>1. Scoped(found) BY <1>2, <1>4 DEF Scoped
  <2> QED BY <1>2, <1>4, <1>5, <1>7, <2>1, TrackedMoved
<1>8. CASE Caught(u) BY <1>2, <1>5, <1>8, TrackedCaught DEF Local
<1> QED BY <1>5, <1>6, <1>7, <1>8

\* A hook that records the provider it holds and goes on to its next call.
LEMMA TrackedPersisted ==
  ASSUME TypeOK, Tracked, NEW u \in Units, hook[u].pc \in SyncCalls,
         NEW g, g \in HookTypes, g.cache = hook[u].cache, g.active = hook[u].active,
         g.event = hook[u].event, g.todo = hook[u].todo, g.cur = hook[u].cur,
         g.pc \in {"update", "createApp"},
         NEW ps, Renamed(ps), Named(ps, g.pk, g.cur)
  PROVE  TrackedHook(ps, rel, Persisted(g))
<1> DEFINE e == [pk |-> g.pk, slug |-> g.slug, hash |-> NoHash]
           c == [g.cache EXCEPT ![g.cur] = e]
           f == [g EXCEPT !.cache = c]
<1>1. Persisted(g) = f BY DEF Persisted
<1>2. /\ hook[u].cur \in hook[u].active /\ hook[u].todo \subseteq hook[u].active
      /\ TrackedHook(provs, rel, hook[u]) /\ hook[u].pc # "idle"
      /\ hook[u].cache \in [Relations -> Entries \cup {NoEntry}]
  BY TrackedCaller
<1>3. TrackedHook(ps, rel, hook[u]) BY <1>2, TrackedKept
<1>4. /\ f.cache = c /\ f.active = g.active /\ f.event = g.event /\ f.todo = g.todo
      /\ f.cur = g.cur /\ f.pc = g.pc /\ f.pk = g.pk
  <2> HIDE DEF c
  <2> QED BY DEF HookTypes
<1>5. c = [hook[u].cache EXCEPT ![hook[u].cur] = e] OBVIOUS
<1>6. Named(ps, e.pk, hook[u].cur) OBVIOUS
<1> HIDE DEF f, c, e
<1>7. Scoped(f) BY <1>2, <1>4 DEF Scoped, SyncCalls
<1>8. Named(ps, f.pk, f.cur) BY <1>4
<1>9. /\ f.cache = [hook[u].cache EXCEPT ![hook[u].cur] = e]
      /\ f.active = hook[u].active /\ f.event = hook[u].event
  BY <1>4, <1>5
<1>10. TrackedHook(ps, rel, f) BY <1>2, <1>3, <1>6, <1>7, <1>8, <1>9, TrackedEntry
<1> QED BY <1>1, <1>10

LEMMA TrackedValidateProvider ==
  ASSUME TypeOK, Tracked, NEW u \in Units, ValidateProvider(u)
  PROVE  Tracked'
<1> DEFINE h == hook[u]
           g == [h EXCEPT !.pc = "update", !.app = TRUE]
<1>1. h.pc = "validate" BY DEF ValidateProvider, At
<1>2. h \in HookTypes /\ h.slug \in Kinds /\ h.pc # "idle"
  BY <1>1, TrackedCaller DEF SyncCalls
<1>3. /\ g \in HookTypes /\ g.cache = h.cache /\ g.active = h.active /\ g.event = h.event
      /\ g.todo = h.todo /\ g.cur = h.cur /\ g.slug = h.slug /\ g.pk = h.pk /\ g.pc = "update"
  <2> HIDE DEF h
  <2> QED BY <1>2 DEF HookTypes, Positions, Calls, SyncCalls
<1>4. Local BY DEF ValidateProvider
<1>5. \/ Caught(u)
      \/ provs[h.pk].name \in ExpectedNames(h) /\ Continue(u, Persisted(g))
  BY DEF ValidateProvider
<1> HIDE DEF g
<1>6. CASE Caught(u) BY <1>2, <1>4, <1>6, TrackedCaught DEF Local
<1>7. CASE provs[h.pk].name \in ExpectedNames(h) /\ Continue(u, Persisted(g))
  <2>1. Named(provs, g.pk, g.cur) BY <1>3, <1>7 DEF Named, NamesOf, ExpectedNames
  <2>2. TrackedHook(provs, rel, Persisted(g))
    BY <1>1, <1>3, <2>1, RenamedNot, TrackedPersisted DEF SyncCalls
  <2> QED BY <1>4, <1>7, <2>2, TrackedLocal DEF Local, authentik, stored, model
<1> QED BY <1>5, <1>6, <1>7

LEMMA TrackedFindProvider ==
  ASSUME TypeOK, Tracked, NEW u \in Units, FindProvider(u)
  PROVE  Tracked'
<1> DEFINE h == hook[u]
           none == [h EXCEPT !.pc = "create", !.pk = NoPk]
           g(p) == [h EXCEPT !.pc = "update", !.pk = p]
<1>1. h.pc = "find" BY DEF FindProvider, At
<1>2. /\ h \in HookTypes /\ h.cur \in h.active /\ h.todo \subseteq h.active
      /\ h.pc # "idle"
  BY <1>1, TrackedCaller DEF SyncCalls
<1>3. /\ none.cache = h.cache /\ none.active = h.active /\ none.event = h.event
      /\ none.todo = h.todo /\ none.cur = h.cur /\ none.pc = "create" /\ none.pk = NoPk
  <2> HIDE DEF h
  <2> QED BY <1>2 DEF HookTypes
<1>4. \A p \in Pks : /\ g(p) \in HookTypes /\ g(p).cache = h.cache /\ g(p).active = h.active
                     /\ g(p).event = h.event /\ g(p).todo = h.todo /\ g(p).cur = h.cur
                     /\ g(p).pk = p /\ g(p).pc = "update"
  <2> HIDE DEF h
  <2> QED BY <1>2 DEF HookTypes, Positions, Calls, SyncCalls
<1>5. \/ Continue(u, none)
      \/ \E p \in PksNamed(provs, ManagedName(h.cur)) : Continue(u, Persisted(g(p)))
  BY DEF FindProvider
<1>6. Local BY DEF FindProvider
<1> HIDE DEF none, g
<1>7. CASE Continue(u, none)
  <2>1. Scoped(none) BY <1>2, <1>3 DEF Scoped
  <2>2. Named(provs, none.pk, none.cur) BY <1>3 DEF Named, NoPk, Pks
  <2> QED BY <1>2, <1>3, <1>6, <1>7, <2>1, <2>2, TrackedMoved
<1>8. ASSUME NEW p \in PksNamed(provs, ManagedName(h.cur)), Continue(u, Persisted(g(p)))
      PROVE  Tracked'
  <2>1. p \in Pks /\ Named(provs, g(p).pk, g(p).cur)
    BY <1>4 DEF PksNamed, Named, NamesOf
  <2>2. TrackedHook(provs, rel, Persisted(g(p)))
    BY <1>1, <1>4, <2>1, RenamedNot, TrackedPersisted DEF SyncCalls
  <2> QED BY <1>6, <1>8, <2>2, TrackedLocal DEF Local, authentik, stored, model
<1> QED BY <1>5, <1>7, <1>8

\* A hook whose create has no answer, or a conflict for an answer.
LEMMA TrackedRecovering ==
  ASSUME TypeOK, Tracked, NEW u \in Units, hook[u].pc = "create",
         NEW lost, NEW g, g = [hook[u] EXCEPT !.pc = "recover", !.lost = lost]
  PROVE  TrackedHook(provs, rel, g)
<1> DEFINE h == hook[u]
<1>1. /\ h \in HookTypes /\ h.cur \in h.active /\ h.todo \subseteq h.active
      /\ Named(provs, h.pk, h.cur) /\ h.pc # "idle" /\ TrackedHook(provs, rel, h)
  BY TrackedCaller DEF SyncCalls
<1>2. /\ g.cache = h.cache /\ g.active = h.active /\ g.event = h.event
      /\ g.todo = h.todo /\ g.cur = h.cur /\ g.pc = "recover" /\ g.pk = h.pk
  BY <1>1 DEF HookTypes
<1>3. Scoped(g) BY <1>1, <1>2 DEF Scoped
<1>4. Named(provs, g.pk, g.cur) BY <1>1, <1>2
<1> QED BY <1>1, <1>2, <1>3, <1>4, TrackedSame

LEMMA TrackedCreateProviderConflict ==
  ASSUME TypeOK, Tracked, NEW u \in Units, CreateProviderConflict(u)
  PROVE  Tracked'
<1> DEFINE h == hook[u]
           g == [h EXCEPT !.pc = "recover"]
<1>1. h.pc = "create" /\ h \in HookTypes
  BY HookWellFormed DEF CreateProviderConflict, At, WellFormed
<1>2. g = [h EXCEPT !.pc = "recover", !.lost = h.lost]
  <2> HIDE DEF h
  <2> QED BY <1>1 DEF HookTypes
<1>3. TrackedHook(provs, rel, g) BY <1>1, <1>2, TrackedRecovering
<1> QED BY <1>3, TrackedLocal DEF CreateProviderConflict, Local, authentik, stored, model

\* What a unit goes on with once its provider is created, or found created.
LEMMA TrackedAfterCreate ==
  ASSUME TypeOK, Tracked, NEW u \in Units, hook[u].pc \in {"create", "recover"}, NEW p \in Pks,
         NEW ps, Renamed(ps), ps[p].name = ManagedName(hook[u].cur)
  PROVE  TrackedHook(ps, rel, AfterCreate(hook[u], p))
<1> DEFINE h == hook[u]
           g == [h EXCEPT !.pc = "createApp", !.pk = p, !.made = TRUE]
<1>1. h \in HookTypes /\ h.slug \in Kinds BY TrackedCaller DEF SyncCalls
<1>2. AfterCreate(h, p) = Persisted(g) BY DEF AfterCreate
<1>3. /\ g \in HookTypes /\ g.cache = h.cache /\ g.active = h.active /\ g.event = h.event
      /\ g.todo = h.todo /\ g.cur = h.cur /\ g.pk = p /\ g.pc = "createApp"
  <2> HIDE DEF h
  <2> QED BY <1>1 DEF HookTypes, Positions, Calls, SyncCalls
<1> HIDE DEF g
<1>4. Named(ps, g.pk, g.cur) BY <1>3 DEF Named, NamesOf
<1> QED BY <1>2, <1>3, <1>4, TrackedPersisted DEF SyncCalls

LEMMA TrackedRecoverProvider ==
  ASSUME TypeOK, Tracked, NEW u \in Units, RecoverProvider(u)
  PROVE  Tracked'
<1>1. hook[u].pc = "recover" /\ hook[u].pc # "idle" BY DEF RecoverProvider, At
<1>2. ASSUME NEW p \in PksNamed(provs, ManagedName(hook[u].cur)),
             Continue(u, AfterCreate(hook[u], p)), Local
      PROVE  Tracked'
  <2>1. TrackedHook(provs, rel, AfterCreate(hook[u], p))
    BY <1>1, RenamedNot, TrackedAfterCreate DEF PksNamed
  <2> QED BY <1>2, <2>1, TrackedLocal DEF Local, authentik, stored, model
<1>3. ASSUME Caught(u), Local PROVE Tracked' BY <1>1, <1>3, TrackedCaught DEF Local
<1>4. ASSUME HookFailed(u), UNCHANGED authentik PROVE Tracked'
  BY <1>1, <1>4, TrackedFailed DEF authentik
<1> QED BY <1>2, <1>3, <1>4 DEF RecoverProvider

------------------------------------------------------------------------------
(* The steps that write to Authentik.                                        *)

\* A new key is one that nobody keeps.
LEMMA FreshRenamed ==
  ASSUME TypeOK, NEW p \in Pks, FreshPk(p), NEW rec
  PROVE  Renamed(WithProvider(provs, p, rec))
<1>1. p \notin PksInUse BY DEF FreshPk, Least
<1>2. ~Held(p) BY <1>1 DEF Held, PksInUse
<1>3. \A q \in Pks : q # p => WithProvider(provs, p, rec)[q] = provs[q]
  BY DEF WithProvider, TypeOK
<1> QED BY <1>2, <1>3 DEF Renamed, Named

LEMMA TrackedCreateProvider ==
  ASSUME TypeOK, Tracked, NEW u \in Units, CreateProvider(u)
  PROVE  Tracked'
<1> DEFINE h == hook[u]
<1>1. h.pc = "create" BY DEF CreateProvider, At
<1>2. PICK p \in Pks : /\ FreshPk(p) /\ provs' = WithProvider(provs, p, Request(h))
                       /\ Continue(u, AfterCreate(h, p))
  BY DEF CreateProvider, ProviderCreated
<1>3. provs'[p].name = ManagedName(h.cur) BY <1>2 DEF WithProvider, Request, TypeOK
<1>4. Renamed(provs') BY <1>2, FreshRenamed
<1>5. TrackedHook(provs', rel, AfterCreate(h, p)) BY <1>1, <1>3, <1>4, TrackedAfterCreate
<1> QED BY <1>2, <1>4, <1>5, TrackedStep DEF CreateProvider, stored, model

LEMMA TrackedCreateProviderLost ==
  ASSUME TypeOK, Tracked, NEW u \in Units, CreateProviderLost(u)
  PROVE  Tracked'
<1> DEFINE h == hook[u]
           g == [h EXCEPT !.pc = "recover", !.lost = TRUE]
<1>1. h.pc = "create" /\ Continue(u, g) BY DEF CreateProviderLost, At
<1>2. Renamed(provs')
  <2>1. \/ provs' = provs
        \/ \E p \in Pks : FreshPk(p) /\ provs' = WithProvider(provs, p, Request(h))
    BY DEF CreateProviderLost, ProviderCreated
  <2> HIDE DEF h
  <2> QED BY <2>1, RenamedNot, FreshRenamed
<1>3. g.pc # "idle" /\ g.pc \in SyncCalls \ {"validate"}
  <2>1. h \in HookTypes BY HookWellFormed DEF WellFormed
  <2> HIDE DEF h
  <2> QED BY <2>1 DEF HookTypes, SyncCalls
<1>4. TrackedHook(provs, rel, g) BY <1>1, TrackedRecovering
<1>5. Held(g.pk) /\ \A r \in Relations : Held(g.cache[r].pk)
  <2>1. g.pk = h.pk /\ g.cache = h.cache
    <3>1. h \in HookTypes BY HookWellFormed DEF WellFormed
    <3> HIDE DEF h
    <3> QED BY <3>1 DEF HookTypes
  <2> QED BY <2>1 DEF Held
<1> HIDE DEF g
<1>6. TrackedHook(provs', rel, g) BY <1>2, <1>4, <1>5 DEF TrackedHook, Renamed
<1> QED BY <1>1, <1>2, <1>6, TrackedStep DEF CreateProviderLost, stored, model

LEMMA TrackedLateCreate == ASSUME TypeOK, Tracked, LateCreate PROVE Tracked'
<1>1. \/ provs' = provs
      \/ \E p \in Pks, q \in late : FreshPk(p) /\ provs' = WithProvider(provs, p, q)
  BY DEF LateCreate
<1>2. Renamed(provs') BY <1>1, RenamedNot, FreshRenamed
<1>3. UNCHANGED <<cache, rel, left, failed, hook>> BY DEF LateCreate, stored, model
<1>4. \A u \in Units : TrackedHook(provs', rel', hook'[u])
  BY <1>2, <1>3, TrackedKept DEF Tracked
<1>5. \A r \in Relations : Named(provs', cache[r].pk, r) BY <1>2 DEF Tracked, Renamed, Held
<1> QED BY <1>3, <1>4, <1>5 DEF Tracked, Ending

\* A provider has the name of one relation only.
LEMMA NamedOnce ==
  ASSUME NEW ps, NEW p \in Pks, NEW r, NEW q, ps[p].name # NoName,
         Named(ps, p, r), Named(ps, p, q)
  PROVE  r = q
BY DEF Named, NamesOf, ManagedName, LegacyName

LEMMA TrackedUpdateProvider ==
  ASSUME TypeOK, Tracked, NEW u \in Units, UpdateProvider(u)
  PROVE  Tracked'
<1> DEFINE h == hook[u]
           g(pc) == [h EXCEPT !.pc = pc]
<1>1. h.pc = "update" BY DEF UpdateProvider, At
<1>2. /\ h \in HookTypes /\ h.cur \in h.active /\ h.todo \subseteq h.active
      /\ Named(provs, h.pk, h.cur) /\ h.pc # "idle" /\ TrackedHook(provs, rel, h)
  BY <1>1, TrackedCaller DEF SyncCalls
<1>3. UNCHANGED <<apps, flows, late, stored, model, failed, budgets>> BY DEF UpdateProvider
<1>4. CASE CaughtStaleFlow(u) /\ provs' = provs
  BY <1>2, <1>3, <1>4, TrackedCaught DEF authentik
<1>5. CASE ~(CaughtStaleFlow(u) /\ provs' = provs)
  <2>1. /\ ProviderExists(provs, h.pk)
        /\ provs' = WithProvider(provs, h.pk, Request(h))
        /\ Continue(u, g("updateApp")) \/ Continue(u, g("createApp"))
    BY <1>5 DEF UpdateProvider, UpdateAccepted
  <2>2. \A pc : /\ g(pc).cache = h.cache /\ g(pc).active = h.active /\ g(pc).event = h.event
                /\ g(pc).todo = h.todo /\ g(pc).cur = h.cur /\ g(pc).pk = h.pk /\ g(pc).pc = pc
    <3> HIDE DEF h
    <3> QED BY <1>2 DEF HookTypes
  <2>3. PICK f : /\ Continue(u, f) /\ f.cache = h.cache /\ f.active = h.active
                 /\ f.event = h.event /\ f.todo = h.todo /\ f.cur = h.cur /\ f.pk = h.pk
                 /\ f.pc \in {"updateApp", "createApp"}
    <3> HIDE DEF g
    <3> QED BY <2>1, <2>2
  <2>4. h.pk \in Pks /\ provs[h.pk].name # NoName
    <3>1. NoName \notin Names BY DEF NoName, Names, Kinds
    <3> HIDE DEF h
    <3> QED BY <2>1, <3>1 DEF ProviderExists, TypeOK, Providers
  <2>5. provs'[h.pk].name = ManagedName(h.cur)
    BY <2>1, <2>4 DEF WithProvider, Request, TypeOK
  <2>6. \A p \in Pks : p # h.pk => provs'[p] = provs[p]
    <3> HIDE DEF h
    <3> QED BY <2>1 DEF WithProvider, TypeOK
  <2> HIDE DEF h
  <2>7. Renamed(provs')
    <3> SUFFICES ASSUME NEW p, NEW r, Named(provs, p, r) PROVE Named(provs', p, r)
      BY DEF Renamed
    <3>1. CASE p = h.pk
      <4>1. r = h.cur BY <1>2, <2>4, <3>1, NamedOnce
      <4> QED BY <2>5, <3>1, <4>1 DEF Named, NamesOf
    <3>2. CASE p # h.pk BY <2>6, <3>2 DEF Named
    <3> QED BY <3>1, <3>2
  <2>8. TrackedHook(provs', rel, h) BY <1>2, <2>7, TrackedKept DEF h
  <2>9. Scoped(f) BY <1>2, <2>3 DEF Scoped
  <2>10. Named(provs', f.pk, f.cur) BY <2>3, <2>5 DEF Named, NamesOf
  <2>11. TrackedHook(provs', rel, f) BY <1>2, <2>3, <2>8, <2>9, <2>10, TrackedSame
  <2> QED BY <1>3, <2>3, <2>7, <2>11, TrackedStep DEF stored, model
<1> QED BY <1>4, <1>5

\* The last call of a relation has succeeded.
LEMMA TrackedSynchronized ==
  ASSUME TypeOK, Tracked, NEW u \in Units, hook[u].pc \in {"createApp", "updateApp"},
         Continue(u, Synchronized(hook[u])), UNCHANGED <<provs, stored, model, failed>>
  PROVE  Tracked'
<1> DEFINE h == hook[u]
           b == [h.bag EXCEPT ![h.cur] = [creds |-> h.creds, slug |-> h.slug]]
           e == [pk |-> h.pk, slug |-> h.slug, hash |-> HashOf(h, h.cur)]
           c == [h.cache EXCEPT ![h.cur] = e]
           t == h.todo \ {h.cur}
           g == [h EXCEPT !.pc = "next", !.todo = t, !.cur = 0, !.bag = b, !.cache = c,
                          !.creds = NoCred, !.slug = "none", !.pk = NoPk,
                          !.app = FALSE, !.made = FALSE, !.lost = FALSE]
<1>1. /\ h \in HookTypes /\ h.cur \in h.active /\ h.todo \subseteq h.active
      /\ Named(provs, h.pk, h.cur) /\ h.pc # "idle" /\ TrackedHook(provs, rel, h)
      /\ h.cache \in [Relations -> Entries \cup {NoEntry}]
  BY TrackedCaller DEF SyncCalls
<1>2. Synchronized(h) = g BY DEF Synchronized
<1>3. e.pk = h.pk OBVIOUS
<1> HIDE DEF e
<1>4. c = [h.cache EXCEPT ![h.cur] = e] OBVIOUS
<1> HIDE DEF h, b, c, t
<1>5. /\ g.cache = c /\ g.active = h.active /\ g.event = h.event /\ g.todo = t /\ g.pc = "next"
  BY <1>1 DEF HookTypes
<1> HIDE DEF g
<1>6. Scoped(g) BY <1>1, <1>5 DEF Scoped, SyncCalls, t
<1>7. TrackedHook(provs, rel, g)
  BY <1>1, <1>3, <1>4, <1>5, <1>6, TrackedEntry DEF SyncCalls
<1> QED BY <1>2, <1>7, TrackedLocal DEF stored, model, h

LEMMA TrackedApplications ==
  ASSUME TypeOK, Tracked, NEW u \in Units,
         CreateApplication(u) \/ CreateApplicationRefused(u) \/ UpdateApplication(u)
  PROVE  Tracked'
<1>1. hook[u].pc \in {"createApp", "updateApp"} /\ hook[u].pc # "idle"
  BY DEF CreateApplication, CreateApplicationRefused, UpdateApplication, At
<1>2. UNCHANGED <<provs, stored, model, failed>>
  BY DEF CreateApplication, CreateApplicationRefused, UpdateApplication, Local, authentik
<1>3. \/ Continue(u, Synchronized(hook[u]))
      \/ (Caught(u) \/ CaughtStaleFlow(u)) /\ UNCHANGED authentik
  BY DEF CreateApplication, CreateApplicationRefused, UpdateApplication, Local, authentik
<1> QED BY <1>1, <1>2, <1>3, TrackedSynchronized, TrackedCaught

LEMMA TrackedCollectNext ==
  ASSUME TypeOK, Tracked, NEW u \in Units, CollectNext(u)
  PROVE  Tracked'
<1> DEFINE h == hook[u]
           done == [h EXCEPT !.pc = "commit"]
           g(r, pc) == [h EXCEPT !.cur = r, !.pk = h.cache[r].pk, !.pc = pc]
<1>1. h.pc # "idle" BY DEF CollectNext, At
<1>2. h \in HookTypes /\ Scoped(h) BY <1>1, TrackedRunning
<1>3. /\ done.cache = h.cache /\ done.active = h.active /\ done.event = h.event
      /\ done.todo = h.todo /\ done.pc = "commit"
  <2> HIDE DEF h
  <2> QED BY <1>2 DEF HookTypes
<1>4. \A r \in Relations, pc \in {"gcApp", "gcProv"} :
        /\ g(r, pc).cache = h.cache /\ g(r, pc).active = h.active /\ g(r, pc).event = h.event
        /\ g(r, pc).todo = h.todo /\ g(r, pc).cur = r /\ g(r, pc).pk = h.cache[r].pk
        /\ g(r, pc).pc = pc
  <2> HIDE DEF h
  <2> QED BY <1>2 DEF HookTypes
<1>5. \/ Continue(u, done)
      \/ \E r \in Relations \ h.active : Continue(u, g(r, "gcApp")) \/ Continue(u, g(r, "gcProv"))
  <2>1. ASSUME NEW r \in Orphans(h),
               Continue(u, g(r, IF h.cache[r].slug # "none" THEN "gcApp" ELSE "gcProv"))
        PROVE  r \in Relations \ h.active
               /\ (Continue(u, g(r, "gcApp")) \/ Continue(u, g(r, "gcProv")))
    <3>1. r \in Relations \ h.active BY DEF Orphans
    <3>2. CASE h.cache[r].slug # "none" BY <2>1, <3>1, <3>2
    <3>3. CASE h.cache[r].slug = "none" BY <2>1, <3>1, <3>3
    <3> QED BY <3>2, <3>3
  <2> QED BY <2>1 DEF CollectNext
<1>6. Local BY DEF CollectNext
<1> HIDE DEF done, g
<1>7. CASE Continue(u, done)
  <2>1. Scoped(done) BY <1>2, <1>3 DEF Scoped, SyncCalls
  <2> QED BY <1>1, <1>3, <1>6, <1>7, <2>1, TrackedMoved DEF SyncCalls
<1>8. ASSUME NEW r \in Relations \ h.active, NEW pc \in {"gcApp", "gcProv"},
             Continue(u, g(r, pc))
      PROVE  Tracked'
  <2>1. Scoped(g(r, pc)) BY <1>2, <1>4 DEF Scoped, SyncCalls
  <2>2. g(r, pc).pc \notin SyncCalls BY <1>4 DEF SyncCalls
  <2> QED BY <1>1, <1>4, <1>6, <1>8, <2>1, <2>2, TrackedMoved
<1> QED BY <1>5, <1>7, <1>8

------------------------------------------------------------------------------
(* What is deleted is a departing relation's.                                *)

LEMMA TrackedCollecting ==
  ASSUME TypeOK, Tracked, NEW u \in Units, hook[u].pc \in {"gcApp", "gcProv"}
  PROVE  /\ hook[u] \in HookTypes /\ hook[u].cur \in Relations /\ hook[u].pk \in Pks
         /\ hook[u].cache[hook[u].cur] \in Entries
         /\ hook[u].pk = hook[u].cache[hook[u].cur].pk
         /\ hook[u].cache \in [Relations -> Entries \cup {NoEntry}]
         /\ TrackedHook(provs, rel, hook[u]) /\ hook[u].pc # "idle"
         /\ hook[u].todo \subseteq hook[u].active
         /\ rel[hook[u].cur] \notin {"none", "active"}
         /\ hook[u].cur \notin hook[u].active
         /\ Named(provs, hook[u].pk, hook[u].cur)
<1> DEFINE h == hook[u]
<1>1. /\ h \in HookTypes /\ h.cur \in Relations /\ h.pk \in Pks
      /\ h.cache[h.cur] \in Entries
  BY CollectingHook
<1>2. h.pc # "idle" OBVIOUS
<1>3. /\ TrackedHook(provs, rel, h) /\ Scoped(h) /\ Settled(rel, h)
      /\ \A r \in Relations : Named(provs, h.cache[r].pk, r)
  BY <1>2, TrackedRunning
<1>4. h.cache[h.cur] # NoEntry
  <2>1. NoEntry \notin Entries BY DEF NoEntry, Entries, NoPk, Pks
  <2> QED BY <1>1, <2>1
<1>5. h.cache \in [Relations -> Entries \cup {NoEntry}] BY <1>1 DEF HookTypes
<1> HIDE DEF h
<1>6. h.pc \in {"gcApp", "gcProv"} BY DEF h
<1>7. /\ rel[h.cur] \notin {"none", "active"} /\ h.cur \notin h.active
      /\ h.pk = h.cache[h.cur].pk /\ h.todo \subseteq h.active
  BY <1>1, <1>3, <1>4, <1>6 DEF Scoped, Settled
<1>8. Named(provs, h.pk, h.cur) BY <1>1, <1>3, <1>7
<1> QED BY <1>1, <1>2, <1>3, <1>5, <1>7, <1>8 DEF h

LEMMA TrackedDeleteApplication ==
  ASSUME TypeOK, Tracked, NEW u \in Units, DeleteApplication(u)
  PROVE  Tracked'
<1> DEFINE h == hook[u]
           e == h.cache[h.cur]
           e2 == [e EXCEPT !.slug = "none", !.hash = NoHash]
           c == [h.cache EXCEPT ![h.cur] = e2]
           g == [h EXCEPT !.pc = "gcProv", !.cache = c]
<1>1. h.pc = "gcApp" BY DEF DeleteApplication, At
<1>2. /\ h \in HookTypes /\ h.cur \in Relations /\ e \in Entries /\ h.pk = e.pk
      /\ h.cache \in [Relations -> Entries \cup {NoEntry}]
      /\ TrackedHook(provs, rel, h) /\ h.pc # "idle" /\ h.todo \subseteq h.active
      /\ rel[h.cur] \notin {"none", "active"} /\ h.cur \notin h.active
      /\ Named(provs, h.pk, h.cur)
  BY <1>1, TrackedCollecting
<1>3. UNCHANGED <<provs, stored, model, failed>> BY DEF DeleteApplication
<1>4. [h EXCEPT !.pc = "gcProv", !.cache[h.cur].slug = "none", !.cache[h.cur].hash = NoHash]
        = g
  <2> HIDE DEF h
  <2> QED BY <1>2 DEF HookTypes
<1>5. Continue(u, g) BY <1>4 DEF DeleteApplication
<1>6. e2.pk = e.pk
  <2> HIDE DEF e
  <2> QED BY <1>2 DEF Entries
<1>7. /\ g.cache = c /\ g.active = h.active /\ g.event = h.event /\ g.todo = h.todo
      /\ g.pc = "gcProv" /\ g.cur = h.cur /\ g.pk = h.pk
  <2> HIDE DEF h, c
  <2> QED BY <1>2 DEF HookTypes
<1>8. c[h.cur] = e2 BY <1>2
<1> HIDE DEF h, e, e2, g
<1>9. Scoped(g) BY <1>2, <1>6, <1>7, <1>8 DEF Scoped, SyncCalls
<1>10. Named(provs, e2.pk, h.cur) BY <1>2, <1>6
<1>11. TrackedHook(provs, rel, g)
  BY <1>2, <1>7, <1>9, <1>10, TrackedEntry DEF SyncCalls
<1> QED BY <1>3, <1>5, <1>11, TrackedLocal DEF stored, model

LEMMA TrackedDeleteProvider ==
  ASSUME TypeOK, Tracked, NEW u \in Units, DeleteProvider(u)
  PROVE  Tracked'
<1> DEFINE h == hook[u]
           c == [h.cache EXCEPT ![h.cur] = NoEntry]
           g == Forgotten(h)
<1>1. h.pc = "gcProv" BY DEF DeleteProvider, At
<1>2. /\ h \in HookTypes /\ h.cur \in Relations /\ h.pk \in Pks
      /\ h.cache \in [Relations -> Entries \cup {NoEntry}]
      /\ TrackedHook(provs, rel, h) /\ h.pc # "idle" /\ h.todo \subseteq h.active
      /\ rel[h.cur] \notin {"none", "active"}
  BY <1>1, TrackedCollecting
<1>3. /\ UNCHANGED <<stored, model, failed>> /\ Continue(u, g)
      /\ provs' = WithoutProvider(provs, h.pk)
  BY DEF DeleteProvider
<1>4. Renamed(provs')
  <2> HIDE DEF h
  <2>1. \A p \in Pks : provs'[p] = provs[p] \/ provs'[p] = NoProvider
    BY <1>3 DEF WithoutProvider, TypeOK
  <2>2. NoProvider.name = NoName BY DEF NoProvider
  <2> QED BY <2>1, <2>2 DEF Renamed, Named
<1>5. /\ g.cache = c /\ g.active = h.active /\ g.event = h.event /\ g.todo = h.todo
      /\ g.pc = "gc"
  <2> HIDE DEF h
  <2> QED BY <1>2 DEF HookTypes, Forgotten
<1>6. TrackedHook(provs', rel, h) BY <1>2, <1>4, TrackedKept
<1> HIDE DEF h, g
<1>7. Scoped(g) BY <1>2, <1>5 DEF Scoped, SyncCalls
<1>8. Named(provs', NoEntry.pk, h.cur) BY DEF Named, NoEntry, NoPk, Pks
<1>9. TrackedHook(provs', rel, g)
  BY <1>2, <1>5, <1>6, <1>7, <1>8, TrackedEntry DEF SyncCalls
<1> QED BY <1>3, <1>4, <1>9, TrackedStep DEF stored, model

------------------------------------------------------------------------------
(* The end of a hook, and what happens outside.                              *)

RelTypes == [Relations -> {"none", "active", "dying", "gone"}]

LEMMA TrackedLeaving ==
  ASSUME TypeOK, NEW e \in Relations, Ending(rel, e), NEW newLeft,
         rel' = AfterLeaving(e, newLeft)
  PROVE  Onward /\ rel' \in RelTypes
BY DEF AfterLeaving, Onward, TypeOK, RelTypes, Ending

\* A unit has handled an event.
LEMMA TrackedHandled ==
  ASSUME TypeOK, Tracked, NEW u \in Units, NEW e \in Events, Ending(rel, e),
         left' = IF e = Ordinary THEN left ELSE [left EXCEPT ![u] = @ \cup {e}],
         rel' = IF e = Ordinary THEN rel ELSE AfterLeaving(e, left'),
         failed' = [failed EXCEPT ![u] = {}]
  PROVE  /\ Onward /\ rel' \in RelTypes
         /\ \A v \in Units : \A x \in left'[v] \cup failed'[v] :
              x \in left[v] \cup failed[v] \/ Ending(rel, x)
<1>1. Onward /\ rel' \in RelTypes
  <2>1. CASE e = Ordinary BY <2>1 DEF Onward, TypeOK, RelTypes
  <2>2. CASE e # Ordinary BY <2>2, TrackedLeaving DEF Events
  <2> QED BY <2>1, <2>2
<1>2. \A v \in Units : left'[v] \subseteq left[v] \cup {e} BY DEF TypeOK
<1>3. \A v \in Units : failed'[v] \subseteq failed[v] BY DEF TypeOK
<1> QED BY <1>1, <1>2, <1>3

LEMMA TrackedHandleEvent ==
  ASSUME TypeOK, Tracked, NEW u \in Units, NEW e \in Events, HandleEvent(u, e)
  PROVE  Tracked'
<1>1. Ending(rel, e) BY DEF HandleEvent, MayDispatch, Ending
<1>2. UNCHANGED <<provs, cache, hook>> BY DEF HandleEvent, authentik, stored
<1>3. /\ Onward /\ rel' \in RelTypes
      /\ \A v \in Units : \A x \in left'[v] \cup failed'[v] :
           x \in left[v] \cup failed[v] \/ Ending(rel, x)
  BY <1>1, TrackedHandled DEF HandleEvent
<1> QED BY <1>2, <1>3, TrackedElsewhere DEF RelTypes

LEMMA TrackedCommit ==
  ASSUME TypeOK, Tracked, NEW u \in Units, Commit(u)
  PROVE  Tracked'
<1> DEFINE h == hook[u]
<1>1. UNCHANGED provs /\ h.pc # "idle" BY DEF Commit, At, authentik
<1>2. CASE HookFailed(u) BY <1>1, <1>2, TrackedFailed
<1>3. CASE ~HookFailed(u)
  <2>1. /\ FinishEvent(u) /\ Continue(u, IdleHook)
        /\ cache' = h.cache \/ cache' = cache
    BY <1>3 DEF Commit
  <2>2. h.event \in Events /\ Ending(rel, h.event)
    BY <1>1, TrackedEvent DEF TypeOK, HookTypes
  <2>3. /\ failed' = [failed EXCEPT ![u] = {}]
        /\ left' = IF h.event = Ordinary THEN left ELSE [left EXCEPT ![u] = @ \cup {h.event}]
        /\ rel' = IF h.event = Ordinary THEN rel ELSE AfterLeaving(h.event, left')
    BY <2>1 DEF FinishEvent
  <2>4. /\ Onward /\ rel' \in RelTypes
        /\ \A v \in Units : \A x \in left'[v] \cup failed'[v] :
             x \in left[v] \cup failed[v] \/ Ending(rel, x)
    <3> HIDE DEF h
    <3> QED BY <2>2, <2>3, TrackedHandled
  <2>5. \A v \in Units : \A x \in left'[v] \cup failed'[v] : Ending(rel', x)
    BY <2>4 DEF Tracked, Ending, Onward
  <2>6. \A v \in Units : TrackedHook(provs', rel', hook'[v])
    <3> TAKE v \in Units
    <3>1. CASE v = u BY <2>1, <3>1, TrackedIdle DEF Continue, TypeOK
    <3>2. CASE v # u
      <4>1. hook'[v] = hook[v] /\ hook[v].active \subseteq Relations
        BY <2>1, <3>2 DEF Continue, TypeOK, HookTypes
      <4> QED BY <1>1, <2>4, <4>1, TrackedOnward DEF Tracked, RelTypes
    <3> QED BY <3>1, <3>2
  <2>7. ASSUME NEW r \in Relations
        PROVE  Named(provs, h.cache[r].pk, r) /\ (rel[r] = "none" => h.cache[r] = NoEntry)
    BY <1>1, TrackedRunning DEF Settled
  <2>8. \A r \in Relations : rel'[r] = "none" => rel[r] = "none" BY <2>4 DEF Onward
  <2>9. \A r \in Relations :
          Named(provs', cache'[r].pk, r) /\ (rel'[r] = "none" => cache'[r] = NoEntry)
    <3> HIDE DEF h
    <3> QED BY <1>1, <2>1, <2>7, <2>8 DEF Tracked
  <2> QED BY <2>5, <2>6, <2>9 DEF Tracked
<1> QED BY <1>2, <1>3

LEMMA TrackedEnvironment ==
  ASSUME TypeOK, Tracked, Environment
  PROVE  Tracked'
<1>1. ASSUME UNCHANGED <<provs, cache, rel, left, failed, hook>> PROVE Tracked'
  BY <1>1, TrackedElsewhere DEF Onward, TypeOK
<1>2. ASSUME NEW r \in Relations, Integrate(r) \/ RemoveRelation(r) PROVE Tracked'
  <2>1. Onward /\ rel' \in RelTypes
    BY <1>2 DEF Integrate, RemoveRelation, Onward, TypeOK, RelTypes
  <2>2. UNCHANGED <<provs, cache, left, failed, hook>>
    BY <1>2 DEF Integrate, RemoveRelation, authentik, stored
  <2> QED BY <2>1, <2>2, TrackedElsewhere DEF RelTypes
<1>3. ASSUME NEW r \in Relations, ChangeConf(r) \/ ClientSecretLost(r) PROVE Tracked'
  BY <1>1, <1>3 DEF ChangeConf, ClientSecretLost, authentik, stored, model
<1>4. ASSUME NEW u \in Units, ResolveWithoutRetry(u) PROVE Tracked'
  <2>1. PICK e \in failed[u] :
          /\ left' = IF e = Ordinary THEN left ELSE [left EXCEPT ![u] = @ \cup {e}]
          /\ rel' = IF e = Ordinary THEN rel ELSE AfterLeaving(e, left')
    BY <1>4 DEF ResolveWithoutRetry
  <2>2. e \in Events /\ Ending(rel, e) BY DEF Tracked, TypeOK
  <2>3. failed' = [failed EXCEPT ![u] = {}] /\ UNCHANGED <<provs, cache, hook>>
    BY <1>4 DEF ResolveWithoutRetry, authentik, stored
  <2>4. /\ Onward /\ rel' \in RelTypes
        /\ \A v \in Units : \A x \in left'[v] \cup failed'[v] :
             x \in left[v] \cup failed[v] \/ Ending(rel, x)
    BY <2>1, <2>2, <2>3, TrackedHandled
  <2> QED BY <2>3, <2>4, TrackedElsewhere DEF RelTypes
<1>5. CASE AdminDeletesProvider
  <2>1. PICK p \in Pks : provs' = WithoutProvider(provs, p) BY <1>5 DEF AdminDeletesProvider
  <2>2. UNCHANGED <<cache, rel, left, failed, hook>> BY <1>5 DEF AdminDeletesProvider, stored, model
  <2>3. Renamed(provs')
    <3>1. \A q \in Pks : provs'[q] = provs[q] \/ provs'[q] = NoProvider
      BY <2>1 DEF WithoutProvider, TypeOK
    <3>2. NoProvider.name = NoName BY DEF NoProvider
    <3> QED BY <3>1, <3>2 DEF Renamed, Named
  <2>4. \A u \in Units : TrackedHook(provs', rel', hook'[u])
    BY <2>2, <2>3, TrackedKept DEF Tracked
  <2>5. \A r \in Relations : Named(provs', cache[r].pk, r) BY <2>3 DEF Tracked, Renamed, Held
  <2> QED BY <2>2, <2>4, <2>5 DEF Tracked, Ending
<1>6. CASE AdminDeletesApplication \/ AdminRecreatesFlow
  BY <1>1, <1>6 DEF AdminDeletesApplication, AdminRecreatesFlow, stored, model
<1> QED BY <1>2, <1>3, <1>4, <1>5, <1>6, TrackedLateCreate DEF Environment

LEMMA TrackedDiscovery ==
  ASSUME TypeOK, Tracked, NEW u \in Units, Discovery(u)
  PROVE  Tracked'
<1>1. CASE GetManagedApplication(u) \/ GetLegacyApplication(u)
  BY <1>1, TrackedGetApplication DEF GetManagedApplication, GetLegacyApplication, SyncCalls, Kinds
<1> QED BY <1>1, TrackedGetCachedApplication, TrackedGetCachedProvider,
       TrackedValidateProvider, TrackedFindProvider DEF Discovery

LEMMA TrackedWrites ==
  ASSUME TypeOK, Tracked, NEW u \in Units, Writes(u)
  PROVE  Tracked'
<1>1. CASE CreateProviderInvalid(u)
  BY <1>1, TrackedCaught DEF Local, CreateProviderInvalid, At
<1> QED BY <1>1, TrackedCreateProvider, TrackedCreateProviderConflict, TrackedRecoverProvider,
       TrackedUpdateProvider, TrackedApplications DEF Writes

LEMMA TrackedFaults ==
  ASSUME TypeOK, Tracked, NEW u \in Units, Faults(u)
  PROVE  Tracked'
<1>1. CASE HookFails(u)
  BY <1>1, TrackedFailed DEF HookFails, Busy, At, authentik
<1>2. CASE CallRefused(u)
  <2>1. hook[u].pc # "idle" BY <1>2 DEF CallRefused, At, Calls, SyncCalls
  <2> QED BY <1>2, <2>1, TrackedCaught DEF CallRefused
<1>3. CASE CreateProviderLost(u) BY <1>3, TrackedCreateProviderLost
<1>4. CASE Elect(u)
  BY <1>4, TrackedElsewhere DEF Elect, Onward, TypeOK, authentik, stored
<1>5. CASE \E e \in Events : SkippedHook(u, e) BY <1>5, TrackedHandleEvent DEF SkippedHook
<1> QED BY <1>1, <1>2, <1>3, <1>4, <1>5 DEF Faults

LEMMA TrackedNext == ASSUME TypeOK, Tracked, Next PROVE Tracked'
<1>1. ASSUME NEW u \in Units, HookStep(u) PROVE Tracked'
  BY <1>1, TrackedResolveFlow, TrackedSkipRelation, TrackedBeginRelation, TrackedToGarbage,
     TrackedResolveMappings, TrackedDiscovery, TrackedWrites, TrackedCollectNext,
     TrackedDeleteApplication, TrackedDeleteProvider, TrackedCommit DEF HookStep, Collection
<1>2. ASSUME NEW u \in Units, NEW e \in Events, Dispatch(u, e) PROVE Tracked'
  BY <1>2, TrackedStartHook, TrackedHandleEvent DEF Dispatch, FollowerHook
<1> QED BY <1>1, <1>2, TrackedFaults, TrackedEnvironment DEF Next

LEMMA TrackedInit == ASSUME Init PROVE Tracked
<1>1. \A r \in Relations : cache[r] = NoEntry BY DEF Init
<1>2. \A r \in Relations : Named(provs, NoEntry.pk, r) BY DEF Named, NoEntry, NoPk, Pks
<1>3. \A u \in Units : hook[u] = IdleHook /\ left[u] = {} /\ failed[u] = {} BY DEF Init
<1> QED BY <1>1, <1>2, <1>3, TrackedIdle DEF Tracked

LEMMA TrackedAlways == Spec => []Tracked
<1>1. Init => Tracked BY TrackedInit
<1>2. TypeOK /\ Tracked /\ [Next]_vars => Tracked'
  <2>1. ASSUME TypeOK, Tracked, UNCHANGED vars PROVE Tracked'
    BY <2>1, TrackedElsewhere DEF vars, authentik, stored, model, Onward, TypeOK
  <2> QED BY <2>1, TrackedNext
<1> QED BY <1>1, <1>2, TypeCorrect, PTL DEF Spec

------------------------------------------------------------------------------
(* What a step deletes.                                                      *)

\* Nothing that was there is gone.
Spared ==
  /\ \A p \in Pks : ProviderExists(provs, p) => ProviderExists(provs', p)
  /\ \A s \in Slugs : apps[s] # AppAbsent => apps'[s] # AppAbsent

\* Nothing of an active relation's is.
ActiveSpared ==
  \A r \in Relations : rel[r] = "active" =>
    /\ \A p \in ProvidersOf(r) : ProviderExists(provs', p)
    /\ \A k \in Kinds : apps[<<k, r>>] # AppAbsent => apps'[<<k, r>>] # AppAbsent

LEMMA SparedSuffices == ASSUME Spared PROVE ActiveSpared
<1>1. \A r : NoProvider.name \notin NamesOf(r)
  BY DEF NoProvider, NoName, NamesOf, ManagedName, LegacyName
<1>2. \A r \in Relations : \A p \in ProvidersOf(r) : ProviderExists(provs, p)
  BY <1>1 DEF ProvidersOf, ProviderExists
<1> QED BY <1>2 DEF Spared, ActiveSpared, ProvidersOf, Slugs

LEMMA UnchangedSpared == ASSUME UNCHANGED <<provs, apps>> PROVE Spared
BY DEF Spared

LEMMA WrittenSpared ==
  ASSUME TypeOK, NEW p \in Pks, NEW rec \in Providers,
         provs' = WithProvider(provs, p, rec), UNCHANGED apps
  PROVE  Spared
<1>1. rec # NoProvider BY DEF Providers, NoProvider, NoCred, Creds
<1>2. \A q \in Pks : provs'[q] \in {rec, provs[q]} BY DEF WithProvider, TypeOK
<1> QED BY <1>1, <1>2 DEF Spared, ProviderExists

LEMMA ProviderWritesSpared ==
  ASSUME TypeOK, NEW u \in Units,
         CreateProvider(u) \/ CreateProviderLost(u) \/ UpdateProvider(u)
  PROVE  Spared
<1>1. Request(hook[u]) \in Providers
  BY CallingHook DEF CreateProvider, CreateProviderLost, UpdateProvider, At, SyncCalls
<1>2. UNCHANGED apps BY DEF CreateProvider, CreateProviderLost, UpdateProvider
<1>3. provs' = provs \/ \E p \in Pks : provs' = WithProvider(provs, p, Request(hook[u]))
  BY DEF CreateProvider, CreateProviderLost, UpdateProvider, ProviderCreated, UpdateAccepted,
     ProviderExists
<1> HIDE DEF Request
<1> QED BY <1>1, <1>2, <1>3, WrittenSpared, UnchangedSpared

LEMMA ApplicationWritesSpared ==
  ASSUME TypeOK, NEW u \in Units, CreateApplication(u) \/ UpdateApplication(u)
  PROVE  Spared
<1>1. SlugOf(hook[u]) \in Slugs /\ hook[u].pk \in Pks
  BY CallingHook DEF CreateApplication, UpdateApplication, At, SyncCalls, KeyCalls, SlugOf, Slugs
<1>2. provs' = provs /\ (apps' = apps \/ apps' = WithApp(apps, SlugOf(hook[u]), hook[u].pk))
  BY DEF CreateApplication, UpdateApplication
<1>3. AppAbsent \notin Pks BY DEF AppAbsent, Pks
<1> QED BY <1>1, <1>2, <1>3 DEF Spared, WithApp, TypeOK

\* The application deleted is that of the relation that departs.
LEMMA DeletedApplicationSpared ==
  ASSUME TypeOK, Tracked, NEW u \in Units, DeleteApplication(u)
  PROVE  ActiveSpared
<1> DEFINE h == hook[u]
           s == <<h.cache[h.cur].slug, h.cur>>
<1>1. rel[h.cur] # "active" BY TrackedCollecting DEF DeleteApplication, At
<1>2. provs' = provs /\ apps' = WithoutApp(apps, s) BY DEF DeleteApplication
<1>3. \A k \in Kinds, r \in Relations : r # h.cur => apps'[<<k, r>>] = apps[<<k, r>>]
  <2> HIDE DEF h
  <2> QED BY <1>2 DEF WithoutApp, Slugs, TypeOK
<1>4. \A r : NoProvider.name \notin NamesOf(r)
  BY DEF NoProvider, NoName, NamesOf, ManagedName, LegacyName
<1> HIDE DEF h
<1> QED BY <1>1, <1>2, <1>3, <1>4 DEF ActiveSpared, ProvidersOf, ProviderExists

\* The provider deleted has a name of the relation that departs.
LEMMA DeletedProviderSpared ==
  ASSUME TypeOK, Tracked, NEW u \in Units, DeleteProvider(u)
  PROVE  ActiveSpared
<1> DEFINE h == hook[u]
<1>1. /\ rel[h.cur] # "active" /\ h.pk \in Pks /\ Named(provs, h.pk, h.cur)
  BY TrackedCollecting DEF DeleteProvider, At
<1>2. provs' = WithoutProvider(provs, h.pk) /\ apps' = Detach(apps, h.pk) BY DEF DeleteProvider
<1> HIDE DEF h
<1>3. \A s \in Slugs : apps[s] # AppAbsent => apps'[s] # AppAbsent
  BY <1>2 DEF Detach, AppAbsent, NoPk
<1>4. \A r : NoName \notin NamesOf(r) BY DEF NoName, NamesOf, ManagedName, LegacyName
<1>5. ASSUME NEW r \in Relations, rel[r] = "active", NEW p \in ProvidersOf(r)
      PROVE  ProviderExists(provs', p)
  <2>1. p \in Pks /\ provs[p].name \in NamesOf(r) BY DEF ProvidersOf
  <2>2. p # h.pk
    <3> SUFFICES ASSUME p = h.pk PROVE FALSE OBVIOUS
    <3>1. Named(provs, p, r) /\ provs[p].name # NoName BY <1>4, <2>1 DEF Named
    <3>2. r = h.cur BY <1>1, <2>1, <3>1, NamedOnce
    <3> QED BY <1>1, <1>5, <3>2
  <2>3. provs'[p] = provs[p] BY <1>2, <2>1, <2>2 DEF WithoutProvider, TypeOK
  <2>4. NoProvider.name = NoName BY DEF NoProvider
  <2> QED BY <1>4, <2>1, <2>3, <2>4 DEF ProviderExists
<1> QED BY <1>3, <1>5 DEF ActiveSpared, Slugs

LEMMA SparedNext == ASSUME TypeOK, Tracked, Next, tampers' = tampers PROVE ActiveSpared
<1>1. ASSUME NEW u \in Units, HookStep(u) PROVE ActiveSpared
  <2>1. CASE Discovery(u)
    BY <2>1, UnchangedSpared, SparedSuffices
       DEF Discovery, GetCachedApplication, GetCachedProvider, GetManagedApplication,
           GetLegacyApplication, GetApplication, ValidateProvider, FindProvider, Local, authentik
  <2>2. CASE Writes(u)
    <3>1. CASE CreateProvider(u) \/ UpdateProvider(u)
      BY <3>1, ProviderWritesSpared, SparedSuffices
    <3>2. CASE CreateApplication(u) \/ UpdateApplication(u)
      BY <3>2, ApplicationWritesSpared, SparedSuffices
    <3>3. CASE \/ CreateProviderInvalid(u) \/ CreateProviderConflict(u)
               \/ RecoverProvider(u) \/ CreateApplicationRefused(u)
      BY <3>3, UnchangedSpared, SparedSuffices
         DEF CreateProviderInvalid, CreateProviderConflict, RecoverProvider,
             CreateApplicationRefused, Local, authentik
    <3> QED BY <2>2, <3>1, <3>2, <3>3 DEF Writes
  <2>3. CASE Collection(u)
    BY <2>3, DeletedApplicationSpared, DeletedProviderSpared, UnchangedSpared, SparedSuffices
       DEF Collection, CollectNext, Local, authentik
  <2>4. CASE \/ ResolveFlow(u) \/ SkipRelation(u) \/ BeginRelation(u) \/ ToGarbage(u)
             \/ ResolveMappings(u) \/ Commit(u)
    BY <2>4, UnchangedSpared, SparedSuffices
       DEF ResolveFlow, SkipRelation, BeginRelation, ToGarbage, ResolveMappings, Commit,
           Local, authentik
  <2> QED BY <1>1, <2>1, <2>2, <2>3, <2>4 DEF HookStep
<1>2. ASSUME NEW u \in Units, Faults(u) PROVE ActiveSpared
  BY <1>2, ProviderWritesSpared, UnchangedSpared, SparedSuffices
     DEF Faults, HookFails, CallRefused, Elect, SkippedHook, HandleEvent, authentik
<1>3. ASSUME NEW u \in Units, NEW e \in Events, Dispatch(u, e) PROVE ActiveSpared
  BY <1>3, UnchangedSpared, SparedSuffices
     DEF Dispatch, StartHook, FollowerHook, HandleEvent, Local, authentik
<1>4. CASE Environment
  <2>1. tampers \in Nat /\ ~Tamper BY DEF Tamper, TypeOK
  <2>2. CASE LateCreate
    <3>1. \/ UNCHANGED <<provs, apps>>
          \/ \E p \in Pks, q \in late : provs' = WithProvider(provs, p, q) /\ UNCHANGED apps
      BY <2>2 DEF LateCreate
    <3>2. late \subseteq Providers BY DEF TypeOK
    <3> QED BY <3>1, <3>2, WrittenSpared, UnchangedSpared, SparedSuffices
  <2> QED BY <1>4, <2>1, <2>2, UnchangedSpared, SparedSuffices
       DEF Environment, Integrate, ChangeConf, RemoveRelation, ClientSecretLost,
           ResolveWithoutRetry, AdminDeletesProvider, AdminDeletesApplication,
           AdminRecreatesFlow, authentik
<1> QED BY <1>1, <1>2, <1>3, <1>4 DEF Next

\* Garbage collection never takes the provider or an application of an active
\* relation: for any number of units whose hooks overlap, any relations that
\* come and go, any faults and late creates, and after an administrator's changes.
THEOREM ActiveSafe == Spec => ActiveNeverCollected
<1>1. TypeOK /\ Tracked /\ [Next]_vars =>
        [tampers' = tampers =>
           \A r \in Relations : rel[r] = "active" =>
             /\ \A p \in ProvidersOf(r) : ProviderExists(provs', p)
             /\ \A k \in Kinds : apps[<<k, r>>] # AppAbsent => apps'[<<k, r>>] # AppAbsent]_vars
  BY SparedNext DEF ActiveSpared
<1> QED BY <1>1, TypeCorrect, TrackedAlways, PTL DEF Spec, ActiveNeverCollected

------------------------------------------------------------------------------
(* 3. One provider for a relation.  The argument follows the provider an      *)
(* earlier revision has left: as long as it has not been renamed it is the    *)
(* relation's only one, and whoever synchronizes the relation finds it, so    *)
(* that nobody gets to create another.                                        *)

\* With a second unit a hook may collect half of a relation another still sees;
\* an administrator may delete what leads to the provider.
SingleUnit  == \A u, v \in Units : u = v
NoTampering == MaxTampers = 0

\* The provider an earlier revision has left for r, not renamed yet.
Unadopted(ps, r) == r \in Pks /\ ps[r].name = LegacyName(r)

\* It can be found: through its application or, as long as that is trusted or r
\* will not be synchronized any more (past), through the entry that tracks it.
Reachable(as, r, e, past) ==
  /\ e.pk \in {NoPk, r}
  /\ \/ as[LegacyName(r)] = r
     \/ e.pk = r /\ (e.slug # "none" \/ past)

\* Where a hook may be that synchronizes r.
Adopting(as, r, h) ==
  \/ h.pc = "mappings" /\ h.pk = h.cache[r].pk
  \/ h.pc \in {"managedApp", "legacyApp"} /\ as[LegacyName(r)] = r
  \/ h.pc \in {"cachedApp", "cachedProv", "validate", "update"} /\ h.pk = r

LegacyHook(as, rl, r, h) ==
  /\ Reachable(as, r, h.cache[r], r \notin h.active)
  /\ h.cur = r /\ h.pc \in SyncCalls => Adopting(as, r, h)
  /\ r \in h.active \/ r = h.event \/ rl[r] = "gone"

\* What it does not synchronize it has not written to, but to collect it.
Steady(ca, h) ==
  \A r \in Relations : r \notin h.active /\ h.cache[r].slug # "none" => ca[r] = h.cache[r]

HookOne(ps, as, ca, rl, h) ==
  h.pc # "idle" =>
    /\ Scoped(h) /\ Steady(ca, h)
    /\ \A r \in Relations : Unadopted(ps, r) => LegacyHook(as, rl, r, h)

NamesOnce(ps) ==
  /\ \A r \in Relations : \A p, q \in PksNamed(ps, ManagedName(r)) : p = q
  /\ \A p \in Pks, r \in Relations : ps[p].name = LegacyName(r) => p = r

\* Nothing has been made for r beside it.
Pristine(ps, as, la, ca, rl, r) ==
  /\ PksNamed(ps, ManagedName(r)) = {} /\ \A q \in la : q.name # ManagedName(r)
  /\ as[ManagedName(r)] = AppAbsent
  /\ rl[r] # "none"
  /\ Reachable(as, r, ca[r], rl[r] = "gone")

LateManaged(la) == \A q \in la : \E r \in Relations : q.name = ManagedName(r)

One ==
  /\ NamesOnce(provs) /\ LateManaged(late)
  /\ \A u \in Units, r \in Relations : r \in left[u] => rel[r] = "gone"
  /\ \A r \in Relations : Unadopted(provs, r) => Pristine(provs, apps, late, cache, rel, r)
  /\ \A u \in Units : HookOne(provs, apps, cache, rel, hook[u])

LEMMA OneSuffices ==
  ASSUME One PROVE OneProviderPerRelation
<1> SUFFICES ASSUME NEW r \in Relations PROVE Cardinality(ProvidersOf(r)) <= 1
  BY DEF OneProviderPerRelation
<1>1. \A p, q \in ProvidersOf(r) : p = q
  <2> SUFFICES ASSUME NEW p \in ProvidersOf(r), NEW q \in ProvidersOf(r) PROVE p = q
    OBVIOUS
  <2>1. /\ p \in Pks /\ (provs[p].name = ManagedName(r) \/ provs[p].name = LegacyName(r))
        /\ q \in Pks /\ (provs[q].name = ManagedName(r) \/ provs[q].name = LegacyName(r))
    BY DEF ProvidersOf, NamesOf
  <2>2. CASE provs[p].name = LegacyName(r) \/ provs[q].name = LegacyName(r)
    <3>1. Unadopted(provs, r) BY <2>1, <2>2 DEF One, NamesOnce, Unadopted
    <3>2. provs[p].name # ManagedName(r) /\ provs[q].name # ManagedName(r)
      BY <2>1, <3>1 DEF One, Pristine, PksNamed
    <3> QED BY <2>1, <3>2 DEF One, NamesOnce
  <2>3. CASE provs[p].name = ManagedName(r) /\ provs[q].name = ManagedName(r)
    BY <2>1, <2>3 DEF One, NamesOnce, PksNamed
  <2> QED BY <2>1, <2>2, <2>3
<1>2. CASE ProvidersOf(r) = {} BY <1>2, FS_EmptySet
<1>3. CASE ProvidersOf(r) # {}
  <2>1. PICK p : p \in ProvidersOf(r) BY <1>3
  <2>2. ProvidersOf(r) = {p} BY <1>1, <2>1
  <2>3. Cardinality({p}) = 1 BY FS_Singleton
  <2> QED BY <2>2, <2>3
<1> QED BY <1>2, <1>3

------------------------------------------------------------------------------
(* What a step of the one hook has to show.                                  *)

LEMMA OneStep ==
  ASSUME TypeOK, One, SingleUnit, NEW u \in Units, NEW h, Continue(u, h),
         UNCHANGED <<cache, rel, left>>,
         NamesOnce(provs'), LateManaged(late'),
         \A r \in Relations : Unadopted(provs', r) =>
           Unadopted(provs, r) /\ Pristine(provs', apps', late', cache, rel, r),
         HookOne(provs', apps', cache, rel, h)
  PROVE  One'
<1>1. \A v \in Units : hook'[v] = h BY DEF SingleUnit, Continue, TypeOK
<1>2. \A v \in Units : HookOne(provs', apps', cache', rel', hook'[v]) BY <1>1
<1>3. \A v \in Units, r \in Relations : r \in left'[v] => rel'[r] = "gone" BY DEF One
<1>4. \A r \in Relations : Unadopted(provs', r) => Pristine(provs', apps', late', cache', rel', r)
  OBVIOUS
<1> QED BY <1>2, <1>3, <1>4 DEF One

\* A step that leaves Authentik as it is.
LEMMA OneLocal ==
  ASSUME TypeOK, One, SingleUnit, NEW u \in Units, NEW h, Continue(u, h),
         UNCHANGED <<provs, apps, late, cache, rel, left>>,
         HookOne(provs, apps, cache, rel, h)
  PROVE  One'
<1>1. NamesOnce(provs') /\ LateManaged(late') BY DEF One
<1>2. \A r \in Relations : Unadopted(provs', r) =>
        Unadopted(provs, r) /\ Pristine(provs', apps', late', cache, rel, r)
  BY DEF One
<1>3. HookOne(provs', apps', cache, rel, h) OBVIOUS
<1> QED BY <1>1, <1>2, <1>3, OneStep

LEMMA OneIdle == ASSUME NEW ps, NEW as, NEW ca, NEW rl PROVE HookOne(ps, as, ca, rl, IdleHook)
<1>1. IdleHook.pc = "idle" BY DEF IdleHook
<1> QED BY <1>1 DEF HookOne

\* A hook that goes on with the same cache.
LEMMA OneSame ==
  ASSUME NEW ps, NEW as, NEW ca, NEW rl, NEW h, HookOne(ps, as, ca, rl, h), h.pc # "idle",
         NEW g, g.cache = h.cache, g.active = h.active, g.event = h.event, Scoped(g),
         g.pc \in SyncCalls /\ Unadopted(ps, g.cur) => Adopting(as, g.cur, g)
  PROVE  HookOne(ps, as, ca, rl, g)
<1>1. Steady(ca, g) BY DEF HookOne, Steady
<1>2. ASSUME NEW r \in Relations, Unadopted(ps, r) PROVE LegacyHook(as, rl, r, g)
  BY <1>2 DEF HookOne, LegacyHook
<1> QED BY <1>1, <1>2 DEF HookOne

\* A hook that goes on with another entry for the relation it synchronizes.
LEMMA OneEntry ==
  ASSUME NEW ps, NEW as, NEW ca, NEW rl, NEW h, HookOne(ps, as, ca, rl, h),
         h.pc \in SyncCalls, h.cache \in [Relations -> Entries \cup {NoEntry}],
         NEW e, NEW g, g.cache = [h.cache EXCEPT ![h.cur] = e],
         g.active = h.active, g.event = h.event, Scoped(g),
         Unadopted(ps, h.cur) => Reachable(as, h.cur, e, FALSE),
         g.pc \in SyncCalls /\ Unadopted(ps, g.cur) => g.cur = h.cur /\ Adopting(as, g.cur, g)
  PROVE  HookOne(ps, as, ca, rl, g)
<1>1. h.pc # "idle" BY DEF SyncCalls
<1>2. h.cur \in h.active BY <1>1 DEF HookOne, Scoped
<1>3. Steady(ca, g) BY <1>1, <1>2 DEF HookOne, Steady
<1>4. ASSUME NEW r \in Relations, Unadopted(ps, r) PROVE LegacyHook(as, rl, r, g)
  <2>1. LegacyHook(as, rl, r, h) BY <1>1, <1>4 DEF HookOne
  <2>2. Reachable(as, r, g.cache[r], r \notin g.active)
    <3>1. CASE r = h.cur BY <1>4, <3>1 DEF Reachable
    <3>2. CASE r # h.cur BY <2>1, <3>2 DEF LegacyHook
    <3> QED BY <3>1, <3>2
  <2> QED BY <1>4, <2>1, <2>2 DEF LegacyHook
<1> QED BY <1>3, <1>4 DEF HookOne

LEMMA OneFailed ==
  ASSUME TypeOK, One, SingleUnit, NEW u \in Units, HookFailed(u), UNCHANGED authentik
  PROVE  One'
BY OneIdle, OneLocal DEF HookFailed, stored, model, authentik

LEMMA OneCaught ==
  ASSUME TypeOK, One, SingleUnit, NEW u \in Units, hook[u].pc # "idle",
         Caught(u) \/ CaughtStaleFlow(u), UNCHANGED <<authentik, stored, model>>
  PROVE  One'
<1> DEFINE h == hook[u]
<1>1. h \in HookTypes /\ HookOne(provs, apps, cache, rel, h)
  BY HookWellFormed DEF WellFormed, One
<1>2. PICK g : /\ Continue(u, g) /\ g.cache = h.cache /\ g.active = h.active
               /\ g.event = h.event /\ g.todo = h.todo /\ g.pc = "commit"
  <2> DEFINE a == [h EXCEPT !.pc = "commit"]
             b == [h EXCEPT !.pc = "commit", !.flow = IdleHook.flow]
  <2>1. Continue(u, a) \/ Continue(u, b) BY DEF Caught, CaughtStaleFlow
  <2> HIDE DEF h
  <2>2. /\ a.cache = h.cache /\ a.active = h.active /\ a.event = h.event
        /\ a.todo = h.todo /\ a.pc = "commit"
    BY <1>1 DEF HookTypes
  <2>3. /\ b.cache = h.cache /\ b.active = h.active /\ b.event = h.event
        /\ b.todo = h.todo /\ b.pc = "commit"
    BY <1>1 DEF HookTypes
  <2> HIDE DEF a, b
  <2> QED BY <2>1, <2>2, <2>3
<1>3. Scoped(g) BY <1>1, <1>2 DEF HookOne, Scoped, SyncCalls
<1>4. HookOne(provs, apps, cache, rel, g)
  BY <1>1, <1>2, <1>3, OneSame DEF SyncCalls
<1> QED BY <1>2, <1>4, OneLocal DEF authentik, stored, model

------------------------------------------------------------------------------
(* The steps of a hook that leave Authentik as it is.                        *)

\* The hook of a unit that is running one.
LEMMA OneHook ==
  ASSUME TypeOK, One, NEW u \in Units, hook[u].pc # "idle"
  PROVE  /\ hook[u] \in HookTypes /\ HookOne(provs, apps, cache, rel, hook[u])
         /\ Scoped(hook[u]) /\ Steady(cache, hook[u])
BY HookWellFormed DEF WellFormed, One, HookOne

\* Of a unit that makes a call to synchronize a relation.
LEMMA OneCaller ==
  ASSUME TypeOK, One, NEW u \in Units, hook[u].pc \in SyncCalls
  PROVE  /\ hook[u] \in HookTypes /\ hook[u].cur \in Relations /\ hook[u].slug \in Kinds
         /\ hook[u].cur \in hook[u].active /\ hook[u].todo \subseteq hook[u].active
         /\ HookOne(provs, apps, cache, rel, hook[u])
         /\ Unadopted(provs, hook[u].cur) =>
              /\ Adopting(apps, hook[u].cur, hook[u])
              /\ Reachable(apps, hook[u].cur, hook[u].cache[hook[u].cur], FALSE)
<1>1. hook[u].pc # "idle" BY DEF SyncCalls
<1>2. hook[u] \in HookTypes /\ hook[u].cur \in Relations /\ hook[u].slug \in Kinds
  BY CallingHook
<1>3. HookOne(provs, apps, cache, rel, hook[u]) /\ Scoped(hook[u]) BY <1>1, OneHook
<1> QED BY <1>1, <1>2, <1>3 DEF Scoped, HookOne, LegacyHook

\* A hook that goes on with its cache, and touches nothing else.
LEMMA OneMoved ==
  ASSUME TypeOK, One, SingleUnit, NEW u \in Units, hook[u].pc # "idle",
         NEW g, Continue(u, g), Local, g.cache = hook[u].cache, g.active = hook[u].active,
         g.event = hook[u].event, Scoped(g),
         g.pc \in SyncCalls /\ Unadopted(provs, g.cur) => Adopting(apps, g.cur, g)
  PROVE  One'
<1>1. HookOne(provs, apps, cache, rel, g) BY OneHook, OneSame
<1> QED BY <1>1, OneLocal DEF Local, authentik, stored, model

LEMMA OneStartHook ==
  ASSUME TypeOK, One, SingleUnit, NEW u \in Units, NEW e \in Events, StartHook(u, e)
  PROVE  One'
<1> DEFINE active == ActiveFor(u, e)
<1>1. PICK g : /\ Continue(u, g) /\ g.cache = cache /\ g.event = e
               /\ g.active = active /\ g.todo = active
               /\ g.pc \in {"gc", "flow", "next"}
  <2> DEFINE g(pc) == [IdleHook EXCEPT
                !.pc = pc,
                !.event = e, !.active = active, !.todo = active,
                !.seen = [cache |-> cache, flow |-> flowCache, bag |-> bag],
                !.cache = cache, !.flow = flowCache, !.bag = bag, !.conf = conf]
  <2>1. Continue(u, g("gc")) \/ Continue(u, g("flow")) \/ Continue(u, g("next"))
    <3>1. CASE active = {} BY <3>1 DEF StartHook
    <3>2. CASE active # {} /\ NeedsFlow(flowCache) BY <3>2 DEF StartHook
    <3>3. CASE active # {} /\ ~NeedsFlow(flowCache) BY <3>3 DEF StartHook
    <3> QED BY <3>1, <3>2, <3>3
  <2>2. \A pc : /\ g(pc).cache = cache /\ g(pc).event = e /\ g(pc).active = active
                /\ g(pc).todo = active /\ g(pc).pc = pc
    <3> HIDE DEF active
    <3> QED BY DEF IdleHook
  <2> HIDE DEF g, active
  <2> QED BY <2>1, <2>2
<1>2. Scoped(g) /\ Steady(cache, g) BY <1>1 DEF Scoped, Steady, SyncCalls
<1>3. ASSUME NEW r \in Relations, Unadopted(provs, r) PROVE LegacyHook(apps, rel, r, g)
  <2>1. rel[r] # "none" /\ Reachable(apps, r, cache[r], rel[r] = "gone")
    BY <1>3 DEF One, Pristine
  <2>2. r \in active \/ r = e \/ rel[r] = "gone" BY <2>1 DEF ActiveFor, One, TypeOK
  <2>3. rel[r] = "gone" => r \notin active BY DEF ActiveFor
  <2> HIDE DEF active
  <2> QED BY <1>1, <2>1, <2>2, <2>3 DEF LegacyHook, Reachable, SyncCalls
<1>4. HookOne(provs, apps, cache, rel, g) BY <1>2, <1>3 DEF HookOne
<1> QED BY <1>1, <1>4, OneLocal DEF StartHook, Local, authentik, stored, model

LEMMA OneResolveFlow ==
  ASSUME TypeOK, One, SingleUnit, NEW u \in Units, ResolveFlow(u)
  PROVE  One'
<1> DEFINE h == hook[u]
<1>1. PICK f, pc : pc \in {"flow", "next"} /\ Continue(u, [h EXCEPT !.flow = f, !.pc = pc])
  <2> DEFINE k == IF h.flow["auth"] = NoFlow THEN "auth" ELSE "inval"
             f == [h.flow EXCEPT ![k] = flows[k]]
  <2>1. CASE NeedsFlow(f)
    <3>1. Continue(u, [h EXCEPT !.flow = f, !.pc = "flow"]) BY <2>1 DEF ResolveFlow
    <3> HIDE DEF f, h
    <3> QED BY <3>1
  <2>2. CASE ~NeedsFlow(f)
    <3>1. Continue(u, [h EXCEPT !.flow = f, !.pc = "next"]) BY <2>2 DEF ResolveFlow
    <3> HIDE DEF f, h
    <3> QED BY <3>1
  <2> QED BY <2>1, <2>2
<1>2. h.pc # "idle" BY DEF ResolveFlow, At
<1>3. h \in HookTypes /\ Scoped(h) BY <1>2, OneHook
<1> DEFINE g == [h EXCEPT !.flow = f, !.pc = pc]
<1>4. g.cache = h.cache /\ g.active = h.active /\ g.event = h.event /\ g.todo = h.todo /\ g.pc = pc
  <2> HIDE DEF h
  <2> QED BY <1>3 DEF HookTypes
<1> HIDE DEF g
<1>5. Scoped(g) BY <1>1, <1>3, <1>4 DEF Scoped, SyncCalls
<1> QED BY <1>1, <1>2, <1>4, <1>5, OneMoved DEF ResolveFlow, SyncCalls, g

LEMMA OneToGarbage ==
  ASSUME TypeOK, One, SingleUnit, NEW u \in Units, ToGarbage(u)
  PROVE  One'
<1> DEFINE h == hook[u]
           g == [h EXCEPT !.pc = "gc"]
<1>1. h.pc # "idle" BY DEF ToGarbage, At
<1>2. h \in HookTypes /\ Scoped(h) BY <1>1, OneHook
<1>3. g.cache = h.cache /\ g.active = h.active /\ g.event = h.event /\ g.todo = h.todo /\ g.pc = "gc"
  <2> HIDE DEF h
  <2> QED BY <1>2 DEF HookTypes
<1>4. Continue(u, g) /\ Local BY DEF ToGarbage
<1> HIDE DEF g
<1>5. Scoped(g) BY <1>2, <1>3 DEF Scoped, SyncCalls
<1> QED BY <1>1, <1>3, <1>4, <1>5, OneMoved DEF SyncCalls

LEMMA OneSkipRelation ==
  ASSUME TypeOK, One, SingleUnit, NEW u \in Units, SkipRelation(u)
  PROVE  One'
<1>1. PICK r \in Relations :
        /\ TakesTurn(u, r)
        /\ Continue(u, [Published(hook[u], r) EXCEPT !.todo = @ \ {r}])
        /\ Local
  BY DEF SkipRelation
<1> DEFINE h == hook[u]
           p == Published(h, r)
           g == [p EXCEPT !.todo = p.todo \ {r}]
<1>2. h.pc = "next" BY <1>1 DEF TakesTurn, At
<1>3. h \in HookTypes /\ Scoped(h) BY <1>2, OneHook
<1>4. p \in HookTypes /\ p = [h EXCEPT !.bag = p.bag] BY HookWellFormed, PublishedTypes
<1>5. /\ g.cache = h.cache /\ g.active = h.active /\ g.event = h.event
      /\ g.todo = h.todo \ {r} /\ g.pc = "next"
  <2> HIDE DEF h, p
  <2> QED BY <1>2, <1>3, <1>4 DEF HookTypes
<1>6. Continue(u, g) BY <1>1
<1> HIDE DEF g
<1>7. Scoped(g) BY <1>3, <1>5 DEF Scoped, SyncCalls
<1> QED BY <1>1, <1>2, <1>5, <1>6, <1>7, OneMoved DEF SyncCalls

LEMMA OneBeginRelation ==
  ASSUME TypeOK, One, SingleUnit, NEW u \in Units, BeginRelation(u)
  PROVE  One'
<1>1. PICK r \in Relations :
        LET h == Published(hook[u], r)
            begun == [h EXCEPT !.pc = "mappings", !.cur = r, !.pk = h.cache[r].pk,
                               !.slug = CachedSlug(h, r)]
        IN /\ TakesTurn(u, r)
           /\ \E c : Continue(u, [begun EXCEPT !.creds = c])
           /\ Local
  BY DEF BeginRelation
<1> DEFINE h == hook[u]
           p == Published(h, r)
           s == CachedSlug(p, r)
           k == p.cache[r].pk
           begun == [p EXCEPT !.pc = "mappings", !.cur = r, !.pk = k, !.slug = s]
<1>2. h.pc = "next" /\ r \in h.todo BY <1>1 DEF TakesTurn, At, Least
<1>3. h \in HookTypes /\ Scoped(h) BY <1>2, OneHook
<1>4. p \in HookTypes /\ p = [h EXCEPT !.bag = p.bag] BY HookWellFormed, PublishedTypes
<1>5. PICK c : Continue(u, [begun EXCEPT !.creds = c]) BY <1>1
<1> DEFINE g == [begun EXCEPT !.creds = c]
<1>6. /\ g.cache = h.cache /\ g.active = h.active /\ g.event = h.event /\ g.todo = h.todo
      /\ g.pc = "mappings" /\ g.cur = r /\ g.pk = h.cache[r].pk
  <2>1. p.cache = h.cache /\ p.active = h.active /\ p.event = h.event /\ p.todo = h.todo
    <3> HIDE DEF h, p
    <3> QED BY <1>3, <1>4 DEF HookTypes
  <2> HIDE DEF h, s, p
  <2>2. /\ g.cache = p.cache /\ g.active = p.active /\ g.event = p.event /\ g.todo = p.todo
        /\ g.pc = "mappings" /\ g.cur = r /\ g.pk = k
    <3> HIDE DEF k
    <3> QED BY <1>4 DEF HookTypes
  <2> QED BY <2>1, <2>2
<1>7. Continue(u, g) BY <1>5
<1> HIDE DEF g
<1>8. Scoped(g) BY <1>2, <1>3, <1>6 DEF Scoped
<1>9. Adopting(apps, r, g) BY <1>6 DEF Adopting
<1> QED BY <1>1, <1>2, <1>6, <1>7, <1>8, <1>9, OneMoved

LEMMA OneResolveMappings ==
  ASSUME TypeOK, One, SingleUnit, NEW u \in Units, ResolveMappings(u)
  PROVE  One'
<1> DEFINE h == hook[u]
           g(pc) == [h EXCEPT !.mapped = TRUE, !.pc = pc]
           trusted == h.pk # NoPk /\ h.cache[h.cur].slug # "none"
<1>1. h.pc = "mappings" BY DEF ResolveMappings, At
<1>2. h \in HookTypes /\ h.cur \in h.active /\ h.todo \subseteq h.active
      /\ h.cur \in Relations
  BY <1>1, OneCaller DEF SyncCalls
<1>3. \A pc : /\ g(pc).cache = h.cache /\ g(pc).active = h.active /\ g(pc).event = h.event
              /\ g(pc).todo = h.todo /\ g(pc).cur = h.cur /\ g(pc).pk = h.pk /\ g(pc).pc = pc
  <2> HIDE DEF h
  <2> QED BY <1>2 DEF HookTypes
<1>4. Unadopted(provs, h.cur) =>
        IF trusted THEN h.pk = h.cur ELSE apps[LegacyName(h.cur)] = h.cur
  <2>1. Unadopted(provs, h.cur) =>
          h.pk = h.cache[h.cur].pk /\ Reachable(apps, h.cur, h.cache[h.cur], FALSE)
    BY <1>1, OneCaller DEF SyncCalls, Adopting
  <2>2. NoPk \notin Pks BY DEF NoPk, Pks
  <2> HIDE DEF h
  <2> QED BY <2>1, <2>2 DEF Reachable, Unadopted
<1>5. \A pc \in SyncCalls : Scoped(g(pc))
  <2> HIDE DEF h, g
  <2> QED BY <1>2, <1>3 DEF Scoped, SyncCalls
<1>6. \/ CaughtStaleFlow(u)
      \/ trusted /\ Continue(u, g("cachedApp"))
      \/ ~trusted /\ Continue(u, g("managedApp"))
  BY DEF ResolveMappings
<1>7. Local BY DEF ResolveMappings
<1>8. CASE CaughtStaleFlow(u) BY <1>1, <1>7, <1>8, OneCaught DEF Local
<1>9. CASE trusted /\ Continue(u, g("cachedApp"))
  <2>1. Unadopted(provs, h.cur) => Adopting(apps, h.cur, g("cachedApp"))
    <3> HIDE DEF h, g
    <3> QED BY <1>3, <1>4, <1>9 DEF Adopting
  <2>2. Scoped(g("cachedApp")) BY <1>5 DEF SyncCalls
  <2> HIDE DEF g
  <2> QED BY <1>1, <1>3, <1>7, <1>9, <2>1, <2>2, OneMoved
<1>10. CASE ~trusted /\ Continue(u, g("managedApp"))
  <2>1. Unadopted(provs, h.cur) => Adopting(apps, h.cur, g("managedApp"))
    <3> HIDE DEF h, g
    <3> QED BY <1>3, <1>4, <1>10 DEF Adopting
  <2>2. Scoped(g("managedApp")) BY <1>5 DEF SyncCalls
  <2> HIDE DEF g
  <2> QED BY <1>1, <1>3, <1>7, <1>10, <2>1, <2>2, OneMoved
<1> HIDE DEF g, h, trusted
<1> QED BY <1>6, <1>8, <1>9, <1>10

LEMMA OneGetCachedApplication ==
  ASSUME TypeOK, One, SingleUnit, NEW u \in Units, GetCachedApplication(u)
  PROVE  One'
<1> DEFINE h == hook[u]
           g(app) == [h EXCEPT !.app = app, !.pc = "cachedProv"]
<1>1. h.pc = "cachedApp" BY DEF GetCachedApplication, At
<1>2. h \in HookTypes /\ h.cur \in h.active /\ h.todo \subseteq h.active
      /\ (Unadopted(provs, h.cur) => Adopting(apps, h.cur, h))
  BY <1>1, OneCaller DEF SyncCalls
<1>3. \A app : /\ g(app).cache = h.cache /\ g(app).active = h.active
               /\ g(app).event = h.event /\ g(app).todo = h.todo
               /\ g(app).cur = h.cur /\ g(app).pk = h.pk /\ g(app).pc = "cachedProv"
  <2> HIDE DEF h
  <2> QED BY <1>2 DEF HookTypes
<1>4. \/ \E app : Continue(u, g(app)) /\ Local
      \/ Caught(u) /\ Local
      \/ HookFailed(u) /\ UNCHANGED authentik
  BY DEF GetCachedApplication
<1>5. ASSUME NEW app, Continue(u, g(app)), Local PROVE One'
  <2> HIDE DEF g
  <2>1. Scoped(g(app)) BY <1>2, <1>3 DEF Scoped
  <2>2. Unadopted(provs, h.cur) => Adopting(apps, h.cur, g(app))
    BY <1>1, <1>2, <1>3 DEF Adopting
  <2> QED BY <1>1, <1>3, <1>5, <2>1, <2>2, OneMoved
<1>6. ASSUME Caught(u), Local PROVE One' BY <1>1, <1>6, OneCaught DEF Local
<1> HIDE DEF g
<1> QED BY <1>4, <1>5, <1>6, OneFailed

LEMMA OneGetApplication ==
  ASSUME TypeOK, One, SingleUnit, NEW u \in Units,
         NEW pc \in SyncCalls, NEW kind \in Kinds, NEW otherwise \in SyncCalls,
         GetApplication(u, pc, kind, otherwise),
         NEW a, a = apps[<<kind, hook[u].cur>>],
         Unadopted(provs, hook[u].cur) =>
           /\ a \in Pks => a = hook[u].cur
           /\ a = AppAbsent => otherwise = "legacyApp"
                               /\ apps[LegacyName(hook[u].cur)] = hook[u].cur
  PROVE  One'
<1> DEFINE h == hook[u]
           absent == [h EXCEPT !.pc = otherwise, !.slug = "managed"]
           found == [h EXCEPT !.pc = "validate", !.slug = kind, !.pk = a]
<1>1. h.pc = pc /\ h.pc # "idle" BY DEF GetApplication, At, SyncCalls
<1>2. h \in HookTypes /\ h.cur \in h.active /\ h.todo \subseteq h.active
  BY <1>1, OneCaller
<1>3. /\ absent.cache = h.cache /\ absent.active = h.active /\ absent.event = h.event
      /\ absent.todo = h.todo /\ absent.cur = h.cur /\ absent.pc = otherwise
  <2> HIDE DEF h
  <2> QED BY <1>2 DEF HookTypes
<1>4. /\ found.cache = h.cache /\ found.active = h.active /\ found.event = h.event
      /\ found.todo = h.todo /\ found.cur = h.cur /\ found.pc = "validate" /\ found.pk = a
  <2> HIDE DEF h
  <2> QED BY <1>2 DEF HookTypes
<1>5. Local BY DEF GetApplication
<1>6. \/ a = AppAbsent /\ Continue(u, absent)
      \/ Caught(u)
      \/ a \in Pks /\ Continue(u, found)
  BY DEF GetApplication
<1> HIDE DEF absent, found
<1>7. CASE a = AppAbsent /\ Continue(u, absent)
  <2>1. Scoped(absent) BY <1>2, <1>3 DEF Scoped, SyncCalls
  <2>2. Unadopted(provs, h.cur) => Adopting(apps, h.cur, absent) BY <1>3, <1>7 DEF Adopting
  <2> QED BY <1>1, <1>3, <1>5, <1>7, <2>1, <2>2, OneMoved
<1>8. CASE a \in Pks /\ Continue(u, found)
  <2>1. Scoped(found) BY <1>2, <1>4 DEF Scoped
  <2>2. Unadopted(provs, h.cur) => Adopting(apps, h.cur, found) BY <1>4, <1>8 DEF Adopting
  <2> QED BY <1>1, <1>4, <1>5, <1>8, <2>1, <2>2, OneMoved
<1>9. CASE Caught(u) BY <1>1, <1>5, <1>9, OneCaught DEF Local
<1> QED BY <1>6, <1>7, <1>8, <1>9

LEMMA OneGetManagedApplication ==
  ASSUME TypeOK, One, SingleUnit, NEW u \in Units, GetManagedApplication(u)
  PROVE  One'
<1> DEFINE h == hook[u]
           a == apps[<<"managed", h.cur>>]
<1>1. h.pc = "managedApp" BY DEF GetManagedApplication, GetApplication, At
<1>2. h.cur \in Relations /\ (Unadopted(provs, h.cur) => Adopting(apps, h.cur, h))
  BY <1>1, OneCaller DEF SyncCalls
<1>3. Unadopted(provs, h.cur) => a = AppAbsent /\ apps[LegacyName(h.cur)] = h.cur
  BY <1>1, <1>2 DEF One, Pristine, ManagedName, Adopting
<1>4. AppAbsent \notin Pks BY DEF AppAbsent, Pks
<1>5. PICK b : b = a OBVIOUS
<1> HIDE DEF a
<1> QED BY <1>3, <1>4, <1>5, OneGetApplication DEF GetManagedApplication, SyncCalls, Kinds, a

LEMMA OneGetLegacyApplication ==
  ASSUME TypeOK, One, SingleUnit, NEW u \in Units, GetLegacyApplication(u)
  PROVE  One'
<1> DEFINE h == hook[u]
           a == apps[<<"legacy", h.cur>>]
<1>1. h.pc = "legacyApp" BY DEF GetLegacyApplication, GetApplication, At
<1>2. h.cur \in Relations /\ (Unadopted(provs, h.cur) => Adopting(apps, h.cur, h))
  BY <1>1, OneCaller DEF SyncCalls
<1>3. Unadopted(provs, h.cur) => a = h.cur BY <1>1, <1>2 DEF LegacyName, Adopting
<1>4. Unadopted(provs, h.cur) => a # AppAbsent BY <1>3 DEF AppAbsent, Pks, Unadopted
<1>5. PICK b : b = a OBVIOUS
<1> HIDE DEF a
<1> QED BY <1>3, <1>4, <1>5, OneGetApplication DEF GetLegacyApplication, SyncCalls, Kinds, a

\* A hook that records the provider it holds and goes on to its next call.
LEMMA OnePersisted ==
  ASSUME TypeOK, One, NEW u \in Units, hook[u].pc \in SyncCalls,
         NEW g, g \in HookTypes, g.cache = hook[u].cache, g.active = hook[u].active,
         g.event = hook[u].event, g.todo = hook[u].todo, g.cur = hook[u].cur,
         g.pc \in {"update", "createApp"}, g.slug # "none",
         Unadopted(provs, g.cur) => g.pk = g.cur /\ Adopting(apps, g.cur, g)
  PROVE  HookOne(provs, apps, cache, rel, Persisted(g))
<1> DEFINE e == [pk |-> g.pk, slug |-> g.slug, hash |-> NoHash]
           c == [g.cache EXCEPT ![g.cur] = e]
           f == [g EXCEPT !.cache = c]
<1>1. Persisted(g) = f BY DEF Persisted
<1>2. /\ hook[u].cur \in hook[u].active /\ hook[u].todo \subseteq hook[u].active
      /\ HookOne(provs, apps, cache, rel, hook[u])
  BY OneCaller
<1>3. /\ f.cache = c /\ f.active = g.active /\ f.event = g.event /\ f.todo = g.todo
      /\ f.cur = g.cur /\ f.pc = g.pc /\ f.pk = g.pk
  <2> HIDE DEF c
  <2> QED BY DEF HookTypes
<1>4. Unadopted(provs, g.cur) => Reachable(apps, g.cur, e, FALSE) BY DEF Reachable
<1>5. c = [hook[u].cache EXCEPT ![hook[u].cur] = e] OBVIOUS
<1>6. hook[u].cache \in [Relations -> Entries \cup {NoEntry}] BY DEF TypeOK, HookTypes
<1> HIDE DEF f, c, e
<1>7. Scoped(f) BY <1>2, <1>3 DEF Scoped, SyncCalls
<1>8. Unadopted(provs, f.cur) => Adopting(apps, f.cur, f)
  <2>1. f.cur = g.cur /\ f.pc = g.pc /\ f.pk = g.pk BY <1>3
  <2> HIDE <1>3
  <2> SUFFICES ASSUME Unadopted(provs, g.cur) PROVE Adopting(apps, g.cur, f)
    BY <2>1
  <2>2. g.pc \notin {"mappings", "managedApp", "legacyApp"} OBVIOUS
  <2> QED BY <2>1, <2>2 DEF Adopting
<1>9. /\ f.cache = [hook[u].cache EXCEPT ![hook[u].cur] = e]
      /\ f.active = hook[u].active /\ f.event = hook[u].event /\ f.cur = hook[u].cur
  BY <1>3, <1>5
<1>10. Unadopted(provs, hook[u].cur) => Reachable(apps, hook[u].cur, e, FALSE)
  BY <1>4
<1>11. HookOne(provs, apps, cache, rel, f)
  BY <1>2, <1>6, <1>7, <1>8, <1>9, <1>10, OneEntry
<1> QED BY <1>1, <1>11

LEMMA OneGetCachedProvider ==
  ASSUME TypeOK, One, SingleUnit, NEW u \in Units, GetCachedProvider(u)
  PROVE  One'
<1> DEFINE h == hook[u]
           update == [h EXCEPT !.pc = "update"]
           c == [h.cache EXCEPT ![h.cur] = NoEntry]
           again == [h EXCEPT !.cache = c, !.pc = "managedApp",
                              !.pk = NoPk, !.slug = "managed", !.app = FALSE]
<1>1. h.pc = "cachedProv" BY DEF GetCachedProvider, At
<1>2. /\ h \in HookTypes /\ h.cur \in h.active /\ h.todo \subseteq h.active
      /\ h.cur \in Relations /\ HookOne(provs, apps, cache, rel, h)
      /\ Unadopted(provs, h.cur) => Adopting(apps, h.cur, h)
  BY <1>1, OneCaller DEF SyncCalls
<1>3. /\ update.cache = h.cache /\ update.active = h.active /\ update.event = h.event
      /\ update.todo = h.todo /\ update.cur = h.cur /\ update.pk = h.pk /\ update.pc = "update"
  <2> HIDE DEF h
  <2> QED BY <1>2 DEF HookTypes
<1>4. /\ again.cache = c /\ again.active = h.active /\ again.event = h.event
      /\ again.todo = h.todo /\ again.cur = h.cur /\ again.pc = "managedApp"
  <2> HIDE DEF h, c
  <2> QED BY <1>2 DEF HookTypes
<1>5. h.cache \in [Relations -> Entries \cup {NoEntry}] BY <1>2 DEF HookTypes
<1>6. Local BY DEF GetCachedProvider
<1>7. \/ Continue(u, update)
      \/ ~ProviderExists(provs, h.pk) /\ Continue(u, again)
  BY DEF GetCachedProvider
<1> HIDE DEF update, again
<1>8. CASE Continue(u, update)
  <2>1. Scoped(update) BY <1>2, <1>3 DEF Scoped
  <2>2. Unadopted(provs, h.cur) => Adopting(apps, h.cur, update)
    BY <1>1, <1>2, <1>3 DEF Adopting
  <2> QED BY <1>1, <1>3, <1>6, <1>8, <2>1, <2>2, OneMoved
<1>9. CASE ~ProviderExists(provs, h.pk) /\ Continue(u, again)
  <2>1. ~Unadopted(provs, h.cur)
    BY <1>1, <1>2, <1>9 DEF Adopting, Unadopted, ProviderExists, NoProvider, NoName, LegacyName
  <2>2. Scoped(again) BY <1>2, <1>4 DEF Scoped
  <2>3. h.pc \in SyncCalls BY <1>1 DEF SyncCalls
  <2> HIDE DEF h
  <2>4. HookOne(provs, apps, cache, rel, again)
    BY <1>2, <1>4, <1>5, <2>1, <2>2, <2>3, OneEntry
  <2> QED BY <1>6, <1>9, <2>4, OneLocal DEF Local, authentik, stored, model
<1> QED BY <1>7, <1>8, <1>9

LEMMA OneValidateProvider ==
  ASSUME TypeOK, One, SingleUnit, NEW u \in Units, ValidateProvider(u)
  PROVE  One'
<1> DEFINE h == hook[u]
           g == [h EXCEPT !.pc = "update", !.app = TRUE]
<1>1. h.pc = "validate" BY DEF ValidateProvider, At
<1>2. /\ h \in HookTypes /\ h.slug \in Kinds
      /\ Unadopted(provs, h.cur) => Adopting(apps, h.cur, h)
  BY <1>1, OneCaller DEF SyncCalls
<1>3. /\ g \in HookTypes /\ g.cache = h.cache /\ g.active = h.active /\ g.event = h.event
      /\ g.todo = h.todo /\ g.cur = h.cur /\ g.slug = h.slug /\ g.pk = h.pk /\ g.pc = "update"
  <2> HIDE DEF h
  <2> QED BY <1>2 DEF HookTypes, Positions, Calls, SyncCalls
<1>4. Local BY DEF ValidateProvider
<1>5. Caught(u) \/ Continue(u, Persisted(g)) BY DEF ValidateProvider
<1> HIDE DEF g
<1>6. CASE Caught(u) BY <1>1, <1>4, <1>6, OneCaught DEF Local
<1>7. CASE Continue(u, Persisted(g))
  <2>1. Unadopted(provs, g.cur) => g.pk = g.cur /\ Adopting(apps, g.cur, g)
    BY <1>1, <1>2, <1>3 DEF Adopting
  <2>2. HookOne(provs, apps, cache, rel, Persisted(g))
    BY <1>1, <1>2, <1>3, <2>1, OnePersisted DEF SyncCalls, Kinds
  <2> QED BY <1>4, <1>7, <2>2, OneLocal DEF Local, authentik, stored, model
<1> QED BY <1>5, <1>6, <1>7

LEMMA OneFindProvider ==
  ASSUME TypeOK, One, SingleUnit, NEW u \in Units, FindProvider(u)
  PROVE  One'
<1> DEFINE h == hook[u]
           none == [h EXCEPT !.pc = "create", !.pk = NoPk]
           g(p) == [h EXCEPT !.pc = "update", !.pk = p]
<1>1. h.pc = "find" BY DEF FindProvider, At
<1>2. /\ h \in HookTypes /\ h.slug \in Kinds /\ h.cur \in Relations
      /\ h.cur \in h.active /\ h.todo \subseteq h.active
      /\ Unadopted(provs, h.cur) => Adopting(apps, h.cur, h)
  BY <1>1, OneCaller DEF SyncCalls
<1>3. ~Unadopted(provs, h.cur) BY <1>1, <1>2 DEF Adopting
<1>4. /\ none.cache = h.cache /\ none.active = h.active /\ none.event = h.event
      /\ none.todo = h.todo /\ none.cur = h.cur /\ none.pc = "create"
  <2> HIDE DEF h
  <2> QED BY <1>2 DEF HookTypes
<1>5. \A p \in Pks : /\ g(p) \in HookTypes /\ g(p).cache = h.cache /\ g(p).active = h.active
                     /\ g(p).event = h.event /\ g(p).todo = h.todo /\ g(p).cur = h.cur
                     /\ g(p).slug = h.slug /\ g(p).pc = "update"
  <2> HIDE DEF h
  <2> QED BY <1>2 DEF HookTypes, Positions, Calls, SyncCalls
<1>6. Continue(u, none) \/ \E p \in Pks : Continue(u, Persisted(g(p)))
  BY DEF FindProvider, PksNamed
<1>7. Local BY DEF FindProvider
<1> HIDE DEF none, g
<1>8. CASE Continue(u, none)
  <2>1. Scoped(none) BY <1>2, <1>4 DEF Scoped
  <2> QED BY <1>1, <1>3, <1>4, <1>7, <1>8, <2>1, OneMoved
<1>9. ASSUME NEW p \in Pks, Continue(u, Persisted(g(p))) PROVE One'
  <2>1. HookOne(provs, apps, cache, rel, Persisted(g(p)))
    BY <1>1, <1>2, <1>3, <1>5, OnePersisted DEF SyncCalls, Kinds
  <2> QED BY <1>7, <1>9, <2>1, OneLocal DEF Local, authentik, stored, model
<1> QED BY <1>6, <1>8, <1>9

LEMMA OneCreateProviderConflict ==
  ASSUME TypeOK, One, SingleUnit, NEW u \in Units, CreateProviderConflict(u)
  PROVE  One'
<1> DEFINE h == hook[u]
           g == [h EXCEPT !.pc = "recover"]
<1>1. h.pc = "create" BY DEF CreateProviderConflict, At
<1>2. /\ h \in HookTypes /\ h.cur \in h.active /\ h.todo \subseteq h.active
      /\ Unadopted(provs, h.cur) => Adopting(apps, h.cur, h)
  BY <1>1, OneCaller DEF SyncCalls
<1>3. ~Unadopted(provs, h.cur) BY <1>1, <1>2 DEF Adopting
<1>4. /\ g.cache = h.cache /\ g.active = h.active /\ g.event = h.event
      /\ g.todo = h.todo /\ g.cur = h.cur /\ g.pc = "recover"
  <2> HIDE DEF h
  <2> QED BY <1>2 DEF HookTypes
<1>5. Continue(u, g) /\ Local BY DEF CreateProviderConflict
<1> HIDE DEF g
<1>6. Scoped(g) BY <1>2, <1>4 DEF Scoped
<1> QED BY <1>1, <1>3, <1>4, <1>5, <1>6, OneMoved

\* What a unit goes on with once its provider is created, or found created.
LEMMA OneAfterCreate ==
  ASSUME TypeOK, One, NEW u \in Units, hook[u].pc \in {"create", "recover"}, NEW p \in Pks
  PROVE  /\ ~Unadopted(provs, hook[u].cur)
         /\ HookOne(provs, apps, cache, rel, AfterCreate(hook[u], p))
<1> DEFINE h == hook[u]
           g == [h EXCEPT !.pc = "createApp", !.pk = p, !.made = TRUE]
<1>1. /\ h \in HookTypes /\ h.slug \in Kinds
      /\ Unadopted(provs, h.cur) => Adopting(apps, h.cur, h)
  BY OneCaller DEF SyncCalls
<1>2. ~Unadopted(provs, h.cur) BY <1>1 DEF Adopting
<1>3. AfterCreate(h, p) = Persisted(g) BY DEF AfterCreate
<1>4. /\ g \in HookTypes /\ g.cache = h.cache /\ g.active = h.active /\ g.event = h.event
      /\ g.todo = h.todo /\ g.cur = h.cur /\ g.slug = h.slug /\ g.pc = "createApp"
  <2> HIDE DEF h
  <2> QED BY <1>1 DEF HookTypes, Positions, Calls, SyncCalls
<1> HIDE DEF g
<1> QED BY <1>1, <1>2, <1>3, <1>4, OnePersisted DEF SyncCalls, Kinds

LEMMA OneRecoverProvider ==
  ASSUME TypeOK, One, SingleUnit, NEW u \in Units, RecoverProvider(u)
  PROVE  One'
<1>1. hook[u].pc = "recover" BY DEF RecoverProvider, At
<1>2. ASSUME NEW p \in Pks, Continue(u, AfterCreate(hook[u], p)), Local PROVE One'
  <2>1. HookOne(provs, apps, cache, rel, AfterCreate(hook[u], p)) BY <1>1, OneAfterCreate
  <2> QED BY <1>2, <2>1, OneLocal DEF Local, authentik, stored, model
<1>3. ASSUME Caught(u), Local PROVE One' BY <1>1, <1>3, OneCaught DEF Local
<1> QED BY <1>2, <1>3, OneFailed DEF RecoverProvider, PksNamed

------------------------------------------------------------------------------
(* The steps that write to Authentik.                                        *)

\* Fewer providers to adopt, with their applications.
LEMMA OneFewer ==
  ASSUME NEW ps, NEW as, NEW ps2, NEW as2, NEW ca, NEW rl, NEW h,
         HookOne(ps, as, ca, rl, h),
         \A r \in Relations : Unadopted(ps2, r) =>
           /\ Unadopted(ps, r)
           /\ as[LegacyName(r)] = r => as2[LegacyName(r)] = r
  PROVE  HookOne(ps2, as2, ca, rl, h)
<1>1. ASSUME NEW r \in Relations, Unadopted(ps2, r), h.pc # "idle"
      PROVE  LegacyHook(as2, rl, r, h)
  <2>1. LegacyHook(as, rl, r, h) BY <1>1 DEF HookOne
  <2>2. as[LegacyName(r)] = r => as2[LegacyName(r)] = r BY <1>1
  <2> QED BY <2>1, <2>2 DEF LegacyHook, Reachable, Adopting
<1> QED BY <1>1 DEF HookOne

\* A provider written under a relation's own name, in the place of none but it.
LEMMA OneWritten ==
  ASSUME TypeOK, One, NEW r0 \in Relations, NEW p \in Pks,
         PksNamed(provs, ManagedName(r0)) \subseteq {p},
         Unadopted(provs, r0) => p = r0,
         NEW rec, rec.name = ManagedName(r0),
         NEW ps, ps = WithProvider(provs, p, rec)
  PROVE  /\ NamesOnce(ps)
         /\ \A r \in Relations : Unadopted(ps, r) =>
              r # r0 /\ Unadopted(provs, r) /\ PksNamed(ps, ManagedName(r)) = {}
<1>1. \A q \in Pks : ps[q] = IF q = p THEN rec ELSE provs[q]
  BY DEF WithProvider, TypeOK
<1>2. \A r, q : LegacyName(r) # ManagedName(q) BY DEF LegacyName, ManagedName
<1>3. \A r, q : ManagedName(r) = ManagedName(q) => r = q BY DEF ManagedName
<1>4. \A r \in Relations : r # r0 =>
        PksNamed(ps, ManagedName(r)) \subseteq PksNamed(provs, ManagedName(r))
  BY <1>1, <1>3 DEF PksNamed
<1>5. PksNamed(ps, ManagedName(r0)) \subseteq {p} BY <1>1 DEF PksNamed
<1>6. NamesOnce(ps)
  <2>1. \A r \in Relations : \A a, b \in PksNamed(ps, ManagedName(r)) : a = b
    BY <1>4, <1>5 DEF One, NamesOnce
  <2>2. \A q \in Pks, r \in Relations : ps[q].name = LegacyName(r) => q = r
    BY <1>1, <1>2 DEF One, NamesOnce
  <2> QED BY <2>1, <2>2 DEF NamesOnce
<1>7. ASSUME NEW r \in Relations, Unadopted(ps, r)
      PROVE  r # r0 /\ Unadopted(provs, r) /\ PksNamed(ps, ManagedName(r)) = {}
  <2>1. r # p /\ Unadopted(provs, r) BY <1>1, <1>2, <1>7 DEF Unadopted
  <2>2. r # r0 BY <2>1
  <2>3. PksNamed(provs, ManagedName(r)) = {} BY <2>1 DEF One, Pristine
  <2> QED BY <1>4, <2>1, <2>2, <2>3
<1> QED BY <1>6, <1>7

\* A step of the one hook that writes a provider.
LEMMA OneProviderStep ==
  ASSUME TypeOK, One, SingleUnit, NEW u \in Units, NEW g, Continue(u, g),
         HookOne(provs, apps, cache, rel, g),
         UNCHANGED <<apps, cache, rel, left>>,
         NEW r0 \in Relations,
         \A q \in late' : q \in late \/ q.name = ManagedName(r0),
         NamesOnce(provs'),
         \A r \in Relations : Unadopted(provs', r) =>
           r # r0 /\ Unadopted(provs, r) /\ PksNamed(provs', ManagedName(r)) = {}
  PROVE  One'
<1>1. LateManaged(late') BY DEF One, LateManaged
<1>2. ASSUME NEW r \in Relations, Unadopted(provs', r)
      PROVE  Unadopted(provs, r) /\ Pristine(provs', apps', late', cache, rel, r)
  <2>1. r # r0 /\ Unadopted(provs, r) /\ PksNamed(provs', ManagedName(r)) = {} BY <1>2
  <2>2. Pristine(provs, apps, late, cache, rel, r) BY <2>1 DEF One
  <2>3. \A q \in late' : q.name # ManagedName(r) BY <2>1, <2>2 DEF Pristine, ManagedName
  <2> QED BY <2>1, <2>2, <2>3 DEF Pristine
<1>3. HookOne(provs', apps', cache, rel, g) BY OneFewer
<1> QED BY <1>1, <1>2, <1>3, OneStep

\* A new provider takes the key of none.
LEMMA OneFresh ==
  ASSUME TypeOK, One, NEW r0 \in Relations, ~Unadopted(provs, r0), NEW p \in Pks,
         NameFree(provs, ManagedName(r0)), NEW rec, rec.name = ManagedName(r0),
         NEW ps, ps = WithProvider(provs, p, rec)
  PROVE  /\ NamesOnce(ps)
         /\ \A r \in Relations : Unadopted(ps, r) =>
              r # r0 /\ Unadopted(provs, r) /\ PksNamed(ps, ManagedName(r)) = {}
<1>1. PksNamed(provs, ManagedName(r0)) \subseteq {p} BY DEF NameFree
<1> QED BY <1>1, OneWritten

\* Nothing written.
LEMMA OneUnwritten ==
  ASSUME One, NEW r0 \in Relations, ~Unadopted(provs, r0)
  PROVE  /\ NamesOnce(provs)
         /\ \A r \in Relations : Unadopted(provs, r) =>
              r # r0 /\ Unadopted(provs, r) /\ PksNamed(provs, ManagedName(r)) = {}
BY DEF One, Pristine

LEMMA OneCreateProvider ==
  ASSUME TypeOK, One, SingleUnit, NEW u \in Units, CreateProvider(u)
  PROVE  One'
<1> DEFINE h == hook[u]
<1>1. h.pc = "create" BY DEF CreateProvider, At
<1>2. PICK p \in Pks : /\ NameFree(provs, ManagedName(h.cur))
                       /\ provs' = WithProvider(provs, p, Request(h))
                       /\ Continue(u, AfterCreate(h, p))
  BY DEF CreateProvider, ProviderCreated
<1>3. UNCHANGED <<apps, late, cache, rel, left>> BY DEF CreateProvider, stored, model
<1>4. h.cur \in Relations BY <1>1, OneCaller DEF SyncCalls
<1>5. ~Unadopted(provs, h.cur) /\ HookOne(provs, apps, cache, rel, AfterCreate(h, p))
  BY <1>1, OneAfterCreate
<1>6. Request(h).name = ManagedName(h.cur) BY DEF Request
<1> HIDE DEF h
<1>7. /\ NamesOnce(provs')
      /\ \A r \in Relations : Unadopted(provs', r) =>
           r # h.cur /\ Unadopted(provs, r) /\ PksNamed(provs', ManagedName(r)) = {}
  BY <1>2, <1>4, <1>5, <1>6, OneFresh
<1>8. \A q \in late' : q \in late \/ q.name = ManagedName(h.cur) BY <1>3
<1> QED BY <1>2, <1>3, <1>4, <1>5, <1>7, <1>8, OneProviderStep

LEMMA OneCreateProviderLost ==
  ASSUME TypeOK, One, SingleUnit, NEW u \in Units, CreateProviderLost(u)
  PROVE  One'
<1> DEFINE h == hook[u]
           g == [h EXCEPT !.pc = "recover", !.lost = TRUE]
<1>1. h.pc = "create" BY DEF CreateProviderLost, At
<1>2. /\ h \in HookTypes /\ h.cur \in Relations /\ h.cur \in h.active
      /\ h.todo \subseteq h.active /\ HookOne(provs, apps, cache, rel, h)
      /\ Unadopted(provs, h.cur) => Adopting(apps, h.cur, h)
  BY <1>1, OneCaller DEF SyncCalls
<1>3. ~Unadopted(provs, h.cur) BY <1>1, <1>2 DEF Adopting
<1>4. /\ g.cache = h.cache /\ g.active = h.active /\ g.event = h.event
      /\ g.todo = h.todo /\ g.cur = h.cur /\ g.pc = "recover"
  <2> HIDE DEF h
  <2> QED BY <1>2 DEF HookTypes
<1>5. Continue(u, g) /\ UNCHANGED <<apps, cache, rel, left>>
  BY DEF CreateProviderLost, stored, model
<1>6. \A q \in late' : q \in late \/ q.name = ManagedName(h.cur)
  BY DEF CreateProviderLost, Request
<1>7. \/ provs' = provs
      \/ \E p \in Pks : /\ NameFree(provs, ManagedName(h.cur))
                        /\ provs' = WithProvider(provs, p, Request(h))
  BY DEF CreateProviderLost, ProviderCreated
<1>8. Request(h).name = ManagedName(h.cur) BY DEF Request
<1> HIDE DEF g
<1>9. Scoped(g) BY <1>2, <1>4 DEF Scoped
<1>10. HookOne(provs, apps, cache, rel, g)
  BY <1>1, <1>2, <1>3, <1>4, <1>9, OneSame
<1> HIDE DEF h
<1>11. /\ NamesOnce(provs')
       /\ \A r \in Relations : Unadopted(provs', r) =>
            r # h.cur /\ Unadopted(provs, r) /\ PksNamed(provs', ManagedName(r)) = {}
  <2>1. CASE provs' = provs BY <1>2, <1>3, <2>1, OneUnwritten
  <2>2. CASE provs' # provs
    <3>1. PICK p \in Pks : /\ NameFree(provs, ManagedName(h.cur))
                           /\ provs' = WithProvider(provs, p, Request(h))
      BY <1>7, <2>2
    <3> QED BY <1>2, <1>3, <1>8, <3>1, OneFresh
  <2> QED BY <2>1, <2>2
<1> QED BY <1>2, <1>5, <1>6, <1>10, <1>11, OneProviderStep

LEMMA OneUpdateProvider ==
  ASSUME TypeOK, One, SingleUnit, NEW u \in Units, UpdateProvider(u)
  PROVE  One'
<1> DEFINE h == hook[u]
           g(pc) == [h EXCEPT !.pc = pc]
<1>1. h.pc = "update" BY DEF UpdateProvider, At
<1>2. /\ h \in HookTypes /\ h.cur \in Relations /\ h.cur \in h.active
      /\ h.todo \subseteq h.active /\ HookOne(provs, apps, cache, rel, h)
      /\ Unadopted(provs, h.cur) => Adopting(apps, h.cur, h)
  BY <1>1, OneCaller DEF SyncCalls
<1>3. UNCHANGED <<apps, flows, late, stored, model, failed, budgets>> BY DEF UpdateProvider
<1>4. CASE CaughtStaleFlow(u) /\ provs' = provs
  <2>1. Local BY <1>3, <1>4 DEF Local, authentik
  <2> QED BY <1>1, <1>4, <2>1, OneCaught DEF Local
<1>5. CASE ~(CaughtStaleFlow(u) /\ provs' = provs)
  <2>1. /\ h.pk \in Pks /\ PksNamed(provs, ManagedName(h.cur)) \subseteq {h.pk}
        /\ provs' = WithProvider(provs, h.pk, Request(h))
        /\ Continue(u, g("updateApp")) \/ Continue(u, g("createApp"))
    BY <1>5 DEF UpdateProvider, UpdateAccepted, ProviderExists
  <2>2. Unadopted(provs, h.cur) => h.pk = h.cur BY <1>1, <1>2 DEF Adopting
  <2>3. Request(h).name = ManagedName(h.cur) BY DEF Request
  <2>4. \A pc : /\ g(pc).cache = h.cache /\ g(pc).active = h.active /\ g(pc).event = h.event
                /\ g(pc).todo = h.todo /\ g(pc).cur = h.cur /\ g(pc).pc = pc
    <3> HIDE DEF h
    <3> QED BY <1>2 DEF HookTypes
  <2> HIDE DEF g
  <2>5. PICK f : /\ Continue(u, f) /\ f.cache = h.cache /\ f.active = h.active
                 /\ f.event = h.event /\ f.todo = h.todo /\ f.cur = h.cur
                 /\ f.pc \in {"updateApp", "createApp"}
    BY <2>1, <2>4
  <2> HIDE DEF h
  <2>6. /\ NamesOnce(provs')
        /\ \A r \in Relations : Unadopted(provs', r) =>
             r # h.cur /\ Unadopted(provs, r) /\ PksNamed(provs', ManagedName(r)) = {}
    BY <1>2, <2>1, <2>2, <2>3, OneWritten
  <2>7. Scoped(f) BY <1>2, <2>5 DEF Scoped
  <2>8. HookOne(provs', apps, cache, rel, h) BY <1>2, <2>6, OneFewer
  <2>9. HookOne(provs', apps, cache, rel, f)
    BY <1>1, <1>2, <2>5, <2>6, <2>7, <2>8, OneSame
  <2>10. LateManaged(late') BY <1>3 DEF One
  <2>11. ASSUME NEW r \in Relations, Unadopted(provs', r)
         PROVE  Unadopted(provs, r) /\ Pristine(provs', apps', late', cache, rel, r)
    <3>1. Unadopted(provs, r) /\ PksNamed(provs', ManagedName(r)) = {} BY <2>6, <2>11
    <3> QED BY <1>3, <3>1 DEF One, Pristine
  <2> QED BY <1>3, <2>5, <2>6, <2>9, <2>10, <2>11, OneStep DEF stored, model
<1> QED BY <1>4, <1>5

LEMMA OneLateCreate ==
  ASSUME TypeOK, One, LateCreate
  PROVE  One'
<1>1. PICK q \in late :
        /\ late' = late \ {q}
        /\ \/ NameFree(provs, q.name) /\ \E p \in Pks : provs' = WithProvider(provs, p, q)
           \/ UNCHANGED provs
  BY DEF LateCreate
<1>2. UNCHANGED <<apps, cache, rel, left, hook>> BY DEF LateCreate, stored, model
<1>3. PICK r0 \in Relations : q.name = ManagedName(r0) BY DEF One, LateManaged
<1>4. ~Unadopted(provs, r0) BY <1>3 DEF One, Pristine
<1>5. /\ NamesOnce(provs')
      /\ \A r \in Relations : Unadopted(provs', r) =>
           r # r0 /\ Unadopted(provs, r) /\ PksNamed(provs', ManagedName(r)) = {}
  <2>1. CASE UNCHANGED provs BY <1>4, <2>1, OneUnwritten
  <2>2. CASE ~(UNCHANGED provs)
    <3>1. PICK p \in Pks : provs' = WithProvider(provs, p, q) BY <1>1, <2>2
    <3>2. NameFree(provs, ManagedName(r0)) BY <1>1, <1>3, <2>2
    <3> QED BY <1>3, <1>4, <3>1, <3>2, OneFresh
  <2> QED BY <2>1, <2>2
<1>6. LateManaged(late') BY <1>1 DEF One, LateManaged
<1>7. ASSUME NEW r \in Relations, Unadopted(provs', r)
      PROVE  Pristine(provs', apps', late', cache', rel', r)
  <2>1. Unadopted(provs, r) /\ PksNamed(provs', ManagedName(r)) = {} BY <1>5, <1>7
  <2> QED BY <1>1, <1>2, <2>1 DEF One, Pristine
<1>8. \A u \in Units : HookOne(provs', apps', cache', rel', hook'[u])
  BY <1>2, <1>5, OneFewer DEF One
<1> QED BY <1>2, <1>5, <1>6, <1>7, <1>8 DEF One

\* An application written by a hook that has synchronized its relation.
LEMMA OneSynchronized ==
  ASSUME TypeOK, One, SingleUnit, NEW u \in Units, hook[u].pc \in {"createApp", "updateApp"},
         Continue(u, Synchronized(hook[u])),
         UNCHANGED <<provs, late, cache, rel, left>>,
         \A s \in Slugs : s # SlugOf(hook[u]) => apps'[s] = apps[s]
  PROVE  One'
<1> DEFINE h == hook[u]
           e == [pk |-> h.pk, slug |-> h.slug, hash |-> HashOf(h, h.cur)]
           c == [h.cache EXCEPT ![h.cur] = e]
           g == Synchronized(h)
<1>1. /\ h \in HookTypes /\ h.cur \in Relations /\ h.cur \in h.active
      /\ h.todo \subseteq h.active /\ HookOne(provs, apps, cache, rel, h)
      /\ Unadopted(provs, h.cur) => Adopting(apps, h.cur, h)
  BY OneCaller DEF SyncCalls
<1>2. ~Unadopted(provs, h.cur) BY <1>1 DEF Adopting
<1>3. /\ g.cache = c /\ g.active = h.active /\ g.event = h.event
      /\ g.todo = h.todo \ {h.cur} /\ g.pc = "next"
  <2> DEFINE b == [h.bag EXCEPT ![h.cur] = [creds |-> h.creds, slug |-> h.slug]]
  <2>1. g = [h EXCEPT !.pc = "next", !.todo = h.todo \ {h.cur}, !.cur = 0, !.bag = b,
               !.cache = c, !.creds = NoCred, !.slug = "none", !.pk = NoPk,
               !.app = FALSE, !.made = FALSE, !.lost = FALSE]
    BY DEF Synchronized
  <2> HIDE DEF h, c, b, g
  <2> QED BY <1>1, <2>1 DEF HookTypes
<1>4. h.cache \in [Relations -> Entries \cup {NoEntry}] BY <1>1 DEF HookTypes
<1>5. Scoped(g)
  <2> HIDE DEF g, h
  <2> QED BY <1>1, <1>3 DEF Scoped, SyncCalls
<1>6. HookOne(provs, apps, cache, rel, g)
  <2>1. h.pc \in SyncCalls /\ g.pc \notin SyncCalls BY <1>3 DEF SyncCalls
  <2> HIDE DEF g, h, e
  <2>2. Unadopted(provs, h.cur) => Reachable(apps, h.cur, e, FALSE) BY <1>2
  <2>3. g.pc \in SyncCalls /\ Unadopted(provs, g.cur) => g.cur = h.cur /\ Adopting(apps, g.cur, g)
    BY <2>1
  <2> HIDE DEF c
  <2>4. g.cache = [h.cache EXCEPT ![h.cur] = e] BY <1>3 DEF c
  <2> QED BY <1>1, <1>3, <1>4, <1>5, <2>1, <2>2, <2>3, <2>4, OneEntry
<1>7. ASSUME NEW r \in Relations, Unadopted(provs, r)
      PROVE  apps'[LegacyName(r)] = apps[LegacyName(r)]
             /\ apps'[ManagedName(r)] = apps[ManagedName(r)]
  <2>1. r # h.cur BY <1>2, <1>7
  <2>2. /\ LegacyName(r) \in Slugs /\ LegacyName(r) # SlugOf(h)
        /\ ManagedName(r) \in Slugs /\ ManagedName(r) # SlugOf(h)
    BY <2>1 DEF LegacyName, ManagedName, SlugOf, Slugs, Kinds
  <2> QED BY <2>2
<1>8. HookOne(provs', apps', cache, rel, g)
  <2> HIDE DEF g
  <2>1. \A r \in Relations : Unadopted(provs', r) =>
          Unadopted(provs, r) /\ apps'[LegacyName(r)] = apps[LegacyName(r)]
    BY <1>7
  <2> QED BY <1>6, <2>1, OneFewer
<1>9. NamesOnce(provs') /\ LateManaged(late') BY DEF One
<1>10. ASSUME NEW r \in Relations, Unadopted(provs', r)
       PROVE  Unadopted(provs, r) /\ Pristine(provs', apps', late', cache, rel, r)
  <2>1. Unadopted(provs, r) BY <1>10
  <2>2. Pristine(provs, apps, late, cache, rel, r) BY <2>1 DEF One
  <2>3. apps'[LegacyName(r)] = apps[LegacyName(r)] /\ apps'[ManagedName(r)] = apps[ManagedName(r)]
    BY <1>7, <2>1
  <2> QED BY <2>1, <2>2, <2>3 DEF Pristine, Reachable
<1> HIDE DEF g
<1> QED BY <1>8, <1>9, <1>10, OneStep DEF g

LEMMA OneCreateApplication ==
  ASSUME TypeOK, One, SingleUnit, NEW u \in Units, CreateApplication(u)
  PROVE  One'
<1>1. hook[u].pc = "createApp" BY DEF CreateApplication, At
<1>2. \A s \in Slugs : s # SlugOf(hook[u]) => apps'[s] = apps[s]
  BY DEF CreateApplication, WithApp, TypeOK
<1> QED BY <1>1, <1>2, OneSynchronized DEF CreateApplication, stored, model

LEMMA OneCreateApplicationRefused ==
  ASSUME TypeOK, One, SingleUnit, NEW u \in Units, CreateApplicationRefused(u)
  PROVE  One'
<1>1. hook[u].pc = "createApp" BY DEF CreateApplicationRefused, At
<1>2. Local BY DEF CreateApplicationRefused
<1>3. CASE Continue(u, Synchronized(hook[u]))
  BY <1>1, <1>2, <1>3, OneSynchronized DEF Local, authentik, stored, model
<1>4. CASE Caught(u) \/ CaughtStaleFlow(u) BY <1>1, <1>2, <1>4, OneCaught DEF Local
<1> QED BY <1>3, <1>4 DEF CreateApplicationRefused

LEMMA OneUpdateApplication ==
  ASSUME TypeOK, One, SingleUnit, NEW u \in Units, UpdateApplication(u)
  PROVE  One'
<1>1. hook[u].pc = "updateApp" BY DEF UpdateApplication, At
<1>2. UNCHANGED <<provs, flows, late, stored, model, failed, budgets>> BY DEF UpdateApplication
<1>3. CASE CaughtStaleFlow(u) /\ apps' = apps
  <2>1. Local BY <1>2, <1>3 DEF Local, authentik
  <2> QED BY <1>1, <1>3, <2>1, OneCaught DEF Local
<1>4. CASE ~(CaughtStaleFlow(u) /\ apps' = apps)
  <2>1. /\ apps' = WithApp(apps, SlugOf(hook[u]), hook[u].pk)
        /\ Continue(u, Synchronized(hook[u]))
    BY <1>4 DEF UpdateApplication
  <2>2. \A s \in Slugs : s # SlugOf(hook[u]) => apps'[s] = apps[s]
    BY <2>1 DEF WithApp, TypeOK
  <2> QED BY <1>1, <1>2, <2>1, <2>2, OneSynchronized DEF stored, model
<1> QED BY <1>3, <1>4

LEMMA OneCollectNext ==
  ASSUME TypeOK, One, SingleUnit, NEW u \in Units, CollectNext(u)
  PROVE  One'
<1> DEFINE h == hook[u]
           done == [h EXCEPT !.pc = "commit"]
           g(r, pc) == [h EXCEPT !.cur = r, !.pk = h.cache[r].pk, !.pc = pc]
<1>1. h.pc = "gc" BY DEF CollectNext, At
<1>2. h \in HookTypes /\ Scoped(h) BY <1>1, OneHook
<1>3. /\ done.cache = h.cache /\ done.active = h.active /\ done.event = h.event
      /\ done.todo = h.todo /\ done.pc = "commit"
  <2> HIDE DEF h
  <2> QED BY <1>2 DEF HookTypes
<1>4. \A r \in Relations, pc \in {"gcApp", "gcProv"} :
        /\ g(r, pc).cache = h.cache /\ g(r, pc).active = h.active /\ g(r, pc).event = h.event
        /\ g(r, pc).todo = h.todo /\ g(r, pc).cur = r /\ g(r, pc).pk = h.cache[r].pk
        /\ g(r, pc).pc = pc
  <2> HIDE DEF h
  <2> QED BY <1>2 DEF HookTypes
<1>5. \/ Continue(u, done)
      \/ \E r \in Relations \ h.active : Continue(u, g(r, "gcApp")) \/ Continue(u, g(r, "gcProv"))
  <2>1. ASSUME NEW r \in Orphans(h),
               Continue(u, g(r, IF h.cache[r].slug # "none" THEN "gcApp" ELSE "gcProv"))
        PROVE  r \in Relations \ h.active
               /\ (Continue(u, g(r, "gcApp")) \/ Continue(u, g(r, "gcProv")))
    <3>1. r \in Relations \ h.active BY DEF Orphans
    <3>2. CASE h.cache[r].slug # "none" BY <2>1, <3>1, <3>2
    <3>3. CASE h.cache[r].slug = "none" BY <2>1, <3>1, <3>3
    <3> QED BY <3>2, <3>3
  <2> QED BY <2>1 DEF CollectNext
<1>6. Local BY DEF CollectNext
<1> HIDE DEF done, g
<1>7. CASE Continue(u, done)
  <2>1. Scoped(done) BY <1>2, <1>3 DEF Scoped, SyncCalls
  <2> QED BY <1>1, <1>3, <1>6, <1>7, <2>1, OneMoved DEF SyncCalls
<1>8. ASSUME NEW r \in Relations \ h.active, NEW pc \in {"gcApp", "gcProv"},
             Continue(u, g(r, pc))
      PROVE  One'
  <2>1. Scoped(g(r, pc)) BY <1>2, <1>4 DEF Scoped, SyncCalls
  <2>2. g(r, pc).pc \notin SyncCalls BY <1>4 DEF SyncCalls
  <2> QED BY <1>1, <1>4, <1>6, <1>8, <2>1, <2>2, OneMoved
<1> QED BY <1>5, <1>7, <1>8

\* A hook that collects goes on with less of the relation's entry.
LEMMA OneCollected ==
  ASSUME NEW ps, NEW as, NEW ca, NEW rl, NEW h, HookOne(ps, as, ca, rl, h), h.pc # "idle",
         h.cache \in [Relations -> Entries \cup {NoEntry}], h.cur \notin h.active,
         NEW e, e.slug = "none",
         NEW g, g.cache = [h.cache EXCEPT ![h.cur] = e], g.active = h.active,
         g.event = h.event, Scoped(g), g.pc \notin SyncCalls,
         NEW ps2, NEW as2,
         \A r \in Relations : Unadopted(ps2, r) =>
           /\ Unadopted(ps, r)
           /\ r # h.cur => (as[LegacyName(r)] = r => as2[LegacyName(r)] = r)
           /\ r = h.cur => e.pk = r
  PROVE  HookOne(ps2, as2, ca, rl, g)
<1>1. Steady(ca, g) BY DEF HookOne, Steady
<1>2. ASSUME NEW r \in Relations, Unadopted(ps2, r) PROVE LegacyHook(as2, rl, r, g)
  <2>1. LegacyHook(as, rl, r, h) BY <1>2 DEF HookOne
  <2>2. Reachable(as2, r, g.cache[r], r \notin g.active)
    <3>1. CASE r = h.cur BY <1>2, <3>1 DEF Reachable
    <3>2. CASE r # h.cur
      <4>1. g.cache[r] = h.cache[r] BY <3>2
      <4>2. as[LegacyName(r)] = r => as2[LegacyName(r)] = r BY <1>2, <3>2
      <4> QED BY <2>1, <4>1, <4>2 DEF LegacyHook, Reachable
    <3> QED BY <3>1, <3>2
  <2> QED BY <2>1, <2>2 DEF LegacyHook
<1> QED BY <1>1, <1>2 DEF HookOne

LEMMA OneDeleteApplication ==
  ASSUME TypeOK, One, SingleUnit, NEW u \in Units, DeleteApplication(u)
  PROVE  One'
<1> DEFINE h == hook[u]
           e == h.cache[h.cur]
           s == <<e.slug, h.cur>>
           e2 == [e EXCEPT !.slug = "none", !.hash = NoHash]
           c == [h.cache EXCEPT ![h.cur] = e2]
           g == [h EXCEPT !.pc = "gcProv", !.cache = c]
<1>1. h.pc = "gcApp" BY DEF DeleteApplication, At
<1>2. h \in HookTypes /\ h.cur \in Relations /\ e \in Entries /\ h.pk \in Pks
  BY <1>1, CollectingHook
<1>3. e.slug \in Kinds BY <1>1, HookWellFormed DEF WellFormed, HookShape
<1>4. /\ HookOne(provs, apps, cache, rel, h) /\ Scoped(h) /\ Steady(cache, h)
      /\ h.cur \notin h.active /\ h.pk = e.pk /\ h.todo \subseteq h.active
  BY <1>1, OneHook DEF Scoped
<1>5. /\ UNCHANGED <<provs, late, cache, rel, left>>
      /\ apps' = WithoutApp(apps, s)
  BY DEF DeleteApplication, stored, model
<1>6. [h EXCEPT !.pc = "gcProv", !.cache[h.cur].slug = "none", !.cache[h.cur].hash = NoHash]
        = g
  <2> HIDE DEF h
  <2> QED BY <1>2 DEF HookTypes
<1>7. Continue(u, g) BY <1>6 DEF DeleteApplication
<1>8. e2.slug = "none" /\ e2.pk = e.pk
  <2> HIDE DEF e
  <2> QED BY <1>2 DEF Entries
<1>9. /\ g.cache = c /\ g.active = h.active /\ g.event = h.event /\ g.todo = h.todo
      /\ g.pc = "gcProv" /\ g.cur = h.cur /\ g.pk = h.pk
  <2> HIDE DEF h, c
  <2> QED BY <1>2 DEF HookTypes
<1>10. h.cache \in [Relations -> Entries \cup {NoEntry}] BY <1>2 DEF HookTypes
<1>11. \A r \in Relations : apps'[ManagedName(r)] \in {apps[ManagedName(r)], AppAbsent}
         /\ (r # h.cur => apps'[LegacyName(r)] = apps[LegacyName(r)])
  <2> HIDE DEF h, e
  <2> QED BY <1>5 DEF WithoutApp, ManagedName, LegacyName, Slugs, Kinds, TypeOK
<1>12. Unadopted(provs, h.cur) => e.pk = h.cur
  <2>1. h.pc # "idle" /\ NoPk \notin Pks BY <1>1 DEF NoPk, Pks
  <2>2. Unadopted(provs, h.cur) => e.pk \in {NoPk, h.cur}
    BY <1>2, <1>4, <2>1 DEF HookOne, LegacyHook, Reachable
  <2> HIDE DEF h, e
  <2> QED BY <1>2, <1>4, <2>1, <2>2
<1>13. Scoped(g)
  <2>1. c[h.cur] = e2 BY <1>2, <1>10
  <2> HIDE DEF h, e, e2, c, g
  <2> QED BY <1>4, <1>8, <1>9, <2>1 DEF Scoped, SyncCalls
<1>14. HookOne(provs', apps', cache, rel, g)
  <2>1. h.pc # "idle" /\ g.pc \notin SyncCalls BY <1>1, <1>9 DEF SyncCalls
  <2> HIDE DEF h, e, e2, g
  <2>2. \A r \in Relations : Unadopted(provs', r) =>
          /\ Unadopted(provs, r)
          /\ r # h.cur => (apps[LegacyName(r)] = r => apps'[LegacyName(r)] = r)
          /\ r = h.cur => e2.pk = r
    BY <1>5, <1>8, <1>11, <1>12
  <2> QED BY <1>4, <1>8, <1>9, <1>10, <1>13, <2>1, <2>2, OneCollected
<1>15. ASSUME NEW r \in Relations, Unadopted(provs', r)
       PROVE  Unadopted(provs, r) /\ Pristine(provs', apps', late', cache, rel, r)
  <2>1. Unadopted(provs, r) BY <1>5, <1>15
  <2>2. Pristine(provs, apps, late, cache, rel, r) BY <2>1 DEF One
  <2>3. Reachable(apps', r, cache[r], rel[r] = "gone")
    <3>1. CASE r = h.cur
      <4>1. cache[r] = e BY <1>3, <1>4, <3>1 DEF Steady, Kinds
      <4> QED BY <1>3, <1>12, <2>1, <3>1, <4>1 DEF Reachable, Kinds
    <3>2. CASE r # h.cur BY <1>11, <2>2, <3>2 DEF Pristine, Reachable
    <3> QED BY <3>1, <3>2
  <2> HIDE DEF h, e
  <2> QED BY <1>5, <1>11, <2>1, <2>2, <2>3 DEF Pristine
<1>16. NamesOnce(provs') /\ LateManaged(late') BY <1>5 DEF One
<1> HIDE DEF g
<1> QED BY <1>5, <1>7, <1>14, <1>15, <1>16, OneStep

LEMMA OneDeleteProvider ==
  ASSUME TypeOK, One, SingleUnit, NEW u \in Units, DeleteProvider(u)
  PROVE  One'
<1> DEFINE h == hook[u]
           c == [h.cache EXCEPT ![h.cur] = NoEntry]
           g == Forgotten(h)
<1>1. h.pc = "gcProv" BY DEF DeleteProvider, At
<1>2. h \in HookTypes /\ h.cur \in Relations /\ h.pk \in Pks BY <1>1, CollectingHook
<1>3. /\ HookOne(provs, apps, cache, rel, h) /\ Scoped(h)
      /\ h.cur \notin h.active /\ h.pk = h.cache[h.cur].pk
  BY <1>1, OneHook DEF Scoped
<1>4. /\ provs' = WithoutProvider(provs, h.pk) /\ apps' = Detach(apps, h.pk)
      /\ UNCHANGED <<late, cache, rel, left>> /\ Continue(u, g)
  BY DEF DeleteProvider, stored, model
<1>5. /\ g.cache = c /\ g.active = h.active /\ g.event = h.event /\ g.todo = h.todo
      /\ g.pc = "gc"
  <2> HIDE DEF h
  <2> QED BY <1>2 DEF HookTypes, Forgotten
<1>6. h.cache \in [Relations -> Entries \cup {NoEntry}] BY <1>2 DEF HookTypes
<1>7. \A p \in Pks : provs'[p] = IF p = h.pk THEN NoProvider ELSE provs[p]
  <2> HIDE DEF h
  <2> QED BY <1>4 DEF WithoutProvider, TypeOK
<1>8. \A r, q : NoProvider.name # LegacyName(r) /\ NoProvider.name # ManagedName(q)
  BY DEF NoProvider, NoName, LegacyName, ManagedName
<1>9. \A r \in Relations : Unadopted(provs', r) => r # h.pk /\ Unadopted(provs, r)
  <2> HIDE DEF h
  <2> QED BY <1>7, <1>8 DEF Unadopted
<1>10. ~Unadopted(provs', h.cur)
  <2>1. h.pc # "idle" /\ NoPk \notin Pks BY <1>1 DEF NoPk, Pks
  <2>2. Unadopted(provs, h.cur) => h.pk \in {NoPk, h.cur}
    BY <1>2, <1>3, <2>1 DEF HookOne, LegacyHook, Reachable
  <2> HIDE DEF h
  <2> QED BY <1>2, <1>9, <2>1, <2>2
<1>11. \A r \in Relations : r # h.pk =>
         /\ apps[LegacyName(r)] = r => apps'[LegacyName(r)] = r
         /\ apps[ManagedName(r)] = AppAbsent => apps'[ManagedName(r)] = AppAbsent
  <2>1. AppAbsent \notin Pks BY DEF AppAbsent, Pks
  <2> HIDE DEF h
  <2> QED BY <1>2, <1>4, <2>1 DEF Detach, LegacyName, ManagedName, Slugs, Kinds
<1>12. Scoped(g)
  <2> HIDE DEF h, g
  <2> QED BY <1>3, <1>5 DEF Scoped, SyncCalls
<1>13. HookOne(provs', apps', cache, rel, g)
  <2>1. h.pc # "idle" /\ g.pc \notin SyncCalls /\ NoEntry.slug = "none"
    BY <1>1, <1>5 DEF SyncCalls, NoEntry
  <2> HIDE DEF h, g
  <2>2. \A r \in Relations : Unadopted(provs', r) =>
          /\ Unadopted(provs, r)
          /\ r # h.cur => (apps[LegacyName(r)] = r => apps'[LegacyName(r)] = r)
          /\ r = h.cur => NoEntry.pk = r
    BY <1>9, <1>10, <1>11
  <2> QED BY <1>3, <1>5, <1>6, <1>12, <2>1, <2>2, OneCollected
<1>14. ASSUME NEW r \in Relations, Unadopted(provs', r)
       PROVE  Unadopted(provs, r) /\ Pristine(provs', apps', late', cache, rel, r)
  <2>1. r # h.pk /\ Unadopted(provs, r) BY <1>9, <1>14
  <2>2. Pristine(provs, apps, late, cache, rel, r) BY <2>1 DEF One
  <2>3. PksNamed(provs', ManagedName(r)) = {} BY <1>7, <1>8, <2>2 DEF PksNamed, Pristine
  <2> HIDE DEF h
  <2> QED BY <1>4, <1>11, <2>1, <2>2, <2>3 DEF Pristine, Reachable
<1>15. NamesOnce(provs')
  <2> HIDE DEF h
  <2>1. \A r \in Relations : PksNamed(provs', ManagedName(r)) \subseteq PksNamed(provs, ManagedName(r))
    BY <1>7, <1>8 DEF PksNamed
  <2>2. \A p \in Pks, r \in Relations : provs'[p].name = LegacyName(r) => p = r
    BY <1>7, <1>8 DEF One, NamesOnce
  <2> QED BY <2>1, <2>2 DEF One, NamesOnce
<1>16. LateManaged(late') BY <1>4 DEF One
<1> HIDE DEF g
<1> QED BY <1>4, <1>13, <1>14, <1>15, <1>16, OneStep

------------------------------------------------------------------------------
(* The end of a hook, and what happens outside.                              *)

\* What is gone stays gone, and what a unit has left is gone.
Departed ==
  /\ \A u \in Units, r \in Relations : r \in left'[u] => rel'[r] = "gone"
  /\ \A r \in Relations : rel[r] = "gone" => rel'[r] = "gone"
  /\ \A r \in Relations : rel[r] # "none" => rel'[r] # "none"

LEMMA OneLeaving ==
  ASSUME TypeOK, One, SingleUnit, NEW u \in Units, NEW e \in Relations,
         left' = [left EXCEPT ![u] = @ \cup {e}], rel' = AfterLeaving(e, left')
  PROVE  Departed /\ rel'[e] = "gone"
<1>1. \A v \in Units : left'[v] = left[v] \cup {e} BY DEF SingleUnit, TypeOK
<1>2. rel' = [rel EXCEPT ![e] = "gone"] BY <1>1 DEF AfterLeaving
<1>3. \A r \in Relations : rel'[r] = IF r = e THEN "gone" ELSE rel[r]
  BY <1>2 DEF TypeOK
<1> QED BY <1>1, <1>3 DEF One, Departed

LEMMA OneElsewhere ==
  ASSUME One, UNCHANGED <<provs, apps, late, cache, hook>>, Departed
  PROVE  One'
<1>1. ASSUME NEW r \in Relations, Unadopted(provs', r)
      PROVE  Pristine(provs', apps', late', cache', rel', r)
  BY <1>1 DEF One, Pristine, Reachable, Departed
<1>2. ASSUME NEW u \in Units PROVE HookOne(provs', apps', cache', rel', hook'[u])
  BY DEF One, HookOne, LegacyHook, Departed
<1>3. NamesOnce(provs') /\ LateManaged(late') BY DEF One
<1> QED BY <1>1, <1>2, <1>3 DEF One, Departed

LEMMA OneCommit ==
  ASSUME TypeOK, One, SingleUnit, NEW u \in Units, Commit(u)
  PROVE  One'
<1> DEFINE h == hook[u]
<1>1. UNCHANGED authentik /\ h.pc # "idle" BY DEF Commit, At
<1>2. CASE HookFailed(u) BY <1>1, <1>2, OneFailed
<1>3. CASE ~HookFailed(u)
  <2>1. /\ FinishEvent(u) /\ Continue(u, IdleHook)
        /\ cache' = h.cache \/ cache' = cache
    BY <1>3 DEF Commit
  <2>2. h.event \in Events BY DEF TypeOK, HookTypes
  <2>3. Departed /\ \A r \in Relations : r = h.event => rel'[r] = "gone"
    <3>1. CASE h.event = Ordinary
      <4>1. Ordinary \notin Relations BY StoreAssumption DEF Ordinary
      <4> QED BY <2>1, <3>1, <4>1 DEF FinishEvent, Departed, One
    <3>2. CASE h.event # Ordinary
      BY <2>1, <2>2, <3>2, OneLeaving DEF FinishEvent, Events
    <3> QED BY <3>1, <3>2
  <2>4. ASSUME NEW r \in Relations, Unadopted(provs, r)
        PROVE  Pristine(provs, apps, late, cache', rel', r)
    <3>1. Pristine(provs, apps, late, cache, rel, r) BY <2>4 DEF One
    <3>2. LegacyHook(apps, rel, r, h) BY <1>1, <2>4, OneHook DEF HookOne
    <3>3. Reachable(apps, r, cache'[r], rel'[r] = "gone")
      <4>1. CASE cache' = cache BY <2>3, <3>1, <4>1 DEF Pristine, Reachable, Departed
      <4>2. CASE cache' = h.cache BY <2>3, <3>2, <4>2 DEF LegacyHook, Reachable, Departed
      <4> QED BY <2>1, <4>1, <4>2
    <3> QED BY <2>3, <3>1, <3>3 DEF Pristine, Departed
  <2>5. \A v \in Units : HookOne(provs', apps', cache', rel', hook'[v])
    BY <2>1, OneIdle DEF SingleUnit, Continue, TypeOK
  <2> QED BY <1>1, <2>3, <2>4, <2>5 DEF One, Departed, authentik
<1> QED BY <1>2, <1>3

LEMMA OneHandleEvent ==
  ASSUME TypeOK, One, SingleUnit, NEW u \in Units, NEW e \in Events, HandleEvent(u, e)
  PROVE  One'
<1>1. UNCHANGED <<provs, apps, late, cache, hook>> BY DEF HandleEvent, authentik, stored
<1>2. Departed
  <2>1. CASE e = Ordinary BY <2>1 DEF HandleEvent, Departed, One
  <2>2. CASE e # Ordinary BY <2>2, OneLeaving DEF HandleEvent, Events
  <2> QED BY <2>1, <2>2
<1> QED BY <1>1, <1>2, OneElsewhere

LEMMA OneEnvironment ==
  ASSUME TypeOK, One, SingleUnit, NoTampering, Environment
  PROVE  One'
<1>1. ~Tamper BY DEF Tamper, NoTampering, TypeOK
<1>2. ASSUME NEW r \in Relations, Integrate(r) PROVE One'
  BY <1>2, OneElsewhere DEF Integrate, Departed, One, TypeOK, authentik, stored
<1>3. ASSUME NEW r \in Relations, ChangeConf(r) PROVE One'
  BY <1>3, OneElsewhere DEF ChangeConf, Departed, One, authentik, stored
<1>4. ASSUME NEW r \in Relations, RemoveRelation(r) PROVE One'
  BY <1>4, OneElsewhere DEF RemoveRelation, Departed, One, TypeOK, authentik, stored
<1>5. ASSUME NEW u \in Units, ResolveWithoutRetry(u) PROVE One'
  <2>1. PICK e \in Events :
          /\ left' = IF e = Ordinary THEN left ELSE [left EXCEPT ![u] = @ \cup {e}]
          /\ rel' = IF e = Ordinary THEN rel ELSE AfterLeaving(e, left')
    BY <1>5 DEF ResolveWithoutRetry, TypeOK
  <2>2. Departed
    <3>1. CASE e = Ordinary BY <2>1, <3>1 DEF Departed, One
    <3>2. CASE e # Ordinary BY <2>1, <3>2, OneLeaving DEF Events
    <3> QED BY <3>1, <3>2
  <2>3. UNCHANGED <<provs, apps, late, cache, hook>>
    BY <1>5 DEF ResolveWithoutRetry, authentik, stored
  <2> QED BY <2>2, <2>3, OneElsewhere
<1> QED BY <1>1, <1>2, <1>3, <1>4, <1>5, OneLateCreate
       DEF Environment, ClientSecretLost, AdminDeletesProvider, AdminDeletesApplication,
           AdminRecreatesFlow

LEMMA OneDiscovery ==
  ASSUME TypeOK, One, SingleUnit, NEW u \in Units, Discovery(u)
  PROVE  One'
BY OneGetCachedApplication, OneGetCachedProvider, OneGetManagedApplication,
   OneGetLegacyApplication, OneValidateProvider, OneFindProvider DEF Discovery

LEMMA OneWrites ==
  ASSUME TypeOK, One, SingleUnit, NEW u \in Units, Writes(u)
  PROVE  One'
<1>1. CASE CreateProviderInvalid(u) BY <1>1, OneCaught DEF Local, CreateProviderInvalid, At
<1> QED BY <1>1, OneCreateProvider, OneCreateProviderConflict, OneRecoverProvider,
       OneUpdateProvider, OneCreateApplication, OneCreateApplicationRefused,
       OneUpdateApplication DEF Writes

LEMMA OneFaults ==
  ASSUME TypeOK, One, SingleUnit, NEW u \in Units, Faults(u)
  PROVE  One'
<1>1. CASE HookFails(u) BY <1>1, OneFailed DEF HookFails
<1>2. CASE CallRefused(u)
  <2>1. hook[u].pc # "idle" BY <1>2 DEF CallRefused, At, Calls, SyncCalls
  <2> QED BY <1>2, <2>1, OneCaught DEF CallRefused
<1>3. CASE CreateProviderLost(u) BY <1>3, OneCreateProviderLost
<1>4. CASE Elect(u) BY <1>4, OneElsewhere DEF Elect, Departed, One, authentik, stored
<1>5. CASE \E e \in Events : SkippedHook(u, e) BY <1>5, OneHandleEvent DEF SkippedHook
<1> QED BY <1>1, <1>2, <1>3, <1>4, <1>5 DEF Faults

LEMMA OneNext ==
  ASSUME TypeOK, One, SingleUnit, NoTampering, Next
  PROVE  One'
<1>1. ASSUME NEW u \in Units, HookStep(u) PROVE One'
  BY <1>1, OneResolveFlow, OneSkipRelation, OneBeginRelation, OneToGarbage,
     OneResolveMappings, OneDiscovery, OneWrites, OneCollectNext, OneDeleteApplication,
     OneDeleteProvider, OneCommit DEF HookStep, Collection
<1>2. ASSUME NEW u \in Units, NEW e \in Events, Dispatch(u, e) PROVE One'
  BY <1>2, OneStartHook, OneHandleEvent DEF Dispatch, FollowerHook
<1> QED BY <1>1, <1>2, OneFaults, OneEnvironment DEF Next

LEMMA OneInit ==
  ASSUME Init
  PROVE  One
<1>1. \A r, q : LegacyName(r) = LegacyName(q) => r = q BY DEF LegacyName
<1>2. \A r, q : LegacyName(r) # ManagedName(q) /\ Foreign # ManagedName(q)
                /\ NoName # ManagedName(q) /\ Foreign # LegacyName(q) /\ NoName # LegacyName(q)
  BY DEF LegacyName, ManagedName, Foreign, NoName
<1>3. \A p \in Pks :
        \/ provs[p].name \in {Foreign, NoName}
        \/ p \in Relations /\ provs[p].name = LegacyName(p) /\ apps[LegacyName(p)] = p
           /\ rel[p] = "active"
  BY DEF Init, NoProvider, LegacyName, Slugs, Kinds
<1>4. \A r \in Relations : apps[ManagedName(r)] = AppAbsent
  BY DEF Init, ManagedName, Slugs, Kinds
<1>5. \A r \in Relations : cache[r].pk = NoPk BY DEF Init, NoEntry
<1>6. late = {} /\ \A u \in Units : hook[u] = IdleHook /\ left[u] = {} BY DEF Init
<1>7. \A r \in Relations : PksNamed(provs, ManagedName(r)) = {} BY <1>2, <1>3 DEF PksNamed
<1>8. NamesOnce(provs) BY <1>1, <1>2, <1>3, <1>7 DEF NamesOnce
<1>9. ASSUME NEW r \in Relations, Unadopted(provs, r)
      PROVE  Pristine(provs, apps, late, cache, rel, r)
  <2>1. apps[LegacyName(r)] = r /\ rel[r] = "active"
    BY <1>2, <1>3, <1>9 DEF Unadopted
  <2> QED BY <1>4, <1>5, <1>6, <1>7, <2>1 DEF Pristine, Reachable
<1> QED BY <1>6, <1>8, <1>9, OneIdle DEF One, LateManaged

------------------------------------------------------------------------------

\* However often a create is cut short and taken up again, and whatever an
\* earlier revision has left, a relation never owns two providers: for any
\* number of relations and faults, in a deployment of one unit.
THEOREM SingleProvider ==
  ASSUME SingleUnit, NoTampering
  PROVE  Spec => []OneProviderPerRelation
<1>1. Init => One BY OneInit
<1>2. TypeOK /\ One /\ [Next]_vars => One'
  <2>1. ASSUME One, UNCHANGED vars PROVE One'
    BY <2>1, OneElsewhere DEF vars, authentik, stored, model, Departed, One
  <2> QED BY <2>1, OneNext
<1>3. One => OneProviderPerRelation BY OneSuffices
<1> QED BY <1>1, <1>2, <1>3, TypeCorrect, PTL DEF Spec

------------------------------------------------------------------------------
(* Where no earlier revision has left a provider there may be any number of  *)
(* units, and an administrator.                                              *)

NothingAdoptable == "owned" \notin LegacyStates

NoLegacyName(ps) == \A p \in Pks, r \in Relations : ps[p].name # LegacyName(r)

Unique == NamesOnce(provs) /\ NoLegacyName(provs) /\ LateManaged(late)

LEMMA UniqueSuffices == ASSUME Unique PROVE OneProviderPerRelation
<1> SUFFICES ASSUME NEW r \in Relations PROVE Cardinality(ProvidersOf(r)) <= 1
  BY DEF OneProviderPerRelation
<1>1. \A p, q \in ProvidersOf(r) : p = q
  BY DEF Unique, NamesOnce, NoLegacyName, ProvidersOf, NamesOf, PksNamed
<1>2. CASE ProvidersOf(r) = {} BY <1>2, FS_EmptySet
<1>3. CASE ProvidersOf(r) # {}
  <2>1. PICK p : p \in ProvidersOf(r) BY <1>3
  <2>2. ProvidersOf(r) = {p} BY <1>1, <2>1
  <2>3. Cardinality({p}) = 1 BY FS_Singleton
  <2> QED BY <2>2, <2>3
<1> QED BY <1>2, <1>3

\* A provider written under a relation's own name, in the place of none but it.
LEMMA UniqueWritten ==
  ASSUME TypeOK, Unique, NEW r0 \in Relations, NEW p \in Pks,
         PksNamed(provs, ManagedName(r0)) \subseteq {p},
         NEW rec, rec.name = ManagedName(r0),
         NEW ps, ps = WithProvider(provs, p, rec)
  PROVE  NamesOnce(ps) /\ NoLegacyName(ps)
<1>1. \A q \in Pks : ps[q] = IF q = p THEN rec ELSE provs[q]
  BY DEF WithProvider, TypeOK
<1>2. \A r, q : LegacyName(r) # ManagedName(q) BY DEF LegacyName, ManagedName
<1>3. \A r, q : ManagedName(r) = ManagedName(q) => r = q BY DEF ManagedName
<1>4. NoLegacyName(ps) BY <1>1, <1>2 DEF Unique, NoLegacyName
<1>5. ASSUME NEW r \in Relations, NEW a \in PksNamed(ps, ManagedName(r)),
             NEW b \in PksNamed(ps, ManagedName(r))
      PROVE  a = b
  <2>1. CASE r = r0 BY <1>1, <2>1 DEF PksNamed
  <2>2. CASE r # r0 BY <1>1, <1>3, <2>2 DEF PksNamed, Unique, NamesOnce
  <2> QED BY <2>1, <2>2
<1> QED BY <1>4, <1>5 DEF NamesOnce, NoLegacyName

LEMMA UniqueDropped ==
  ASSUME TypeOK, Unique, NEW p \in Pks
  PROVE  NamesOnce(WithoutProvider(provs, p)) /\ NoLegacyName(WithoutProvider(provs, p))
<1> DEFINE ps == WithoutProvider(provs, p)
<1>1. \A q \in Pks : ps[q] = IF q = p THEN NoProvider ELSE provs[q]
  BY DEF WithoutProvider, TypeOK
<1>2. \A r : NoProvider.name # LegacyName(r) /\ NoProvider.name # ManagedName(r)
  BY DEF NoProvider, NoName, LegacyName, ManagedName
<1> HIDE DEF ps
<1>3. NoLegacyName(ps) BY <1>1, <1>2 DEF Unique, NoLegacyName
<1>4. NamesOnce(ps) BY <1>1, <1>2, <1>3 DEF Unique, NamesOnce, PksNamed, NoLegacyName
<1> QED BY <1>3, <1>4 DEF ps

\* Steps that write no provider and leave no request behind.
LEMMA UniqueElsewhere == ASSUME Unique, UNCHANGED <<provs, late>> PROVE Unique'
BY DEF Unique

LEMMA UniqueCreate ==
  ASSUME TypeOK, Unique, NEW u \in Units, CreateProvider(u) \/ CreateProviderLost(u)
  PROVE  Unique'
<1> DEFINE h == hook[u]
<1>1. h.cur \in Relations
  BY CallingHook DEF CreateProvider, CreateProviderLost, At, SyncCalls
<1>2. Request(h).name = ManagedName(h.cur) BY DEF Request
<1>3. /\ \/ provs' = provs
         \/ \E p \in Pks : /\ NameFree(provs, ManagedName(h.cur))
                           /\ provs' = WithProvider(provs, p, Request(h))
      /\ late' = late \/ late' = late \cup {Request(h)}
  BY DEF CreateProvider, CreateProviderLost, ProviderCreated
<1> HIDE DEF h
<1>4. LateManaged(late') BY <1>1, <1>2, <1>3 DEF Unique, LateManaged
<1>5. NamesOnce(provs') /\ NoLegacyName(provs')
  <2>1. CASE provs' = provs BY <2>1 DEF Unique
  <2>2. CASE provs' # provs
    BY <1>1, <1>2, <1>3, <2>2, UniqueWritten DEF NameFree
  <2> QED BY <2>1, <2>2
<1> QED BY <1>4, <1>5 DEF Unique

LEMMA UniqueUpdate ==
  ASSUME TypeOK, Unique, NEW u \in Units, UpdateProvider(u)
  PROVE  Unique'
<1> DEFINE h == hook[u]
<1>1. h.cur \in Relations BY CallingHook DEF UpdateProvider, At, SyncCalls
<1>2. Request(h).name = ManagedName(h.cur) BY DEF Request
<1>3. late' = late BY DEF UpdateProvider
<1>4. \/ provs' = provs
      \/ /\ h.pk \in Pks /\ PksNamed(provs, ManagedName(h.cur)) \subseteq {h.pk}
         /\ provs' = WithProvider(provs, h.pk, Request(h))
  BY DEF UpdateProvider, UpdateAccepted, ProviderExists
<1> HIDE DEF h
<1> QED BY <1>1, <1>2, <1>3, <1>4, UniqueWritten DEF Unique

LEMMA UniqueLate == ASSUME TypeOK, Unique, LateCreate PROVE Unique'
<1>1. PICK q \in late :
        /\ late' = late \ {q}
        /\ \/ NameFree(provs, q.name) /\ \E p \in Pks : provs' = WithProvider(provs, p, q)
           \/ UNCHANGED provs
  BY DEF LateCreate
<1>2. PICK r0 \in Relations : q.name = ManagedName(r0) BY DEF Unique, LateManaged
<1>3. LateManaged(late') BY <1>1 DEF Unique, LateManaged
<1>4. CASE UNCHANGED provs BY <1>3, <1>4 DEF Unique
<1>5. CASE ~(UNCHANGED provs)
  <2>1. PICK p \in Pks : provs' = WithProvider(provs, p, q) BY <1>1, <1>5
  <2>2. PksNamed(provs, ManagedName(r0)) \subseteq {p} BY <1>1, <1>2, <1>5 DEF NameFree
  <2>3. NamesOnce(provs') /\ NoLegacyName(provs') BY <1>2, <2>1, <2>2, UniqueWritten
  <2> QED BY <1>3, <2>3 DEF Unique
<1> QED BY <1>4, <1>5

LEMMA UniqueDelete ==
  ASSUME TypeOK, Unique, AdminDeletesProvider \/ \E u \in Units : DeleteProvider(u)
  PROVE  Unique'
<1>1. \E p \in Pks : provs' = WithoutProvider(provs, p)
  BY CollectingHook DEF AdminDeletesProvider, DeleteProvider, At
<1>2. late' = late BY DEF AdminDeletesProvider, DeleteProvider
<1> QED BY <1>1, <1>2, UniqueDropped DEF Unique

LEMMA UniqueNext == ASSUME TypeOK, Unique, Next PROVE Unique'
<1>1. ASSUME NEW u \in Units, HookStep(u) PROVE Unique'
  <2>1. CASE Discovery(u)
    BY <2>1, UniqueElsewhere DEF Discovery, GetCachedApplication, GetCachedProvider,
       GetManagedApplication, GetLegacyApplication, GetApplication, ValidateProvider,
       FindProvider, Local, authentik
  <2>2. CASE Writes(u)
    BY <2>2, UniqueCreate, UniqueUpdate, UniqueElsewhere
       DEF Writes, CreateProviderInvalid, CreateProviderConflict, RecoverProvider,
           CreateApplication, CreateApplicationRefused, UpdateApplication, Local, authentik
  <2>3. CASE Collection(u)
    BY <2>3, UniqueDelete, UniqueElsewhere
       DEF Collection, CollectNext, DeleteApplication, Local, authentik
  <2>4. CASE \/ ResolveFlow(u) \/ SkipRelation(u) \/ BeginRelation(u) \/ ToGarbage(u)
             \/ ResolveMappings(u) \/ Commit(u)
    BY <2>4, UniqueElsewhere DEF ResolveFlow, SkipRelation, BeginRelation, ToGarbage,
       ResolveMappings, Commit, Local, authentik
  <2> QED BY <1>1, <2>1, <2>2, <2>3, <2>4 DEF HookStep
<1>2. ASSUME NEW u \in Units, Faults(u) PROVE Unique'
  BY <1>2, UniqueCreate, UniqueElsewhere
     DEF Faults, HookFails, CallRefused, Elect, SkippedHook, HandleEvent, authentik
<1>3. ASSUME NEW u \in Units, NEW e \in Events, Dispatch(u, e) PROVE Unique'
  BY <1>3, UniqueElsewhere
     DEF Dispatch, StartHook, FollowerHook, HandleEvent, Local, authentik
<1>4. CASE Environment
  BY <1>4, UniqueLate, UniqueDelete, UniqueElsewhere
     DEF Environment, Integrate, ChangeConf, RemoveRelation, ClientSecretLost,
         ResolveWithoutRetry, AdminDeletesApplication, AdminRecreatesFlow, authentik
<1> QED BY <1>1, <1>2, <1>3, <1>4 DEF Next

LEMMA UniqueInit == ASSUME NothingAdoptable, Init PROVE Unique
<1>1. \A p \in Pks : provs[p].name \in {Foreign, NoName}
  BY DEF Init, NothingAdoptable, NoProvider
<1>2. \A r : /\ Foreign # ManagedName(r) /\ NoName # ManagedName(r)
             /\ Foreign # LegacyName(r) /\ NoName # LegacyName(r)
  BY DEF LegacyName, ManagedName, Foreign, NoName
<1>3. late = {} BY DEF Init
<1> QED BY <1>1, <1>2, <1>3 DEF Unique, NamesOnce, NoLegacyName, PksNamed, LateManaged

\* Where there is nothing to adopt, a relation never owns two providers: for
\* any number of units whose hooks overlap, any faults and late creates, and
\* whatever an administrator deletes.
THEOREM UniqueProvider ==
  ASSUME NothingAdoptable
  PROVE  Spec => []OneProviderPerRelation
<1>1. Init => Unique BY UniqueInit
<1>2. TypeOK /\ Unique /\ [Next]_vars => Unique'
  <2>1. ASSUME Unique, UNCHANGED vars PROVE Unique'
    BY <2>1, UniqueElsewhere DEF vars, authentik
  <2> QED BY <2>1, UniqueNext
<1>3. Unique => OneProviderPerRelation BY UniqueSuffices
<1> QED BY <1>1, <1>2, <1>3, TypeCorrect, PTL DEF Spec
===============================================================================
