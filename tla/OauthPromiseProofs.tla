-------------------------- MODULE OauthPromiseProofs --------------------------
(***************************************************************************)
(* What the reconciler promises, for every value of the constants.          *)
(*                                                                         *)
(*   1. Where the hooks of two leaders do not overlap, a hook ends with       *)
(*      Juju's data as it found them.                                        *)
(*   2. No entry is dropped before what it tracks is deleted.                *)
(*   3. Credentials that are published work, and a hash that is recorded is  *)
(*      the provider's.                                                      *)
(*   4. Every step is one OauthPromise allows, and it keeps what it is for.   *)
(*   5. Without configuration changes, what is skipped is synchronized, and    *)
(*      the hooks of two leaders may overlap.                                *)
(***************************************************************************)
EXTENDS OauthOwnershipProofs

\* The hook of a deposed leader is over before the next leader starts one, or
\* there is no other unit to lead.
NoOverlap == ~Overlap \/ SingleUnit

------------------------------------------------------------------------------
(* What the steps of a hook do to its record.                                *)

\* The hook goes on with the relations it has, and what it has to store for them.
SameScope(h, g) ==
  /\ g.seen = h.seen /\ g.active = h.active /\ g.todo = h.todo /\ g.bag = h.bag
  /\ g.conf = h.conf

\* It goes on with the relation it is at, too.
SameWork(h, g) ==
  /\ SameScope(h, g)
  /\ g.cur = h.cur /\ g.creds = h.creds /\ g.flow = h.flow

LEMMA SameRequest == ASSUME NEW h, NEW g, SameWork(h, g) PROVE Request(g) = Request(h)
BY DEF SameWork, SameScope, Request, HashOf

LEMMA CaughtMoves ==
  ASSUME TypeOK, NEW u \in Units, Caught(u) \/ CaughtStaleFlow(u)
  PROVE  \E g : /\ Continue(u, g) /\ SameScope(hook[u], g)
                /\ g.cache = hook[u].cache /\ g.cur = hook[u].cur /\ g.pc = "commit"
                /\ g.flow \in {hook[u].flow, NothingStored.flow}
<1> DEFINE h == hook[u]
           a == [h EXCEPT !.pc = "commit"]
           b == [h EXCEPT !.pc = "commit", !.flow = IdleHook.flow]
<1>1. Continue(u, a) \/ Continue(u, b) BY DEF Caught, CaughtStaleFlow
<1>2. h \in HookTypes BY HookWellFormed DEF WellFormed
<1> HIDE DEF h
<1>3. SameScope(h, a) /\ a.cache = h.cache /\ a.cur = h.cur /\ a.pc = "commit" /\ a.flow = h.flow
  BY <1>2 DEF HookTypes, SameScope
<1>4. /\ SameScope(h, b) /\ b.cache = h.cache /\ b.cur = h.cur /\ b.pc = "commit"
      /\ b.flow = NothingStored.flow
  BY <1>2 DEF HookTypes, SameScope, IdleHook
<1> HIDE DEF a, b
<1> QED BY <1>1, <1>3, <1>4 DEF h

LEMMA StartMoves ==
  ASSUME TypeOK, NEW u \in Units, NEW e \in Events, StartHook(u, e)
  PROVE  \E g : /\ Continue(u, g) /\ g.cache = cache /\ g.bag = bag
                /\ g.seen = [cache |-> cache, flow |-> flowCache, bag |-> bag]
                /\ g.pc \in {"gc", "flow", "next"}
                /\ g.active \subseteq Relations /\ g.todo = g.active
                /\ g.flow = flowCache /\ g.conf = conf
<1> DEFINE active == ActiveFor(u, e)
           seen == [cache |-> cache, flow |-> flowCache, bag |-> bag]
           g(pc) == [IdleHook EXCEPT
              !.pc = pc,
              !.event = e, !.active = active, !.todo = active,
              !.seen = seen,
              !.cache = cache, !.flow = flowCache, !.bag = bag, !.conf = conf]
<1>1. Continue(u, g("gc")) \/ Continue(u, g("flow")) \/ Continue(u, g("next"))
  <2>1. CASE active = {} BY <2>1 DEF StartHook
  <2>2. CASE active # {} /\ NeedsFlow(flowCache) BY <2>2 DEF StartHook
  <2>3. CASE active # {} /\ ~NeedsFlow(flowCache) BY <2>3 DEF StartHook
  <2> QED BY <2>1, <2>2, <2>3
<1>2. active \subseteq Relations BY DEF ActiveFor
<1> HIDE DEF active, seen
<1>3. \A pc : /\ g(pc).cache = cache /\ g(pc).bag = bag /\ g(pc).seen = seen
              /\ g(pc).pc = pc /\ g(pc).active = active /\ g(pc).todo = active
              /\ g(pc).flow = flowCache /\ g(pc).conf = conf
  BY DEF IdleHook
<1> HIDE DEF g
<1> QED BY <1>1, <1>2, <1>3 DEF seen

LEMMA FlowMoves ==
  ASSUME TypeOK, NEW u \in Units, ResolveFlow(u)
  PROVE  \E g : /\ Continue(u, g) /\ SameScope(hook[u], g)
                /\ g.cache = hook[u].cache /\ g.cur = hook[u].cur /\ g.pc \in {"flow", "next"}
                /\ \E k \in FlowKeys : g.flow = [hook[u].flow EXCEPT ![k] = flows[k]]
<1> DEFINE h == hook[u]
           k == IF h.flow["auth"] = NoFlow THEN "auth" ELSE "inval"
           f == [h.flow EXCEPT ![k] = flows[k]]
           g(pc) == [h EXCEPT !.flow = f, !.pc = pc]
<1>1. Continue(u, g("flow")) \/ Continue(u, g("next"))
  <2>1. CASE NeedsFlow(f) BY <2>1 DEF ResolveFlow
  <2>2. CASE ~NeedsFlow(f) BY <2>2 DEF ResolveFlow
  <2> QED BY <2>1, <2>2
<1>2. h \in HookTypes BY HookWellFormed DEF WellFormed
<1> HIDE DEF h, f
<1>3. \A pc : /\ SameScope(h, g(pc)) /\ g(pc).cache = h.cache
              /\ g(pc).cur = h.cur /\ g(pc).pc = pc /\ g(pc).flow = f
  BY <1>2 DEF HookTypes, SameScope
<1>4. k \in FlowKeys /\ f = [h.flow EXCEPT ![k] = flows[k]] BY DEF FlowKeys, f
<1> HIDE DEF g, k
<1> QED BY <1>1, <1>3, <1>4 DEF h

\* Publishing the endpoints leaves the credentials alone.
LEMMA PublishedCreds ==
  ASSUME NEW h \in HookTypes, NEW r \in Relations
  PROVE  \A q \in Relations : Published(h, r).bag[q].creds = h.bag[q].creds
<1> DEFINE b == [h.bag EXCEPT ![r].slug = CachedSlug(h, r)]
<1>1. Published(h, r) = [h EXCEPT !.bag = b] BY DEF Published
<1>2. \A q \in Relations : b[q].creds = h.bag[q].creds BY DEF HookTypes, Bags
<1> HIDE DEF b
<1>3. [h EXCEPT !.bag = b].bag = b BY DEF HookTypes
<1> QED BY <1>1, <1>2, <1>3

LEMMA SkipMoves ==
  ASSUME TypeOK, NEW u \in Units, SkipRelation(u)
  PROVE  \E g, r : /\ Continue(u, g) /\ Local /\ r \in hook[u].todo
                   /\ g.seen = hook[u].seen /\ g.active = hook[u].active
                   /\ g.todo = hook[u].todo \ {r} /\ g.cache = hook[u].cache
                   /\ g.flow = hook[u].flow /\ g.conf = hook[u].conf
                   /\ \A q \in Relations : g.bag[q].creds = hook[u].bag[q].creds
                   /\ hook[u].pc = "next" /\ g.pc = "next"
<1>1. PICK r \in Relations :
        /\ TakesTurn(u, r)
        /\ Continue(u, [Published(hook[u], r) EXCEPT !.todo = @ \ {r}])
        /\ Local
  BY DEF SkipRelation
<1> DEFINE h == hook[u]
           p == Published(h, r)
           g == [p EXCEPT !.todo = p.todo \ {r}]
<1>2. h.pc = "next" /\ r \in h.todo BY <1>1 DEF TakesTurn, At, Least
<1>3. h \in HookTypes BY HookWellFormed DEF WellFormed
<1>4. p \in HookTypes /\ p = [h EXCEPT !.bag = p.bag] BY HookWellFormed, PublishedTypes
<1>5. \A q \in Relations : p.bag[q].creds = h.bag[q].creds BY <1>3, PublishedCreds
<1>6. Continue(u, g) BY <1>1
<1> HIDE DEF h, p
<1>7. /\ g.seen = h.seen /\ g.active = h.active /\ g.todo = h.todo \ {r}
      /\ g.cache = h.cache /\ g.bag = p.bag /\ g.pc = "next"
      /\ g.flow = h.flow /\ g.conf = h.conf
  BY <1>2, <1>3, <1>4 DEF HookTypes
<1> HIDE DEF g
<1> QED BY <1>1, <1>2, <1>5, <1>6, <1>7 DEF h

LEMMA BeginMoves ==
  ASSUME TypeOK, NEW u \in Units, BeginRelation(u)
  PROVE  \E g, r : /\ Continue(u, g) /\ Local /\ r \in hook[u].todo
                   /\ g.seen = hook[u].seen /\ g.active = hook[u].active
                   /\ g.todo = hook[u].todo /\ g.cache = hook[u].cache
                   /\ g.flow = hook[u].flow /\ g.conf = hook[u].conf
                   /\ \A q \in Relations : g.bag[q].creds = hook[u].bag[q].creds
                   /\ hook[u].bag[r].creds \in {NoCred, g.creds}
                   /\ hook[u].pc = "next" /\ g.pc = "mappings" /\ g.cur = r
                   /\ g.pk = g.cache[r].pk /\ g.slug = CachedSlug(g, r)
<1>1. PICK r \in Relations :
        LET h == Published(hook[u], r)
            begun == [h EXCEPT !.pc = "mappings", !.cur = r, !.pk = h.cache[r].pk,
                               !.slug = CachedSlug(h, r)]
        IN /\ TakesTurn(u, r)
           /\ \E c : /\ Continue(u, [begun EXCEPT !.creds = c])
                     /\ h.bag[r].creds \in {NoCred, c}
           /\ Local
  BY DEF BeginRelation, HasCredentials
<1> DEFINE h == hook[u]
           p == Published(h, r)
           s == CachedSlug(p, r)
           k == p.cache[r].pk
           begun == [p EXCEPT !.pc = "mappings", !.cur = r, !.pk = k, !.slug = s]
<1>2. h.pc = "next" /\ r \in h.todo BY <1>1 DEF TakesTurn, At, Least
<1>3. h \in HookTypes BY HookWellFormed DEF WellFormed
<1>4. p \in HookTypes /\ p = [h EXCEPT !.bag = p.bag] BY HookWellFormed, PublishedTypes
<1>5. \A q \in Relations : p.bag[q].creds = h.bag[q].creds BY <1>3, PublishedCreds
<1>6. PICK c : Continue(u, [begun EXCEPT !.creds = c]) /\ p.bag[r].creds \in {NoCred, c}
  BY <1>1
<1> DEFINE g == [begun EXCEPT !.creds = c]
<1>7. /\ g.seen = h.seen /\ g.active = h.active /\ g.todo = h.todo /\ g.cache = h.cache
      /\ g.bag = p.bag /\ g.creds = c /\ g.pc = "mappings" /\ g.cur = r
      /\ g.pk = h.cache[r].pk /\ g.slug = s /\ p.cache = h.cache
      /\ g.flow = h.flow /\ g.conf = h.conf
  <2>1. /\ p.seen = h.seen /\ p.active = h.active /\ p.todo = h.todo /\ p.cache = h.cache
        /\ p.flow = h.flow /\ p.conf = h.conf
    <3> HIDE DEF h, p
    <3> QED BY <1>3, <1>4 DEF HookTypes
  <2> HIDE DEF h, s, p
  <2>2. /\ g.seen = p.seen /\ g.active = p.active /\ g.todo = p.todo /\ g.cache = p.cache
        /\ g.bag = p.bag /\ g.creds = c /\ g.pc = "mappings" /\ g.cur = r
        /\ g.pk = k /\ g.slug = s /\ g.flow = p.flow /\ g.conf = p.conf
    <3> HIDE DEF k
    <3> QED BY <1>4 DEF HookTypes
  <2> QED BY <2>1, <2>2
<1>8. Continue(u, g) BY <1>6
<1> HIDE DEF g, h, p, begun
<1>9. g.slug = CachedSlug(g, r) BY <1>7 DEF CachedSlug
<1> QED BY <1>1, <1>2, <1>5, <1>6, <1>7, <1>8, <1>9 DEF h

LEMMA GarbageMoves ==
  ASSUME TypeOK, NEW u \in Units, ToGarbage(u)
  PROVE  \E g : /\ Continue(u, g) /\ SameScope(hook[u], g)
                /\ g.cache = hook[u].cache /\ g.cur = hook[u].cur /\ g.pc = "gc"
                /\ g.flow = hook[u].flow
<1> DEFINE h == hook[u]
           g == [h EXCEPT !.pc = "gc"]
<1>1. Continue(u, g) BY DEF ToGarbage
<1>2. h \in HookTypes BY HookWellFormed DEF WellFormed
<1> HIDE DEF h
<1>3. SameScope(h, g) /\ g.cache = h.cache /\ g.cur = h.cur /\ g.pc = "gc" /\ g.flow = h.flow
  BY <1>2 DEF HookTypes, SameScope
<1> HIDE DEF g
<1> QED BY <1>1, <1>3 DEF h

------------------------------------------------------------------------------
(* The calls that look for what a relation has.                              *)

\* The hook goes on with its work and with entry e for the relation it is at.
WithEntry(h, g, e) == SameWork(h, g) /\ g.cache = [h.cache EXCEPT ![h.cur] = e]

\* It goes on with its work and the cache as it is.
SameCache(h, g) == SameWork(h, g) /\ g.cache = h.cache

LEMMA MappingsMoves ==
  ASSUME TypeOK, NEW u \in Units, ResolveMappings(u)
  PROVE  \/ CaughtStaleFlow(u)
         \/ \E g : /\ Continue(u, g) /\ SameCache(hook[u], g)
                   /\ g.pk = hook[u].pk /\ g.slug = hook[u].slug
                   /\ \/ g.pc = "managedApp"
                      \/ g.pc = "cachedApp" /\ hook[u].cache[hook[u].cur].slug # "none"
<1> DEFINE h == hook[u]
           g(pc) == [h EXCEPT !.mapped = TRUE, !.pc = pc]
<1>1. \/ CaughtStaleFlow(u)
      \/ Continue(u, g("cachedApp")) /\ h.cache[h.cur].slug # "none"
      \/ Continue(u, g("managedApp"))
  BY DEF ResolveMappings
<1>2. h \in HookTypes BY HookWellFormed DEF WellFormed
<1> HIDE DEF h
<1>3. \A pc : /\ SameCache(h, g(pc)) /\ g(pc).pk = h.pk /\ g(pc).slug = h.slug
              /\ g(pc).pc = pc
  BY <1>2 DEF HookTypes, SameCache, SameWork, SameScope
<1> HIDE DEF g
<1> QED BY <1>1, <1>3 DEF h

LEMMA CachedApplicationMoves ==
  ASSUME TypeOK, NEW u \in Units, GetCachedApplication(u)
  PROVE  \/ Caught(u) /\ Local
         \/ HookFailed(u) /\ UNCHANGED <<authentik, budgets>>
         \/ \E g : /\ Continue(u, g) /\ SameCache(hook[u], g) /\ Local
                   /\ g.pk = hook[u].pk /\ g.slug = hook[u].slug
                   /\ g.pc = "cachedProv" /\ apps[SlugOf(hook[u])] \in {AppAbsent, hook[u].pk}
<1> DEFINE h == hook[u]
           g(app) == [h EXCEPT !.app = app, !.pc = "cachedProv"]
<1>1. \/ Caught(u) /\ Local
      \/ HookFailed(u) /\ UNCHANGED <<authentik, budgets>>
      \/ \E app : Continue(u, g(app)) /\ Local /\ apps[SlugOf(h)] \in {AppAbsent, h.pk}
  BY DEF GetCachedApplication
<1>2. h \in HookTypes BY HookWellFormed DEF WellFormed
<1> HIDE DEF h
<1>3. \A app : /\ SameCache(h, g(app)) /\ g(app).pk = h.pk /\ g(app).slug = h.slug
               /\ g(app).pc = "cachedProv"
  BY <1>2 DEF HookTypes, SameCache, SameWork, SameScope
<1> HIDE DEF g
<1> QED BY <1>1, <1>3 DEF h

LEMMA CachedProviderMoves ==
  ASSUME TypeOK, NEW u \in Units, GetCachedProvider(u)
  PROVE  \E g : /\ Continue(u, g)
                /\ \/ SameCache(hook[u], g) /\ g.pc = "update"
                   \/ /\ WithEntry(hook[u], g, NoEntry) /\ g.pc = "managedApp"
                      /\ ~ProviderExists(provs, hook[u].pk)
<1> DEFINE h == hook[u]
           update == [h EXCEPT !.pc = "update"]
           c == [h.cache EXCEPT ![h.cur] = NoEntry]
           again == [h EXCEPT !.cache = c, !.pc = "managedApp",
                              !.pk = NoPk, !.slug = "managed", !.app = FALSE]
<1>1. \/ Continue(u, update)
      \/ Continue(u, again) /\ ~ProviderExists(provs, h.pk)
  BY DEF GetCachedProvider
<1>2. h \in HookTypes BY HookWellFormed DEF WellFormed
<1>3. SameCache(h, update) /\ update.pc = "update"
  <2> HIDE DEF h
  <2> QED BY <1>2 DEF HookTypes, SameCache, SameWork, SameScope
<1>4. SameWork(h, again) /\ again.cache = c /\ again.pc = "managedApp"
  <2> HIDE DEF h, c
  <2> QED BY <1>2 DEF HookTypes, SameWork, SameScope
<1>5. WithEntry(h, again, NoEntry)
  <2> HIDE DEF h, again
  <2> QED BY <1>4 DEF WithEntry
<1> HIDE DEF h, update, again
<1> QED BY <1>1, <1>3, <1>4, <1>5 DEF h

LEMMA ApplicationMoves ==
  ASSUME TypeOK, NEW u \in Units, NEW pc, NEW kind, NEW otherwise,
         GetApplication(u, pc, kind, otherwise)
  PROVE  \/ Caught(u)
         \/ \E g : /\ Continue(u, g) /\ SameCache(hook[u], g)
                   /\ g.pc \in {otherwise, "validate"}
<1> DEFINE h == hook[u]
           a == apps[<<kind, h.cur>>]
           absent == [h EXCEPT !.pc = otherwise, !.slug = "managed"]
           found == [h EXCEPT !.pc = "validate", !.slug = kind, !.pk = a]
<1>1. Continue(u, absent) \/ Caught(u) \/ Continue(u, found) BY DEF GetApplication
<1>2. h \in HookTypes BY HookWellFormed DEF WellFormed
<1> HIDE DEF h, a
<1>3. SameCache(h, absent) /\ absent.pc = otherwise
  BY <1>2 DEF HookTypes, SameCache, SameWork, SameScope
<1>4. SameCache(h, found) /\ found.pc = "validate"
  BY <1>2 DEF HookTypes, SameCache, SameWork, SameScope
<1> HIDE DEF absent, found
<1> QED BY <1>1, <1>3, <1>4 DEF h

\* Recording a provider: an entry with a key, and no hash.
LEMMA PersistedMoves ==
  ASSUME NEW h, NEW f \in HookTypes, SameCache(h, f), f.pk \in Pks
  PROVE  \E e : /\ WithEntry(h, Persisted(f), e) /\ e # NoEntry /\ e.hash = NoHash
                /\ Persisted(f).pc = f.pc /\ Persisted(f).pk = f.pk
<1> DEFINE e == [pk |-> f.pk, slug |-> f.slug, hash |-> NoHash]
           c == [f.cache EXCEPT ![f.cur] = e]
           g == [f EXCEPT !.cache = c]
<1>1. Persisted(f) = g BY DEF Persisted
<1>2. e # NoEntry /\ e.hash = NoHash BY DEF NoEntry, NoPk, Pks
<1>3. c = [h.cache EXCEPT ![h.cur] = e] BY DEF SameCache, SameWork
<1> HIDE DEF c, e
<1>4. SameWork(f, g) /\ g.cache = c /\ g.pc = f.pc /\ g.pk = f.pk
  BY DEF HookTypes, SameWork, SameScope
<1> HIDE DEF g
<1>5. WithEntry(h, g, e) BY <1>3, <1>4 DEF WithEntry, SameCache, SameWork, SameScope
<1> QED BY <1>1, <1>2, <1>4, <1>5

LEMMA ValidateMoves ==
  ASSUME TypeOK, NEW u \in Units, ValidateProvider(u)
  PROVE  \/ Caught(u)
         \/ \E g, e : /\ Continue(u, g) /\ WithEntry(hook[u], g, e) /\ e # NoEntry
                      /\ e.hash = NoHash /\ g.pc = "update"
<1> DEFINE h == hook[u]
           f == [h EXCEPT !.pc = "update", !.app = TRUE]
<1>1. Caught(u) \/ Continue(u, Persisted(f)) BY DEF ValidateProvider
<1>2. h \in HookTypes /\ h.pk \in Pks
  BY HookWellFormed DEF WellFormed, HookShape, ValidateProvider, At
<1> HIDE DEF h
<1>3. f \in HookTypes /\ SameCache(h, f) /\ f.pc = "update" /\ f.pk \in Pks
  BY <1>2 DEF HookTypes, Positions, Calls, SyncCalls, SameCache, SameWork, SameScope
<1> HIDE DEF f
<1> QED BY <1>1, <1>3, PersistedMoves DEF h

LEMMA FindMoves ==
  ASSUME TypeOK, NEW u \in Units, FindProvider(u)
  PROVE  \/ \E g : /\ Continue(u, g) /\ SameCache(hook[u], g) /\ g.pc = "create"
                   /\ NameFree(provs, ManagedName(hook[u].cur))
         \/ \E g, e : /\ Continue(u, g) /\ WithEntry(hook[u], g, e) /\ e # NoEntry
                      /\ e.hash = NoHash /\ g.pc = "update"
<1> DEFINE h == hook[u]
           none == [h EXCEPT !.pc = "create", !.pk = NoPk]
           f(p) == [h EXCEPT !.pc = "update", !.pk = p]
<1>1. \/ Continue(u, none) /\ NameFree(provs, ManagedName(h.cur))
      \/ \E p \in Pks : Continue(u, Persisted(f(p)))
  BY DEF FindProvider, NameFree, PksNamed
<1>2. h \in HookTypes BY HookWellFormed DEF WellFormed
<1> HIDE DEF h
<1>3. SameCache(h, none) /\ none.pc = "create"
  BY <1>2 DEF HookTypes, SameCache, SameWork, SameScope
<1>4. ASSUME NEW p \in Pks
      PROVE  f(p) \in HookTypes /\ SameCache(h, f(p)) /\ f(p).pc = "update" /\ f(p).pk \in Pks
  BY <1>2 DEF HookTypes, Positions, Calls, SyncCalls, SameCache, SameWork, SameScope
<1> HIDE DEF none, f
<1> QED BY <1>1, <1>3, <1>4, PersistedMoves DEF h

------------------------------------------------------------------------------
(* The calls that write.                                                     *)

LEMMA AfterCreateMoves ==
  ASSUME TypeOK, NEW u \in Units, NEW p \in Pks
  PROVE  \E e : /\ WithEntry(hook[u], AfterCreate(hook[u], p), e) /\ e # NoEntry
                /\ e.hash = NoHash
                /\ AfterCreate(hook[u], p).pc = "createApp" /\ AfterCreate(hook[u], p).pk = p
<1> DEFINE h == hook[u]
           f == [h EXCEPT !.pc = "createApp", !.pk = p, !.made = TRUE]
<1>1. h \in HookTypes BY HookWellFormed DEF WellFormed
<1> HIDE DEF h
<1>2. f \in HookTypes /\ SameCache(h, f) /\ f.pc = "createApp" /\ f.pk = p
  BY <1>1 DEF HookTypes, Positions, Calls, SyncCalls, SameCache, SameWork, SameScope
<1>3. AfterCreate(h, p) = Persisted(f) BY DEF AfterCreate
<1> HIDE DEF f
<1> QED BY <1>2, <1>3, PersistedMoves DEF h

LEMMA RecoveringMoves ==
  ASSUME TypeOK, NEW u \in Units, CreateProviderConflict(u) \/ CreateProviderLost(u)
  PROVE  \E g : Continue(u, g) /\ SameCache(hook[u], g) /\ g.pc = "recover"
<1> DEFINE h == hook[u]
           conflict == [h EXCEPT !.pc = "recover"]
           lost == [h EXCEPT !.pc = "recover", !.lost = TRUE]
<1>1. Continue(u, conflict) \/ Continue(u, lost)
  BY DEF CreateProviderConflict, CreateProviderLost
<1>2. h \in HookTypes BY HookWellFormed DEF WellFormed
<1> HIDE DEF h
<1>3. SameCache(h, conflict) /\ conflict.pc = "recover"
  BY <1>2 DEF HookTypes, SameCache, SameWork, SameScope
<1>4. SameCache(h, lost) /\ lost.pc = "recover"
  BY <1>2 DEF HookTypes, SameCache, SameWork, SameScope
<1> HIDE DEF conflict, lost
<1> QED BY <1>1, <1>3, <1>4 DEF h

LEMMA UpdateMoves ==
  ASSUME TypeOK, NEW u \in Units, UpdateProvider(u)
  PROVE  \/ CaughtStaleFlow(u) /\ UNCHANGED provs
         \/ /\ UpdateAccepted(hook[u])
            /\ provs' = WithProvider(provs, hook[u].pk, Request(hook[u]))
            /\ \E g : /\ Continue(u, g) /\ SameCache(hook[u], g) /\ g.pk = hook[u].pk
                      /\ g.pc \in {"updateApp", "createApp"}
<1> DEFINE h == hook[u]
           g(pc) == [h EXCEPT !.pc = pc]
<1>1. \/ CaughtStaleFlow(u) /\ UNCHANGED provs
      \/ /\ UpdateAccepted(h) /\ provs' = WithProvider(provs, h.pk, Request(h))
         /\ Continue(u, g("updateApp")) \/ Continue(u, g("createApp"))
  BY DEF UpdateProvider
<1>2. h \in HookTypes BY HookWellFormed DEF WellFormed
<1> HIDE DEF h
<1>3. \A pc : SameCache(h, g(pc)) /\ g(pc).pk = h.pk /\ g(pc).pc = pc
  BY <1>2 DEF HookTypes, SameCache, SameWork, SameScope
<1> HIDE DEF g
<1> QED BY <1>1, <1>3 DEF h

\* The end of a relation's synchronization, in the hook's record.
SyncedHook(h, g) ==
  /\ g.seen = h.seen /\ g.active = h.active /\ g.todo = h.todo \ {h.cur}
  /\ g.flow = h.flow /\ g.conf = h.conf
  /\ g.bag = [h.bag EXCEPT ![h.cur] = [creds |-> h.creds, slug |-> h.slug]]
  /\ g.cache = [h.cache EXCEPT ![h.cur] = [pk |-> h.pk, slug |-> h.slug, hash |-> HashOf(h, h.cur)]]
  /\ g.pc = "next"

LEMMA SynchronizedMoves ==
  ASSUME NEW h \in HookTypes
  PROVE  SyncedHook(h, Synchronized(h))
<1> DEFINE b == [h.bag EXCEPT ![h.cur] = [creds |-> h.creds, slug |-> h.slug]]
           c == [h.cache EXCEPT ![h.cur] =
                   [pk |-> h.pk, slug |-> h.slug, hash |-> HashOf(h, h.cur)]]
           t == h.todo \ {h.cur}
           g == [h EXCEPT !.pc = "next", !.todo = t, !.cur = 0, !.bag = b, !.cache = c,
                          !.creds = NoCred, !.slug = "none", !.pk = NoPk,
                          !.app = FALSE, !.made = FALSE, !.lost = FALSE]
<1>1. Synchronized(h) = g BY DEF Synchronized
<1> HIDE DEF b, c, t
<1>2. /\ g.seen = h.seen /\ g.active = h.active /\ g.todo = t /\ g.bag = b /\ g.cache = c
      /\ g.flow = h.flow /\ g.conf = h.conf /\ g.pc = "next"
  BY DEF HookTypes
<1> HIDE DEF g
<1> QED BY <1>1, <1>2 DEF SyncedHook, b, c, t

\* The write of the application ends the synchronization or is refused.
LEMMA WriteApplicationMoves ==
  ASSUME TypeOK, NEW u \in Units,
         CreateApplication(u) \/ CreateApplicationRefused(u) \/ UpdateApplication(u)
  PROVE  /\ hook[u].pc \in {"createApp", "updateApp"}
         /\ UNCHANGED <<provs, flows, late, stored, model, failed, budgets>>
         /\ \/ (Caught(u) \/ CaughtStaleFlow(u)) /\ UNCHANGED apps
            \/ /\ \/ UNCHANGED apps /\ apps[SlugOf(hook[u])] = hook[u].pk
                  \/ /\ ProviderExists(provs, hook[u].pk)
                     /\ apps' = WithApp(apps, SlugOf(hook[u]), hook[u].pk)
               /\ \E g : Continue(u, g) /\ SyncedHook(hook[u], g)
<1>1. hook[u] \in HookTypes BY HookWellFormed DEF WellFormed
<1>2. hook[u].pc \in {"createApp", "updateApp"}
  BY DEF CreateApplication, CreateApplicationRefused, UpdateApplication, At
<1>3. UNCHANGED <<provs, flows, late, stored, model, failed, budgets>>
  BY DEF CreateApplication, CreateApplicationRefused, UpdateApplication, Local, authentik
<1>4. \/ (Caught(u) \/ CaughtStaleFlow(u)) /\ UNCHANGED apps
      \/ /\ \/ UNCHANGED apps /\ apps[SlugOf(hook[u])] = hook[u].pk
            \/ /\ ProviderExists(provs, hook[u].pk)
               /\ apps' = WithApp(apps, SlugOf(hook[u]), hook[u].pk)
         /\ Continue(u, Synchronized(hook[u]))
  BY DEF CreateApplication, CreateApplicationRefused, UpdateApplication, Local, authentik
<1> QED BY <1>1, <1>2, <1>3, <1>4, SynchronizedMoves

------------------------------------------------------------------------------
(* The steps of the collection.                                              *)

LEMMA CollectMoves ==
  ASSUME TypeOK, NEW u \in Units, CollectNext(u)
  PROVE  \E g : /\ Continue(u, g) /\ SameScope(hook[u], g) /\ g.cache = hook[u].cache
                /\ g.flow = hook[u].flow /\ g.pc \in {"commit", "gcApp", "gcProv"}
                /\ g.pc = "gcProv" => g.cache[g.cur].slug = "none"
<1> DEFINE h == hook[u]
           done == [h EXCEPT !.pc = "commit"]
           g(r, pc) == [h EXCEPT !.cur = r, !.pk = h.cache[r].pk, !.pc = pc]
<1>1. \/ Continue(u, done)
      \/ \E r : Continue(u, g(r, "gcApp"))
      \/ \E r : Continue(u, g(r, "gcProv")) /\ h.cache[r].slug = "none"
  <2>1. ASSUME NEW r,
               Continue(u, g(r, IF h.cache[r].slug # "none" THEN "gcApp" ELSE "gcProv"))
        PROVE  \/ Continue(u, g(r, "gcApp"))
               \/ Continue(u, g(r, "gcProv")) /\ h.cache[r].slug = "none"
    <3>1. CASE h.cache[r].slug # "none" BY <2>1, <3>1
    <3>2. CASE h.cache[r].slug = "none" BY <2>1, <3>2
    <3> QED BY <3>1, <3>2
  <2> QED BY <2>1 DEF CollectNext
<1>2. h \in HookTypes BY HookWellFormed DEF WellFormed
<1> HIDE DEF h
<1>3. SameScope(h, done) /\ done.cache = h.cache /\ done.flow = h.flow /\ done.pc = "commit"
  BY <1>2 DEF HookTypes, SameScope
<1>4. \A r, pc : /\ SameScope(h, g(r, pc)) /\ g(r, pc).cache = h.cache
                 /\ g(r, pc).cur = r /\ g(r, pc).pc = pc /\ g(r, pc).flow = h.flow
  BY <1>2 DEF HookTypes, SameScope
<1> HIDE DEF done, g
<1> QED BY <1>1, <1>3, <1>4 DEF h

\* The hook goes on with entry e for the relation it collects.
Stripped(h, g, e) ==
  /\ SameScope(h, g) /\ g.cur = h.cur /\ g.flow = h.flow
  /\ g.cache = [h.cache EXCEPT ![h.cur] = e]

LEMMA DeleteApplicationMoves ==
  ASSUME TypeOK, NEW u \in Units, DeleteApplication(u)
  PROVE  /\ hook[u].pc = "gcApp" /\ hook[u].cache[hook[u].cur] \in Entries
         /\ apps' = WithoutApp(apps, <<hook[u].cache[hook[u].cur].slug, hook[u].cur>>)
         /\ UNCHANGED <<provs, flows, late, stored, model, failed, budgets>>
         /\ \E g, e : /\ Continue(u, g) /\ Stripped(hook[u], g, e)
                      /\ e.pk = hook[u].cache[hook[u].cur].pk
                      /\ e.slug = "none" /\ e.hash = NoHash /\ e # NoEntry
                      /\ g.pc = "gcProv"
<1> DEFINE h == hook[u]
           d == h.cache[h.cur]
           e == [d EXCEPT !.slug = "none", !.hash = NoHash]
           c == [h.cache EXCEPT ![h.cur] = e]
           g == [h EXCEPT !.pc = "gcProv", !.cache = c]
<1>1. h.pc = "gcApp" BY DEF DeleteApplication, At
<1>2. h \in HookTypes /\ h.cur \in Relations /\ d \in Entries BY <1>1, CollectingHook
<1>3. /\ apps' = WithoutApp(apps, <<d.slug, h.cur>>)
      /\ UNCHANGED <<provs, flows, late, stored, model, failed, budgets>>
  BY DEF DeleteApplication
<1>4. [h EXCEPT !.pc = "gcProv", !.cache[h.cur].slug = "none", !.cache[h.cur].hash = NoHash]
        = g
  <2> HIDE DEF h
  <2> QED BY <1>2 DEF HookTypes
<1>5. Continue(u, g) BY <1>4 DEF DeleteApplication
<1>6. e.pk = d.pk /\ e.slug = "none" /\ e.hash = NoHash /\ d.pk \in Pks
  <2> HIDE DEF d
  <2> QED BY <1>2 DEF Entries
<1>7. e # NoEntry
  <2> HIDE DEF d, e
  <2> QED BY <1>6 DEF NoEntry, NoPk, Pks
<1>8. SameScope(h, g) /\ g.cur = h.cur /\ g.flow = h.flow /\ g.cache = c /\ g.pc = "gcProv"
  <2> HIDE DEF h, c
  <2> QED BY <1>2 DEF HookTypes, SameScope
<1>9. Stripped(h, g, e)
  <2> HIDE DEF h, e, g
  <2> QED BY <1>8 DEF Stripped
<1> HIDE DEF g, e
<1> QED BY <1>1, <1>2, <1>3, <1>5, <1>6, <1>7, <1>8, <1>9

LEMMA DeleteProviderMoves ==
  ASSUME TypeOK, NEW u \in Units, DeleteProvider(u)
  PROVE  /\ hook[u].pc = "gcProv"
         /\ provs' = WithoutProvider(provs, hook[u].pk) /\ apps' = Detach(apps, hook[u].pk)
         /\ UNCHANGED <<flows, late, stored, model, failed, budgets>>
         /\ \E g : /\ Continue(u, g) /\ SameScope(hook[u], g)
                   /\ g.cache = [hook[u].cache EXCEPT ![hook[u].cur] = NoEntry]
                   /\ g.flow = hook[u].flow /\ g.pc = "gc"
<1> DEFINE h == hook[u]
           c == [h.cache EXCEPT ![h.cur] = NoEntry]
           g == [h EXCEPT !.pc = "gc", !.cache = c, !.cur = 0, !.pk = NoPk]
<1>1. /\ h.pc = "gcProv"
      /\ provs' = WithoutProvider(provs, h.pk) /\ apps' = Detach(apps, h.pk)
      /\ UNCHANGED <<flows, late, stored, model, failed, budgets>>
      /\ Continue(u, g)
  BY DEF DeleteProvider, At, Forgotten
<1>2. h \in HookTypes BY HookWellFormed DEF WellFormed
<1>3. SameScope(h, g) /\ g.cache = c /\ g.flow = h.flow /\ g.pc = "gc"
  <2> HIDE DEF h, c
  <2> QED BY <1>2 DEF HookTypes, SameScope
<1> HIDE DEF g
<1> QED BY <1>1, <1>3

------------------------------------------------------------------------------
(* 1. One hook at a time: Juju's data stays as the hook has read it.         *)

Solo ==
  \A u \in Units : Busy(u) =>
    /\ hook[u].seen = [cache |-> cache, flow |-> flowCache, bag |-> bag]
    /\ \A v \in Units : Busy(v) => v = u

\* A step of the only hook that is running.
SoloStep(u, g) ==
  /\ Continue(u, g) /\ g.seen = [cache |-> cache, flow |-> flowCache, bag |-> bag]
  /\ \A v \in Units : Busy(v) => v = u
  /\ UNCHANGED stored

\* Then its record is the only one there is.
LEMMA SoloStepped ==
  ASSUME TypeOK, NEW u \in Units, NEW g, SoloStep(u, g)
  PROVE  /\ Solo' /\ hook'[u] = g
         /\ \A v \in Units : hook'[v] = g \/ (v # u /\ hook'[v].pc = "idle")
<1>1. \A v \in Units : hook'[v] = IF v = u THEN g ELSE hook[v]
  BY DEF SoloStep, Continue, TypeOK
<1>2. \A v \in Units : Busy(v)' => v = u BY <1>1 DEF SoloStep, Busy, At
<1>3. hook'[u].seen = [cache |-> cache', flow |-> flowCache', bag |-> bag']
  BY <1>1 DEF SoloStep, stored
<1>4. Solo' BY <1>2, <1>3 DEF Solo
<1> QED BY <1>1, <1>2, <1>4 DEF Busy, At

LEMMA SoloGoesOn ==
  ASSUME TypeOK, Solo, NEW u \in Units, Busy(u), NEW g, Continue(u, g),
         g.seen = hook[u].seen, UNCHANGED stored
  PROVE  SoloStep(u, g)
BY DEF Solo, SoloStep

LEMMA SoloStarts ==
  ASSUME TypeOK, NoOverlap, NEW u \in Units, NEW e \in Events, StartHook(u, e)
  PROVE  \E g : /\ SoloStep(u, g) /\ Local /\ g.cache = cache /\ g.bag = bag
                /\ g.pc \in {"gc", "flow", "next"}
                /\ g.active \subseteq Relations /\ g.todo = g.active
<1>1. \A v \in Units : ~Busy(v) BY DEF StartHook, MayDispatch, NoOverlap, SingleUnit
<1>2. Local /\ UNCHANGED stored BY DEF StartHook, Local
<1> QED BY <1>1, <1>2, StartMoves DEF SoloStep

\* The hook is over, by a failure or a commit.
LEMMA SoloEnds ==
  ASSUME TypeOK, Solo, NEW u \in Units, Busy(u), Continue(u, IdleHook)
  PROVE  Solo' /\ \A v \in Units : hook'[v].pc = "idle"
<1>1. \A v \in Units : hook'[v] = IF v = u THEN IdleHook ELSE hook[v]
  BY DEF Continue, TypeOK
<1>2. IdleHook.pc = "idle" BY DEF IdleHook
<1>3. \A v \in Units : hook'[v].pc = "idle" BY <1>1, <1>2 DEF Solo, Busy, At
<1> QED BY <1>3 DEF Solo, Busy, At

LEMMA SoloElsewhere == ASSUME Solo, UNCHANGED <<stored, hook>> PROVE Solo'
<1>1. \A u \in Units : Busy(u)' = Busy(u) BY DEF Busy, At
<1> QED BY <1>1 DEF Solo, stored

------------------------------------------------------------------------------
(* 2. No entry is dropped before what it tracks is deleted.  The entry in     *)
(* question is the one in Juju, which a hook compares its own with: it has it *)
(* unchanged as far as it has not come to the relation, and has taken it      *)
(* apart as far as it has.                                                   *)

Deleted(ps, as, r, e) ==
  /\ ~ProviderExists(ps, e.pk)
  /\ e.slug # "none" => as[<<e.slug, r>>] = AppAbsent

\* f is what the collection has made of entry e.
Collected(as, r, e, f) ==
  /\ f.pk = e.pk
  /\ f.slug = e.slug \/ (f.slug = "none" /\ as[<<e.slug, r>>] = AppAbsent)

\* Positions at which the relation the hook is at is as the hook has found it.
TrustedCalls == {"cachedApp", "cachedProv"}
Entering     == {"flow", "next"}
Untried      == Entering \cup {"mappings"} \cup TrustedCalls

\* An entry the hook has no more has nothing left to track.
Forgets(ps, as, ca, h) ==
  \A r \in Relations : h.cache[r] = NoEntry /\ ca[r] # NoEntry => Deleted(ps, as, r, ca[r])

Collects(as, ca, h) ==
  \A r \in Relations \ h.active : h.cache[r] # NoEntry => Collected(as, r, ca[r], h.cache[r])

\* The entries of the relations still to come are Juju's.
Ahead(ca, h) ==
  /\ h.pc \in Untried => \A r \in h.todo : h.cache[r] = ca[r]
  /\ h.pc \in SyncCalls => h.cur \in h.todo /\ \A r \in h.todo \ {h.cur} : h.cache[r] = ca[r]

\* What the hook has at hand is what the entry says.
AtHand(as, h) ==
  /\ h.pc \in {"mappings"} \cup TrustedCalls =>
       h.pk = h.cache[h.cur].pk /\ h.slug = CachedSlug(h, h.cur)
  /\ h.pc \in TrustedCalls => h.cache[h.cur].slug # "none"
  /\ h.pc = "cachedProv" => as[SlugOf(h)] \in {AppAbsent, h.pk}
  /\ h.pc = "gcProv" => h.cache[h.cur].slug = "none"

CleanHook(ps, as, ca, h) ==
  h.pc # "idle" => Forgets(ps, as, ca, h) /\ Collects(as, ca, h) /\ Ahead(ca, h) /\ AtHand(as, h)

\* No application refers to a provider that is not there.
Referenced(ps, as) == \A s \in Slugs : as[s] \in Pks => ProviderExists(ps, as[s])

Clean == /\ Referenced(provs, apps)
         /\ \A u \in Units : CleanHook(provs, apps, cache, hook[u])

\* What a step of a hook has to show.
LEMMA CleanStep ==
  ASSUME TypeOK, NEW u \in Units, NEW g, SoloStep(u, g),
         Referenced(provs', apps'), CleanHook(provs', apps', cache, g)
  PROVE  Solo' /\ Clean'
<1>1. Solo' /\ \A v \in Units : hook'[v] = g \/ hook'[v].pc = "idle" BY SoloStepped
<1>2. cache' = cache BY DEF SoloStep, stored
<1>3. \A v \in Units : CleanHook(provs', apps', cache', hook'[v])
  BY <1>1, <1>2 DEF CleanHook
<1> QED BY <1>1, <1>3 DEF Clean

\* A hook that goes on with its cache, past what it has at hand.
LEMMA CleanOnward ==
  ASSUME NEW ps, NEW as, NEW ca, NEW h, CleanHook(ps, as, ca, h), h.pc # "idle",
         NEW g, g.cache = h.cache, g.active = h.active, g.todo \subseteq h.todo,
         g.pc \notin {"mappings"} \cup TrustedCalls,
         g.pc \in Entering => h.pc \in Entering,
         g.pc \in SyncCalls => h.pc \in SyncCalls /\ g.cur = h.cur /\ g.todo = h.todo,
         g.pc = "gcProv" => g.cache[g.cur].slug = "none"
  PROVE  CleanHook(ps, as, ca, g)
<1>1. Forgets(ps, as, ca, g) /\ Collects(as, ca, g)
  BY DEF CleanHook, Forgets, Collects
<1>2. Ahead(ca, g)
  <2>1. g.pc \in Untried => g.pc \in Entering BY DEF Untried
  <2>2. h.pc \in Entering => h.pc \in Untried BY DEF Untried
  <2> QED BY <2>1, <2>2 DEF CleanHook, Ahead
<1>3. AtHand(as, g) BY DEF AtHand, TrustedCalls
<1> QED BY <1>1, <1>2, <1>3 DEF CleanHook

\* A hook that goes on with another entry for the active relation it is at.
LEMMA CleanEntry ==
  ASSUME NEW ps, NEW as, NEW ca, NEW h, CleanHook(ps, as, ca, h), h.pc \in SyncCalls,
         h.cache \in [Relations -> Entries \cup {NoEntry}], h.cur \in h.active,
         NEW g, NEW e, WithEntry(h, g, e), g.pc \in SyncCalls \ Untried,
         e = NoEntry /\ ca[h.cur] # NoEntry => Deleted(ps, as, h.cur, ca[h.cur])
  PROVE  CleanHook(ps, as, ca, g)
<1>0. h.pc # "idle" BY DEF SyncCalls
<1>1. \A r \in Relations : g.cache[r] = IF r = h.cur THEN e ELSE h.cache[r]
  BY DEF WithEntry
<1>2. g.active = h.active /\ g.todo = h.todo /\ g.cur = h.cur
  BY DEF WithEntry, SameWork, SameScope
<1>3. Forgets(ps, as, ca, g) BY <1>0, <1>1 DEF CleanHook, Forgets
<1>4. Collects(as, ca, g) BY <1>0, <1>1, <1>2 DEF CleanHook, Collects
<1>5. Ahead(ca, g)
  <2>1. \A r \in h.todo \ {h.cur} : g.cache[r] = h.cache[r] BY DEF WithEntry
  <2> QED BY <1>0, <1>2, <2>1 DEF CleanHook, Ahead
<1>6. AtHand(as, g) BY DEF AtHand, Untried, SyncCalls, TrustedCalls
<1> QED BY <1>3, <1>4, <1>5, <1>6 DEF CleanHook

\* What is deleted stays so while Authentik gets nothing but new keys.
LEMMA CleanStore ==
  ASSUME NEW ps, NEW as, NEW ca, NEW h, CleanHook(ps, as, ca, h),
         NEW ps2, \A r \in Relations : ProviderExists(ps2, ca[r].pk) => ProviderExists(ps, ca[r].pk)
  PROVE  CleanHook(ps2, as, ca, h)
<1>1. \A r \in Relations : Deleted(ps, as, r, ca[r]) => Deleted(ps2, as, r, ca[r])
  BY DEF Deleted
<1> QED BY <1>1 DEF CleanHook, Forgets

------------------------------------------------------------------------------
(* The steps of a hook, one by one.                                          *)

\* The hook of a unit that is running one.
LEMMA CleanRunning ==
  ASSUME TypeOK, Clean, NEW u \in Units, hook[u].pc # "idle"
  PROVE  /\ CleanHook(provs, apps, cache, hook[u]) /\ hook[u] \in HookTypes /\ Busy(u)
         /\ hook[u].cache \in [Relations -> Entries \cup {NoEntry}]
BY HookWellFormed DEF Clean, WellFormed, HookTypes, Busy, At

\* A step of a running hook that leaves Authentik and Juju alone.
LEMMA CleanLocal ==
  ASSUME TypeOK, Solo, Clean, NEW u \in Units, hook[u].pc # "idle", NEW g, Continue(u, g),
         g.seen = hook[u].seen, UNCHANGED <<authentik, stored>>,
         CleanHook(provs, apps, cache, g)
  PROVE  Solo' /\ Clean'
<1>1. SoloStep(u, g) BY CleanRunning, SoloGoesOn DEF stored
<1>2. provs' = provs /\ apps' = apps BY DEF authentik
<1> QED BY <1>1, <1>2, CleanStep DEF Clean

LEMMA CleanCaught ==
  ASSUME TypeOK, Solo, Clean, NEW u \in Units, hook[u].pc # "idle",
         Caught(u) \/ CaughtStaleFlow(u), UNCHANGED <<authentik, stored>>
  PROVE  Solo' /\ Clean'
<1>1. PICK g : /\ Continue(u, g) /\ SameScope(hook[u], g)
               /\ g.cache = hook[u].cache /\ g.pc = "commit"
  BY CaughtMoves
<1>2. CleanHook(provs, apps, cache, g)
  BY <1>1, CleanRunning, CleanOnward DEF SameScope, TrustedCalls, Entering, SyncCalls
<1> QED BY <1>1, <1>2, CleanLocal DEF SameScope

LEMMA CleanFailed ==
  ASSUME TypeOK, Solo, Clean, NEW u \in Units, hook[u].pc # "idle",
         HookFailed(u), UNCHANGED authentik
  PROVE  Solo' /\ Clean'
<1>1. Solo' /\ \A v \in Units : hook'[v].pc = "idle"
  BY SoloEnds DEF HookFailed, Busy, At
<1>2. provs' = provs /\ apps' = apps BY DEF authentik
<1> QED BY <1>1, <1>2 DEF Clean, CleanHook

LEMMA CleanStartHook ==
  ASSUME TypeOK, Solo, Clean, NoOverlap, NEW u \in Units, NEW e \in Events, StartHook(u, e)
  PROVE  Solo' /\ Clean'
<1>1. PICK g : /\ SoloStep(u, g) /\ Local /\ g.cache = cache
               /\ g.pc \in {"gc", "flow", "next"}
  BY SoloStarts
<1>2. Forgets(provs, apps, cache, g) /\ Collects(apps, cache, g)
  BY <1>1 DEF Forgets, Collects, Collected
<1>3. g.pc \notin SyncCalls /\ g.pc \notin {"mappings", "gcProv"} \cup TrustedCalls
  BY <1>1 DEF SyncCalls, TrustedCalls
<1>4. CleanHook(provs, apps, cache, g)
  BY <1>1, <1>2, <1>3 DEF CleanHook, Ahead, AtHand, TrustedCalls
<1>5. provs' = provs /\ apps' = apps BY <1>1 DEF Local, authentik
<1> QED BY <1>1, <1>4, <1>5, CleanStep DEF Clean

LEMMA CleanEnters ==
  ASSUME TypeOK, Solo, Clean, NEW u \in Units, ResolveFlow(u) \/ ToGarbage(u)
  PROVE  Solo' /\ Clean'
<1>1. hook[u].pc \in Entering /\ UNCHANGED <<authentik, stored>>
  BY DEF ResolveFlow, ToGarbage, At, Entering, Local
<1>2. PICK g : /\ Continue(u, g) /\ SameScope(hook[u], g)
               /\ g.cache = hook[u].cache /\ g.pc \in {"flow", "next", "gc"}
  BY FlowMoves, GarbageMoves
<1>3. CleanHook(provs, apps, cache, g)
  BY <1>1, <1>2, CleanRunning, CleanOnward DEF SameScope, TrustedCalls, Entering, SyncCalls
<1> QED BY <1>1, <1>2, <1>3, CleanLocal DEF SameScope, Entering

LEMMA CleanSkipRelation ==
  ASSUME TypeOK, Solo, Clean, NEW u \in Units, SkipRelation(u)
  PROVE  Solo' /\ Clean'
<1>1. PICK g, r : /\ Continue(u, g) /\ Local /\ g.seen = hook[u].seen
                  /\ g.active = hook[u].active /\ g.todo = hook[u].todo \ {r}
                  /\ g.cache = hook[u].cache /\ hook[u].pc = "next" /\ g.pc = "next"
  BY SkipMoves
<1>2. CleanHook(provs, apps, cache, g)
  BY <1>1, CleanRunning, CleanOnward DEF TrustedCalls, Entering, SyncCalls
<1> QED BY <1>1, <1>2, CleanLocal DEF Local

LEMMA CleanBeginRelation ==
  ASSUME TypeOK, Solo, Clean, NEW u \in Units, BeginRelation(u)
  PROVE  Solo' /\ Clean'
<1>1. PICK g, r : /\ Continue(u, g) /\ Local /\ r \in hook[u].todo
                  /\ g.seen = hook[u].seen /\ g.active = hook[u].active
                  /\ g.todo = hook[u].todo /\ g.cache = hook[u].cache
                  /\ hook[u].pc = "next" /\ g.pc = "mappings" /\ g.cur = r
                  /\ g.pk = g.cache[r].pk /\ g.slug = CachedSlug(g, r)
  BY BeginMoves
<1>2. CleanHook(provs, apps, cache, hook[u]) BY <1>1, CleanRunning
<1>3. Forgets(provs, apps, cache, g) /\ Collects(apps, cache, g)
  BY <1>1, <1>2 DEF CleanHook, Forgets, Collects
<1>4. Ahead(cache, g)
  BY <1>1, <1>2 DEF CleanHook, Ahead, Untried, Entering
<1>5. AtHand(apps, g) BY <1>1 DEF AtHand, TrustedCalls
<1>6. CleanHook(provs, apps, cache, g) BY <1>3, <1>4, <1>5 DEF CleanHook
<1> QED BY <1>1, <1>6, CleanLocal DEF Local

\* A call that is answered with what the entry says.
LEMMA CleanTrusts ==
  ASSUME TypeOK, Clean, NEW u \in Units, hook[u].pc \in {"mappings", "cachedApp"},
         NEW g, SameCache(hook[u], g), g.pk = hook[u].pk, g.slug = hook[u].slug,
         g.pc \in TrustedCalls, hook[u].cache[hook[u].cur].slug # "none",
         g.pc = "cachedProv" => apps[SlugOf(hook[u])] \in {AppAbsent, hook[u].pk}
  PROVE  CleanHook(provs, apps, cache, g)
<1> DEFINE h == hook[u]
<1>1. CleanHook(provs, apps, cache, h) BY CleanRunning
<1>2. g.cache = h.cache /\ g.active = h.active /\ g.todo = h.todo /\ g.cur = h.cur
  BY DEF SameCache, SameWork, SameScope
<1> HIDE DEF h
<1>3. h.pc \in {"mappings", "cachedApp"} /\ g.pk = h.pk /\ g.slug = h.slug
  BY DEF h
<1>4. Forgets(provs, apps, cache, g) /\ Collects(apps, cache, g)
  BY <1>1, <1>2, <1>3 DEF CleanHook, Forgets, Collects
<1>5. Ahead(cache, g)
  BY <1>1, <1>2, <1>3 DEF CleanHook, Ahead, Untried, TrustedCalls, SyncCalls
<1>6. AtHand(apps, g)
  BY <1>1, <1>2, <1>3 DEF CleanHook, AtHand, TrustedCalls, CachedSlug, SlugOf, h
<1> QED BY <1>4, <1>5, <1>6 DEF CleanHook

LEMMA CleanResolveMappings ==
  ASSUME TypeOK, Solo, Clean, NEW u \in Units, ResolveMappings(u)
  PROVE  Solo' /\ Clean'
<1>1. hook[u].pc = "mappings" /\ UNCHANGED <<authentik, stored>>
  BY DEF ResolveMappings, At, Local
<1>2. CASE CaughtStaleFlow(u) BY <1>1, <1>2, CleanCaught
<1>3. ASSUME NEW g, Continue(u, g), SameCache(hook[u], g),
             g.pk = hook[u].pk, g.slug = hook[u].slug,
             \/ g.pc = "managedApp"
             \/ g.pc = "cachedApp" /\ hook[u].cache[hook[u].cur].slug # "none"
      PROVE  Solo' /\ Clean'
  <2>1. CASE g.pc = "managedApp"
    <3>1. CleanHook(provs, apps, cache, g)
      BY <1>1, <1>3, <2>1, CleanRunning, CleanOnward
         DEF SameCache, SameWork, SameScope, TrustedCalls, Entering, SyncCalls
    <3> QED BY <1>1, <1>3, <3>1, CleanLocal DEF SameCache, SameWork, SameScope
  <2>2. CASE g.pc = "cachedApp" /\ hook[u].cache[hook[u].cur].slug # "none"
    <3>1. CleanHook(provs, apps, cache, g)
      BY <1>1, <1>3, <2>2, CleanTrusts DEF TrustedCalls
    <3> QED BY <1>1, <1>3, <3>1, CleanLocal DEF SameCache, SameWork, SameScope
  <2> QED BY <1>3, <2>1, <2>2
<1> QED BY <1>2, <1>3, MappingsMoves

LEMMA CleanGetCachedApplication ==
  ASSUME TypeOK, Solo, Clean, NEW u \in Units, GetCachedApplication(u)
  PROVE  Solo' /\ Clean'
<1>1. hook[u].pc = "cachedApp" BY DEF GetCachedApplication, At
<1>2. ASSUME Caught(u), Local PROVE Solo' /\ Clean' BY <1>1, <1>2, CleanCaught DEF Local
<1>3. ASSUME HookFailed(u), UNCHANGED <<authentik, budgets>> PROVE Solo' /\ Clean'
  BY <1>1, <1>3, CleanFailed
<1>4. ASSUME NEW g, Continue(u, g), SameCache(hook[u], g), Local,
             g.pk = hook[u].pk, g.slug = hook[u].slug,
             g.pc = "cachedProv", apps[SlugOf(hook[u])] \in {AppAbsent, hook[u].pk}
      PROVE  Solo' /\ Clean'
  <2>1. hook[u].cache[hook[u].cur].slug # "none"
    BY <1>1, CleanRunning DEF CleanHook, AtHand, TrustedCalls
  <2>2. CleanHook(provs, apps, cache, g)
    BY <1>1, <1>4, <2>1, CleanTrusts DEF TrustedCalls
  <2> QED BY <1>1, <1>4, <2>2, CleanLocal DEF SameCache, SameWork, SameScope, Local
<1> QED BY <1>2, <1>3, <1>4, CachedApplicationMoves

LEMMA CleanGetCachedProvider ==
  ASSUME TypeOK, Tracked, Solo, Clean, NEW u \in Units, GetCachedProvider(u)
  PROVE  Solo' /\ Clean'
<1> DEFINE h == hook[u]
<1>1. h.pc = "cachedProv" /\ UNCHANGED <<authentik, stored>>
  BY DEF GetCachedProvider, At, Local
<1>2. PICK g : /\ Continue(u, g)
               /\ \/ SameCache(h, g) /\ g.pc = "update"
                  \/ /\ WithEntry(h, g, NoEntry) /\ g.pc = "managedApp"
                     /\ ~ProviderExists(provs, h.pk)
  BY CachedProviderMoves
<1>3. CleanHook(provs, apps, cache, h) BY <1>1, CleanRunning
<1>4. /\ h.cur \in Relations /\ h.slug \in Kinds /\ h.cur \in h.active
      /\ h.cache \in [Relations -> Entries \cup {NoEntry}]
  BY <1>1, TrackedCaller DEF SyncCalls
<1>5. h.pk \in Pks BY <1>1, CallingHook DEF SyncCalls, KeyCalls
<1>6. Referenced(provs, apps) BY DEF Clean
<1>7. ASSUME CleanHook(provs, apps, cache, g) PROVE Solo' /\ Clean'
  BY <1>1, <1>2, <1>7, CleanLocal DEF SameCache, WithEntry, SameWork, SameScope
<1> HIDE DEF h
<1>8. CASE SameCache(h, g) /\ g.pc = "update"
  <2>1. CleanHook(provs, apps, cache, g)
    BY <1>1, <1>3, <1>8, CleanOnward
       DEF SameCache, SameWork, SameScope, TrustedCalls, Entering, SyncCalls
  <2> QED BY <1>7, <2>1
<1>9. CASE /\ WithEntry(h, g, NoEntry) /\ g.pc = "managedApp"
           /\ ~ProviderExists(provs, h.pk)
  <2>1. cache[h.cur] = h.cache[h.cur]
    BY <1>1, <1>3 DEF CleanHook, Ahead, Untried, TrustedCalls, SyncCalls
  <2>2. /\ h.pk = h.cache[h.cur].pk /\ h.slug = CachedSlug(h, h.cur)
        /\ h.cache[h.cur].slug # "none" /\ apps[SlugOf(h)] \in {AppAbsent, h.pk}
    BY <1>1, <1>3 DEF CleanHook, AtHand, TrustedCalls
  <2>3. SlugOf(h) = <<cache[h.cur].slug, h.cur>> /\ SlugOf(h) \in Slugs
    BY <1>4, <2>1, <2>2 DEF CachedSlug, SlugOf, Slugs
  <2>4. apps[SlugOf(h)] = AppAbsent BY <1>5, <1>6, <1>9, <2>2, <2>3 DEF Referenced
  <2>5. Deleted(provs, apps, h.cur, cache[h.cur]) BY <1>9, <2>1, <2>2, <2>3, <2>4 DEF Deleted
  <2>6. h.pc \in SyncCalls /\ g.pc \in SyncCalls \ Untried
    BY <1>1, <1>9 DEF SyncCalls, Untried, Entering, TrustedCalls
  <2>7. CleanHook(provs, apps, cache, g)
    BY <1>3, <1>4, <1>9, <2>5, <2>6, CleanEntry
  <2> QED BY <1>7, <2>7
<1> QED BY <1>2, <1>8, <1>9

LEMMA CleanGetApplication ==
  ASSUME TypeOK, Solo, Clean, NEW u \in Units, NEW kind,
         \/ GetApplication(u, "managedApp", kind, "legacyApp")
         \/ GetApplication(u, "legacyApp", kind, "find")
  PROVE  Solo' /\ Clean'
<1>1. hook[u].pc \in {"managedApp", "legacyApp"} /\ UNCHANGED <<authentik, stored>>
  BY DEF GetApplication, At, Local
<1>2. CASE Caught(u) BY <1>1, <1>2, CleanCaught
<1>3. CASE ~Caught(u)
  <2>1. PICK g : /\ Continue(u, g) /\ SameCache(hook[u], g)
                 /\ g.pc \in {"legacyApp", "find", "validate"}
    BY <1>3, ApplicationMoves
  <2>2. CleanHook(provs, apps, cache, g)
    BY <1>1, <2>1, CleanRunning, CleanOnward
       DEF SameCache, SameWork, SameScope, TrustedCalls, Entering, SyncCalls
  <2> QED BY <1>1, <2>1, <2>2, CleanLocal DEF SameCache, SameWork, SameScope
<1> QED BY <1>2, <1>3

\* A call that ends with an entry for the relation.
LEMMA CleanFinds ==
  ASSUME TypeOK, Tracked, Solo, Clean, NEW u \in Units, hook[u].pc \in SyncCalls,
         NEW g, NEW e, Continue(u, g), WithEntry(hook[u], g, e), e # NoEntry,
         g.pc \in {"update", "createApp"}, UNCHANGED <<apps, stored>>,
         CleanHook(provs', apps, cache, hook[u]), Referenced(provs', apps)
  PROVE  Solo' /\ Clean'
<1>1. g.pc \in SyncCalls \ Untried BY DEF SyncCalls, Untried, Entering, TrustedCalls
<1>2. hook[u].cur \in hook[u].active
      /\ hook[u].cache \in [Relations -> Entries \cup {NoEntry}]
  BY TrackedCaller
<1>3. CleanHook(provs', apps, cache, g) BY <1>1, <1>2, CleanEntry
<1>4. hook[u].pc # "idle" BY DEF SyncCalls
<1>5. SoloStep(u, g)
  BY <1>4, CleanRunning, SoloGoesOn DEF WithEntry, SameWork, SameScope, stored
<1> QED BY <1>3, <1>5, CleanStep

LEMMA CleanValidateProvider ==
  ASSUME TypeOK, Tracked, Solo, Clean, NEW u \in Units, ValidateProvider(u)
  PROVE  Solo' /\ Clean'
<1>1. hook[u].pc = "validate" /\ UNCHANGED <<authentik, stored>>
  BY DEF ValidateProvider, At, Local
<1>2. CASE Caught(u) BY <1>1, <1>2, CleanCaught
<1>3. CASE ~Caught(u)
  <2>1. PICK g, e : /\ Continue(u, g) /\ WithEntry(hook[u], g, e) /\ e # NoEntry
                    /\ g.pc = "update"
    BY <1>3, ValidateMoves
  <2>2. provs' = provs /\ apps' = apps BY <1>1 DEF authentik
  <2> QED BY <1>1, <2>1, <2>2, CleanRunning, CleanFinds DEF Clean, SyncCalls
<1> QED BY <1>2, <1>3

LEMMA CleanFindProvider ==
  ASSUME TypeOK, Tracked, Solo, Clean, NEW u \in Units, FindProvider(u)
  PROVE  Solo' /\ Clean'
<1>1. hook[u].pc = "find" /\ UNCHANGED <<authentik, stored>>
  BY DEF FindProvider, At, Local
<1>2. provs' = provs /\ apps' = apps BY <1>1 DEF authentik
<1>3. ASSUME NEW g, Continue(u, g), SameCache(hook[u], g), g.pc = "create"
      PROVE  Solo' /\ Clean'
  <2>1. CleanHook(provs, apps, cache, g)
    BY <1>1, <1>3, CleanRunning, CleanOnward
       DEF SameCache, SameWork, SameScope, TrustedCalls, Entering, SyncCalls
  <2> QED BY <1>1, <1>3, <2>1, CleanLocal DEF SameCache, SameWork, SameScope
<1>4. ASSUME NEW g, NEW e, Continue(u, g), WithEntry(hook[u], g, e), e # NoEntry, g.pc = "update"
      PROVE  Solo' /\ Clean'
  BY <1>1, <1>2, <1>4, CleanRunning, CleanFinds DEF Clean, SyncCalls
<1> QED BY <1>3, <1>4, FindMoves

LEMMA CleanRecoverProvider ==
  ASSUME TypeOK, Tracked, Solo, Clean, NEW u \in Units, RecoverProvider(u)
  PROVE  Solo' /\ Clean'
<1>1. hook[u].pc = "recover" /\ UNCHANGED authentik
  BY DEF RecoverProvider, At, Local
<1>2. CASE HookFailed(u) BY <1>1, <1>2, CleanFailed
<1>3. CASE Caught(u) /\ Local BY <1>1, <1>3, CleanCaught DEF Local
<1>4. ASSUME NEW p \in Pks, Continue(u, AfterCreate(hook[u], p)), Local PROVE Solo' /\ Clean'
  <2>1. PICK e : /\ WithEntry(hook[u], AfterCreate(hook[u], p), e) /\ e # NoEntry
                 /\ AfterCreate(hook[u], p).pc = "createApp"
    BY AfterCreateMoves
  <2>2. provs' = provs /\ apps' = apps BY <1>1 DEF authentik
  <2> QED BY <1>1, <1>4, <2>1, <2>2, CleanRunning, CleanFinds DEF Clean, SyncCalls, Local
<1> QED BY <1>2, <1>3, <1>4 DEF RecoverProvider, PksNamed

\* A provider created under a key nobody holds.
LEMMA CleanCreated ==
  ASSUME TypeOK, Clean, NEW p \in Pks, FreshPk(p), NEW rec, rec # NoProvider,
         provs' = WithProvider(provs, p, rec)
  PROVE  /\ Referenced(provs', apps)
         /\ \A u \in Units : CleanHook(provs', apps, cache, hook[u])
<1>1. \A q \in Pks : provs'[q] = IF q = p THEN rec ELSE provs[q]
  BY DEF WithProvider, TypeOK
<1>2. \A r \in Relations : cache[r].pk # p BY DEF FreshPk, Least, PksInUse
<1>3. \A r \in Relations : ProviderExists(provs', cache[r].pk) => ProviderExists(provs, cache[r].pk)
  BY <1>1, <1>2 DEF ProviderExists
<1>4. Referenced(provs', apps) BY <1>1 DEF Clean, Referenced, ProviderExists
<1>5. \A u \in Units : CleanHook(provs, apps, cache, hook[u]) BY DEF Clean
<1> QED BY <1>3, <1>4, <1>5, CleanStore

LEMMA RequestExists == ASSUME NEW h PROVE Request(h) # NoProvider
BY DEF Request, NoProvider, NoName, ManagedName

\* A create request that is executed, with or without an answer.
LEMMA CleanCreateProvider ==
  ASSUME TypeOK, Tracked, Solo, Clean, NEW u \in Units, CreateProvider(u)
  PROVE  Solo' /\ Clean'
<1>1. PICK p \in Pks : /\ FreshPk(p) /\ provs' = WithProvider(provs, p, Request(hook[u]))
                       /\ Continue(u, AfterCreate(hook[u], p))
  BY DEF CreateProvider, ProviderCreated
<1>2. hook[u].pc = "create" /\ UNCHANGED <<apps, stored>> BY DEF CreateProvider, At
<1>3. PICK e : /\ WithEntry(hook[u], AfterCreate(hook[u], p), e) /\ e # NoEntry
               /\ AfterCreate(hook[u], p).pc = "createApp"
  BY AfterCreateMoves
<1>4. /\ Referenced(provs', apps)
      /\ CleanHook(provs', apps, cache, hook[u])
  BY <1>1, CleanCreated, RequestExists
<1> QED BY <1>1, <1>2, <1>3, <1>4, CleanFinds DEF SyncCalls

LEMMA CleanRecovering ==
  ASSUME TypeOK, Solo, Clean, NEW u \in Units,
         CreateProviderConflict(u) \/ CreateProviderLost(u)
  PROVE  Solo' /\ Clean'
<1>1. hook[u].pc = "create" /\ UNCHANGED <<apps, stored>>
  BY DEF CreateProviderConflict, CreateProviderLost, At, Local, authentik
<1>2. PICK g : Continue(u, g) /\ SameCache(hook[u], g) /\ g.pc = "recover"
  BY RecoveringMoves
<1>3. Referenced(provs', apps) /\ CleanHook(provs', apps, cache, hook[u])
  <2>1. CASE provs' = provs BY <2>1 DEF Clean
  <2>2. CASE provs' # provs
    <3>1. \E p \in Pks : FreshPk(p) /\ provs' = WithProvider(provs, p, Request(hook[u]))
      BY <2>2 DEF CreateProviderConflict, CreateProviderLost, ProviderCreated, Local, authentik
    <3> QED BY <3>1, CleanCreated, RequestExists
  <2> QED BY <2>1, <2>2
<1>4. CleanHook(provs', apps, cache, g)
  BY <1>1, <1>2, <1>3, CleanOnward
     DEF SameCache, SameWork, SameScope, TrustedCalls, Entering, SyncCalls
<1>5. SoloStep(u, g)
  BY <1>1, <1>2, CleanRunning, SoloGoesOn DEF SameCache, SameWork, SameScope, stored
<1> QED BY <1>1, <1>3, <1>4, <1>5, CleanStep

LEMMA CleanCreateProviderInvalid ==
  ASSUME TypeOK, Solo, Clean, NEW u \in Units, CreateProviderInvalid(u)
  PROVE  Solo' /\ Clean'
BY CleanCaught DEF CreateProviderInvalid, At, Local

LEMMA CleanUpdateProvider ==
  ASSUME TypeOK, Solo, Clean, NEW u \in Units, UpdateProvider(u)
  PROVE  Solo' /\ Clean'
<1>1. hook[u].pc = "update" /\ UNCHANGED <<apps, flows, late, stored>>
  BY DEF UpdateProvider, At
<1>2. CASE CaughtStaleFlow(u) /\ UNCHANGED provs
  BY <1>1, <1>2, CleanCaught DEF authentik
<1>3. CASE ~(CaughtStaleFlow(u) /\ UNCHANGED provs)
  <2>1. /\ ProviderExists(provs, hook[u].pk)
        /\ provs' = WithProvider(provs, hook[u].pk, Request(hook[u]))
    BY <1>3, UpdateMoves DEF UpdateAccepted
  <2>2. PICK g : /\ Continue(u, g) /\ SameCache(hook[u], g)
                 /\ g.pc \in {"updateApp", "createApp"}
    BY <1>3, UpdateMoves
  <2>3. \A q : ProviderExists(provs', q) <=> ProviderExists(provs, q)
    BY <2>1, RequestExists DEF ProviderExists, WithProvider, TypeOK
  <2>4. Referenced(provs', apps) /\ CleanHook(provs', apps, cache, hook[u])
    BY <2>3, CleanStore DEF Clean, Referenced
  <2>5. CleanHook(provs', apps, cache, g)
    BY <1>1, <2>2, <2>4, CleanOnward
       DEF SameCache, SameWork, SameScope, TrustedCalls, Entering, SyncCalls
  <2>6. SoloStep(u, g)
    BY <1>1, <2>2, CleanRunning, SoloGoesOn DEF SameCache, SameWork, SameScope
  <2> QED BY <1>1, <2>4, <2>5, <2>6, CleanStep
<1> QED BY <1>2, <1>3

LEMMA CachedSlugs ==
  ASSUME TypeOK
  PROVE  \A r \in Relations : cache[r].slug \in Kinds \cup {"none"}
<1>1. cache \in [Relations -> Entries \cup {NoEntry}] BY DEF TypeOK
<1>2. \A e \in Entries \cup {NoEntry} : e.slug \in Kinds \cup {"none"} BY DEF Entries, NoEntry
<1> QED BY <1>1, <1>2

\* The relation is synchronized, its application written.
LEMMA CleanSynced ==
  ASSUME TypeOK, Clean, NEW h, h \in HookTypes, CleanHook(provs, apps, cache, h),
         h.pc \in {"createApp", "updateApp"}, h.cur \in Relations, h.cur \in h.active,
         h.pk \in Pks, NEW g, SyncedHook(h, g),
         NEW as, \A r \in Relations \ {h.cur} : \A k \in Kinds : as[<<k, r>>] = apps[<<k, r>>]
  PROVE  CleanHook(provs, as, cache, g)
<1>1. h.pc # "idle" /\ h.pc \in SyncCalls BY DEF SyncCalls
<1>2. /\ g.pc = "next" /\ g.active = h.active /\ g.todo = h.todo \ {h.cur}
      /\ g.cache[h.cur] # NoEntry
      /\ \A r \in Relations \ {h.cur} : g.cache[r] = h.cache[r]
  BY DEF SyncedHook, HookTypes, NoEntry, NoPk, Pks
<1>3. \A r \in Relations : cache[r].slug \in Kinds \cup {"none"} BY CachedSlugs
<1>4. \A r \in Relations \ {h.cur} : \A f : Collected(apps, r, cache[r], f) =>
        Collected(as, r, cache[r], f)
  BY <1>3 DEF Collected
<1>5. Forgets(provs, as, cache, g)
  BY <1>1, <1>2, <1>3 DEF CleanHook, Forgets, Deleted
<1>6. Collects(as, cache, g)
  <2>1. ASSUME NEW r \in Relations \ h.active, g.cache[r] # NoEntry
        PROVE  Collected(as, r, cache[r], g.cache[r])
    BY <1>1, <1>2, <1>4, <2>1 DEF CleanHook, Collects
  <2> QED BY <1>2, <2>1 DEF Collects
<1>7. Ahead(cache, g)
  <2>1. h.todo \subseteq Relations BY DEF HookTypes
  <2> QED BY <1>1, <1>2, <2>1 DEF CleanHook, Ahead, SyncCalls
<1>8. AtHand(as, g) BY <1>2 DEF AtHand, TrustedCalls
<1> QED BY <1>5, <1>6, <1>7, <1>8 DEF CleanHook

LEMMA CleanWriteApplication ==
  ASSUME TypeOK, Tracked, Solo, Clean, NEW u \in Units,
         CreateApplication(u) \/ CreateApplicationRefused(u) \/ UpdateApplication(u)
  PROVE  Solo' /\ Clean'
<1> DEFINE h == hook[u]
<1>1. h.pc \in {"createApp", "updateApp"} /\ UNCHANGED <<provs, flows, late, stored>>
  BY WriteApplicationMoves
<1>2. CASE (Caught(u) \/ CaughtStaleFlow(u)) /\ UNCHANGED apps
  BY <1>1, <1>2, CleanCaught DEF authentik
<1>3. CASE ~((Caught(u) \/ CaughtStaleFlow(u)) /\ UNCHANGED apps)
  <2>1. \/ apps' = apps
        \/ ProviderExists(provs, h.pk) /\ apps' = WithApp(apps, SlugOf(h), h.pk)
    BY <1>3, WriteApplicationMoves
  <2>2. PICK g : Continue(u, g) /\ SyncedHook(h, g) BY <1>3, WriteApplicationMoves
  <2>3. /\ h \in HookTypes /\ h.cur \in Relations /\ h.cur \in h.active
        /\ h.slug \in Kinds /\ h.pk \in Pks /\ h.pc # "idle"
    BY <1>1, TrackedCaller, CallingHook DEF SyncCalls, KeyCalls
  <2>4. CleanHook(provs, apps, cache, h) BY <2>3, CleanRunning
  <2>5. SoloStep(u, g) BY <1>1, <2>2, <2>3, CleanRunning, SoloGoesOn DEF SyncedHook
  <2> HIDE DEF h
  <2>6. \A s \in Slugs : apps'[s] = apps[s] \/ (s = SlugOf(h) /\ apps'[s] = h.pk)
    BY <2>1 DEF WithApp, TypeOK
  <2>7. \A r \in Relations \ {h.cur} : \A k \in Kinds : apps'[<<k, r>>] = apps[<<k, r>>]
    BY <2>6 DEF SlugOf, Slugs
  <2>8. Referenced(provs, apps')
    <3>1. CASE apps' = apps BY <3>1 DEF Clean
    <3>2. CASE apps' # apps BY <2>1, <2>6, <3>2 DEF Clean, Referenced
    <3> QED BY <3>1, <3>2
  <2>9. CleanHook(provs, apps', cache, g) BY <1>1, <2>2, <2>3, <2>4, <2>7, CleanSynced
  <2> QED BY <1>1, <2>5, <2>8, <2>9, CleanStep
<1> QED BY <1>2, <1>3

LEMMA CleanCollectNext ==
  ASSUME TypeOK, Solo, Clean, NEW u \in Units, CollectNext(u)
  PROVE  Solo' /\ Clean'
<1>1. hook[u].pc = "gc" /\ UNCHANGED <<authentik, stored>> BY DEF CollectNext, At, Local
<1>2. PICK g : /\ Continue(u, g) /\ SameScope(hook[u], g) /\ g.cache = hook[u].cache
               /\ g.pc \in {"commit", "gcApp", "gcProv"}
               /\ g.pc = "gcProv" => g.cache[g.cur].slug = "none"
  BY CollectMoves
<1>3. CleanHook(provs, apps, cache, g)
  BY <1>1, <1>2, CleanRunning, CleanOnward DEF SameScope, TrustedCalls, Entering, SyncCalls
<1> QED BY <1>1, <1>2, <1>3, CleanLocal DEF SameScope

\* What a collection makes of the hook: nothing is left to synchronize.
LEMMA CleanCollecting ==
  ASSUME NEW ps, NEW as, NEW ca, NEW g, g.pc \in {"gc", "gcProv"},
         Forgets(ps, as, ca, g), Collects(as, ca, g),
         g.pc = "gcProv" => g.cache[g.cur].slug = "none"
  PROVE  CleanHook(ps, as, ca, g)
BY DEF CleanHook, Ahead, AtHand, Untried, Entering, TrustedCalls, SyncCalls

LEMMA CleanDeleteApplication ==
  ASSUME TypeOK, Tracked, Solo, Clean, NEW u \in Units, DeleteApplication(u)
  PROVE  Solo' /\ Clean'
<1> DEFINE h == hook[u]
           d == h.cache[h.cur]
<1>1. /\ h.pc = "gcApp" /\ d \in Entries
      /\ apps' = WithoutApp(apps, <<d.slug, h.cur>>)
      /\ UNCHANGED <<provs, flows, late, stored>>
  BY DeleteApplicationMoves
<1>2. PICK g, e : /\ Continue(u, g) /\ Stripped(h, g, e)
                  /\ e.pk = d.pk /\ e.slug = "none" /\ e # NoEntry /\ g.pc = "gcProv"
  BY DeleteApplicationMoves
<1>3. /\ h.cur \in Relations /\ h.cur \notin h.active /\ h.pc # "idle"
      /\ h.cache \in [Relations -> Entries \cup {NoEntry}]
  BY <1>1, TrackedCollecting
<1>4. d.slug \in Kinds BY <1>1, HookWellFormed DEF WellFormed, HookShape
<1>5. CleanHook(provs, apps, cache, h) BY <1>3, CleanRunning
<1>6. SoloStep(u, g) BY <1>1, <1>2, <1>3, CleanRunning, SoloGoesOn DEF Stripped, SameScope
<1>7. d # NoEntry BY <1>1 DEF Entries, NoEntry, NoPk, Pks
<1> HIDE DEF h, d
<1>8. \A s \in Slugs : apps'[s] = IF s = <<d.slug, h.cur>> THEN AppAbsent ELSE apps[s]
  BY <1>1 DEF WithoutApp, TypeOK
<1>9. \A r \in Relations : cache[r].slug \in Kinds \cup {"none"} BY CachedSlugs
<1>10. \A r \in Relations, k \in Kinds : apps[<<k, r>>] = AppAbsent => apps'[<<k, r>>] = AppAbsent
  BY <1>8 DEF Slugs
<1>11. \A r \in Relations : g.cache[r] = IF r = h.cur THEN e ELSE h.cache[r]
  BY <1>2, <1>3 DEF Stripped
<1>12. Forgets(provs, apps', cache, g)
  BY <1>2, <1>3, <1>5, <1>9, <1>10, <1>11 DEF CleanHook, Forgets, Deleted
<1>13. Collects(apps', cache, g)
  <2>1. ASSUME NEW r \in Relations \ h.active, g.cache[r] # NoEntry
        PROVE  Collected(apps', r, cache[r], g.cache[r])
    <3>1. CASE r = h.cur
      <4>1. Collected(apps, r, cache[r], d)
        BY <1>3, <1>5, <1>7, <3>1 DEF CleanHook, Collects, d
      <4>2. d.slug = cache[r].slug /\ d.pk = cache[r].pk
        BY <1>4, <4>1 DEF Collected, Kinds
      <4>3. apps'[<<d.slug, r>>] = AppAbsent BY <1>3, <1>4, <1>8, <3>1 DEF Slugs
      <4> QED BY <1>2, <1>11, <3>1, <4>2, <4>3 DEF Collected
    <3>2. CASE r # h.cur
      <4>1. Collected(apps, r, cache[r], h.cache[r]) /\ g.cache[r] = h.cache[r]
        BY <1>3, <1>5, <1>11, <2>1, <3>2 DEF CleanHook, Collects
      <4> QED BY <1>9, <1>10, <4>1 DEF Collected
    <3> QED BY <3>1, <3>2
  <2> QED BY <1>2, <2>1 DEF Collects, Stripped, SameScope
<1>14. g.cache[g.cur].slug = "none" BY <1>2, <1>3, <1>11 DEF Stripped
<1>15. g.pc = "gcProv" BY <1>2
<1>16. CleanHook(provs, apps', cache, g) BY <1>12, <1>13, <1>14, <1>15, CleanCollecting
<1>17. Referenced(provs, apps')
  <2>1. Referenced(provs, apps) BY DEF Clean
  <2> QED BY <1>8, <2>1 DEF Referenced, AppAbsent, Pks
<1> QED BY <1>1, <1>6, <1>16, <1>17, CleanStep

LEMMA CleanDeleteProvider ==
  ASSUME TypeOK, Tracked, Solo, Clean, NEW u \in Units, DeleteProvider(u)
  PROVE  Solo' /\ Clean'
<1> DEFINE h == hook[u]
<1>1. /\ h.pc = "gcProv"
      /\ provs' = WithoutProvider(provs, h.pk) /\ apps' = Detach(apps, h.pk)
      /\ UNCHANGED <<flows, late, stored>>
  BY DeleteProviderMoves
<1>2. PICK g : /\ Continue(u, g) /\ SameScope(h, g)
               /\ g.cache = [h.cache EXCEPT ![h.cur] = NoEntry] /\ g.pc = "gc"
  BY DeleteProviderMoves
<1>3. /\ h.cur \in Relations /\ h.cur \notin h.active /\ h.pc # "idle" /\ h.pk \in Pks
      /\ h.cache \in [Relations -> Entries \cup {NoEntry}]
      /\ h.pk = h.cache[h.cur].pk
  BY <1>1, TrackedCollecting
<1>4. CleanHook(provs, apps, cache, h) BY <1>3, CleanRunning
<1>5. SoloStep(u, g) BY <1>1, <1>2, <1>3, CleanRunning, SoloGoesOn DEF SameScope
<1> HIDE DEF h
<1>6. \A q \in Pks : provs'[q] = IF q = h.pk THEN NoProvider ELSE provs[q]
  BY <1>1 DEF WithoutProvider, TypeOK
<1>7. \A s \in Slugs : apps'[s] = IF apps[s] = h.pk THEN NoPk ELSE apps[s]
  BY <1>1 DEF Detach
<1>8. \A q : ProviderExists(provs', q) <=> ProviderExists(provs, q) /\ q # h.pk
  BY <1>6 DEF ProviderExists
<1>9. \A r \in Relations, k \in Kinds : apps[<<k, r>>] = AppAbsent => apps'[<<k, r>>] = AppAbsent
  BY <1>3, <1>7 DEF Slugs, AppAbsent, Pks
<1>10. \A r \in Relations : cache[r].slug \in Kinds \cup {"none"} BY CachedSlugs
<1>11. \A r \in Relations : g.cache[r] = IF r = h.cur THEN NoEntry ELSE h.cache[r]
  BY <1>2, <1>3
<1>12. h.cache[h.cur].slug = "none" BY <1>1, <1>4 DEF CleanHook, AtHand
<1>13. h.cache[h.cur] # NoEntry BY <1>3 DEF NoEntry, NoPk, Pks
<1>14. Deleted(provs', apps', h.cur, cache[h.cur])
  <2>1. Collected(apps, h.cur, cache[h.cur], h.cache[h.cur])
    BY <1>3, <1>4, <1>13 DEF CleanHook, Collects
  <2> QED BY <1>3, <1>8, <1>9, <1>10, <1>12, <2>1 DEF Collected, Deleted
<1>15. Forgets(provs', apps', cache, g)
  <2>1. ASSUME NEW r \in Relations \ {h.cur}, g.cache[r] = NoEntry, cache[r] # NoEntry
        PROVE  Deleted(provs', apps', r, cache[r])
    <3>1. Deleted(provs, apps, r, cache[r])
      BY <1>3, <1>4, <1>11, <2>1 DEF CleanHook, Forgets
    <3> QED BY <1>8, <1>9, <1>10, <3>1 DEF Deleted
  <2> QED BY <1>14, <2>1 DEF Forgets
<1>16. Collects(apps', cache, g)
  <2>1. ASSUME NEW r \in Relations \ h.active, g.cache[r] # NoEntry
        PROVE  Collected(apps', r, cache[r], g.cache[r])
    <3>1. Collected(apps, r, cache[r], g.cache[r])
      BY <1>3, <1>4, <1>11, <2>1 DEF CleanHook, Collects
    <3> QED BY <1>9, <1>10, <3>1 DEF Collected
  <2> QED BY <1>2, <2>1 DEF Collects, SameScope
<1>17. CleanHook(provs', apps', cache, g) BY <1>2, <1>15, <1>16, CleanCollecting
<1>18. Referenced(provs', apps')
  <2>1. ASSUME NEW s \in Slugs, apps'[s] \in Pks PROVE ProviderExists(provs', apps'[s])
    <3>1. apps'[s] = apps[s] /\ apps[s] # h.pk BY <1>7, <2>1 DEF NoPk, Pks
    <3> QED BY <1>8, <2>1, <3>1 DEF Clean, Referenced
  <2> QED BY <2>1 DEF Referenced
<1> QED BY <1>5, <1>17, <1>18, CleanStep

LEMMA CleanCommit ==
  ASSUME TypeOK, Solo, Clean, NEW u \in Units, Commit(u)
  PROVE  Solo' /\ Clean'
<1>1. hook[u].pc # "idle" /\ UNCHANGED authentik BY DEF Commit, At
<1>2. Continue(u, IdleHook) BY DEF Commit, HookFailed
<1>3. Solo' /\ \A v \in Units : hook'[v].pc = "idle" BY <1>1, <1>2, SoloEnds DEF Busy, At
<1>4. provs' = provs /\ apps' = apps BY <1>1 DEF authentik
<1> QED BY <1>3, <1>4 DEF Clean, CleanHook

LEMMA CleanElsewhere == ASSUME Solo, Clean, UNCHANGED <<provs, apps, stored, hook>> PROVE Solo' /\ Clean'
<1>1. Solo' BY SoloElsewhere
<1> QED BY <1>1 DEF Clean, stored

LEMMA CleanLateCreate == ASSUME TypeOK, Solo, Clean, LateCreate PROVE Solo' /\ Clean'
<1>1. UNCHANGED <<apps, stored, hook>> BY DEF LateCreate
<1>2. CASE provs' = provs BY <1>1, <1>2, CleanElsewhere
<1>3. CASE provs' # provs
  <2>1. PICK q \in late, p \in Pks : FreshPk(p) /\ provs' = WithProvider(provs, p, q)
    BY <1>3 DEF LateCreate
  <2>2. q # NoProvider
    <3>1. q \in Providers BY <2>1 DEF TypeOK
    <3> QED BY <3>1 DEF Providers, NoProvider, NoCred, Creds
  <2>3. /\ Referenced(provs', apps) /\ \A u \in Units : CleanHook(provs', apps, cache, hook[u])
    BY <2>1, <2>2, CleanCreated
  <2>4. Solo' BY <1>1, SoloElsewhere
  <2> QED BY <1>1, <2>3, <2>4 DEF Clean, stored
<1> QED BY <1>2, <1>3

LEMMA CleanHookStep ==
  ASSUME TypeOK, Tracked, Solo, Clean, NEW u \in Units, HookStep(u)
  PROVE  Solo' /\ Clean'
<1>1. CASE Discovery(u)
  <2>1. Kinds = {"managed", "legacy"} BY DEF Kinds
  <2> QED BY <1>1, CleanGetCachedApplication, CleanGetCachedProvider, CleanGetApplication,
       CleanValidateProvider, CleanFindProvider
       DEF Discovery, GetManagedApplication, GetLegacyApplication
<1>2. CASE Writes(u)
  BY <1>2, CleanCreateProvider, CleanCreateProviderInvalid, CleanRecovering,
     CleanRecoverProvider, CleanUpdateProvider, CleanWriteApplication DEF Writes
<1>3. CASE Collection(u)
  BY <1>3, CleanCollectNext, CleanDeleteApplication, CleanDeleteProvider DEF Collection
<1> QED BY <1>1, <1>2, <1>3, CleanEnters, CleanSkipRelation, CleanBeginRelation,
       CleanResolveMappings, CleanCommit DEF HookStep

LEMMA CleanFaults ==
  ASSUME TypeOK, Solo, Clean, NEW u \in Units, Faults(u)
  PROVE  Solo' /\ Clean'
<1>1. CASE HookFails(u) BY <1>1, CleanFailed DEF HookFails, Busy, At
<1>2. CASE CallRefused(u)
  <2>1. hook[u].pc # "idle" BY <1>2 DEF CallRefused, At, Calls, SyncCalls
  <2> QED BY <1>2, <2>1, CleanCaught DEF CallRefused
<1>3. CASE CreateProviderLost(u) BY <1>3, CleanRecovering
<1>4. CASE Elect(u) BY <1>4, CleanElsewhere DEF Elect, authentik
<1>5. CASE \E e \in Events : SkippedHook(u, e)
  BY <1>5, CleanElsewhere DEF SkippedHook, HandleEvent, authentik
<1> QED BY <1>1, <1>2, <1>3, <1>4, <1>5 DEF Faults

LEMMA CleanEnvironment ==
  ASSUME TypeOK, Solo, Clean, NoTampering, Environment
  PROVE  Solo' /\ Clean'
<1>1. ~Tamper BY DEF Tamper, NoTampering, TypeOK
<1>2. CASE LateCreate BY <1>2, CleanLateCreate
<1>3. CASE ~LateCreate
  <2>1. UNCHANGED <<provs, apps, stored, hook>>
    BY <1>1, <1>3 DEF Environment, Integrate, ChangeConf, RemoveRelation, ClientSecretLost,
       ResolveWithoutRetry, AdminDeletesProvider, AdminDeletesApplication, AdminRecreatesFlow,
       authentik
  <2> QED BY <2>1, CleanElsewhere
<1> QED BY <1>2, <1>3

LEMMA CleanNext ==
  ASSUME TypeOK, Tracked, Solo, Clean, NoOverlap, NoTampering, Next
  PROVE  Solo' /\ Clean'
<1>1. ASSUME NEW u \in Units, NEW e \in Events, Dispatch(u, e) PROVE Solo' /\ Clean'
  <2>1. CASE StartHook(u, e) BY <2>1, CleanStartHook
  <2>2. CASE FollowerHook(u, e)
    BY <2>2, CleanElsewhere DEF FollowerHook, HandleEvent, authentik
  <2> QED BY <1>1, <2>1, <2>2 DEF Dispatch
<1> QED BY <1>1, CleanHookStep, CleanFaults, CleanEnvironment DEF Next

LEMMA CleanInit == ASSUME Init PROVE Solo /\ Clean
<1>1. \A u \in Units : hook[u].pc = "idle" BY DEF Init, IdleHook
<1>2. Referenced(provs, apps)
  <2>1. PICK l :
          /\ \A p \in Pks : p \in Relations /\ l[p] # "none" =>
               provs[p].name \in {LegacyName(p), Foreign}
          /\ \A s \in Slugs : apps[s] # AppAbsent => s[2] \in Relations /\ l[s[2]] # "none"
                                                     /\ apps[s] = s[2]
    BY DEF Init
  <2>2. \A r : LegacyName(r) # NoName /\ Foreign # NoName
    BY DEF LegacyName, NoName, Foreign
  <2>3. AppAbsent \notin Pks BY DEF AppAbsent, Pks
  <2>4. ASSUME NEW s \in Slugs, apps[s] \in Pks PROVE ProviderExists(provs, apps[s])
    <3>1. provs[apps[s]].name # NoName BY <2>1, <2>2, <2>3, <2>4
    <3> QED BY <2>4, <3>1 DEF ProviderExists, NoProvider
  <2> QED BY <2>4 DEF Referenced
<1> QED BY <1>1, <1>2 DEF Solo, Clean, CleanHook, Busy, At

LEMMA CleanAlways ==
  ASSUME NoOverlap, NoTampering
  PROVE  Spec => [](Solo /\ Clean)
<1>1. Init => Solo /\ Clean BY CleanInit
<1>2. TypeOK /\ Tracked /\ (Solo /\ Clean) /\ [Next]_vars => (Solo /\ Clean)'
  <2>1. ASSUME Solo, Clean, UNCHANGED vars PROVE Solo' /\ Clean'
    BY <2>1, CleanElsewhere DEF vars, authentik
  <2> QED BY <2>1, CleanNext
<1> QED BY <1>1, <1>2, TypeCorrect, TrackedAlways, PTL DEF Spec

\* Nothing but the end of a hook changes what Juju stores.
LEMMA StoredByCommit ==
  ASSUME TypeOK, NoTampering, Next, \A u \in Units : ~Commit(u)
  PROVE  UNCHANGED stored
<1>1. ASSUME NEW u \in Units, HookStep(u) PROVE UNCHANGED stored
  <2>1. CASE Discovery(u)
    BY <2>1 DEF Discovery, GetCachedApplication, GetCachedProvider, GetManagedApplication,
       GetLegacyApplication, GetApplication, ValidateProvider, FindProvider, Local, HookFailed
  <2>2. CASE Writes(u)
    BY <2>2 DEF Writes, CreateProvider, CreateProviderInvalid, CreateProviderConflict,
       RecoverProvider, UpdateProvider, CreateApplication, CreateApplicationRefused,
       UpdateApplication, Local, HookFailed
  <2>3. CASE Collection(u)
    BY <2>3 DEF Collection, CollectNext, DeleteApplication, DeleteProvider, Local
  <2> QED BY <1>1, <2>1, <2>2, <2>3
       DEF HookStep, ResolveFlow, SkipRelation, BeginRelation, ToGarbage, ResolveMappings, Local
<1>2. ASSUME NEW u \in Units, Faults(u) PROVE UNCHANGED stored
  BY <1>2 DEF Faults, HookFails, CallRefused, CreateProviderLost, Elect, SkippedHook,
     HandleEvent, HookFailed
<1>3. ASSUME NEW u \in Units, NEW e \in Events, Dispatch(u, e) PROVE UNCHANGED stored
  BY <1>3 DEF Dispatch, StartHook, FollowerHook, HandleEvent, Local
<1>4. CASE Environment
  <2>1. ~Tamper BY DEF Tamper, NoTampering, TypeOK
  <2> QED BY <1>4, <2>1 DEF Environment, LateCreate, Integrate, ChangeConf, RemoveRelation,
       ClientSecretLost, ResolveWithoutRetry, AdminDeletesProvider, AdminDeletesApplication,
       AdminRecreatesFlow
<1> QED BY <1>1, <1>2, <1>3, <1>4 DEF Next

\* What a hook that ends writes is what it has, or what was there.
LEMMA CommitWrites ==
  ASSUME TypeOK, Solo, NEW u \in Units, Commit(u)
  PROVE  /\ hook[u].pc = "commit" /\ UNCHANGED <<authentik, conf, leader>>
         /\ Continue(u, IdleHook)
         /\ \/ UNCHANGED <<stored, rel>>
            \/ /\ FinishEvent(u) /\ cache' = hook[u].cache
               /\ \A r \in Relations : bag'[r] = hook[u].bag[r]
<1>1. hook[u].pc = "commit" BY DEF Commit, At
<1>2. hook[u].seen = [cache |-> cache, flow |-> flowCache, bag |-> bag]
  BY <1>1 DEF Solo, Busy, At
<1>3. UNCHANGED <<authentik, conf, leader>> /\ Continue(u, IdleHook)
  BY DEF Commit, HookFailed, model
<1>4. CASE HookFailed(u) BY <1>1, <1>3, <1>4 DEF HookFailed, model
<1>5. CASE ~HookFailed(u)
  <2>1. FinishEvent(u) BY <1>5 DEF Commit
  <2>2. cache' = hook[u].cache BY <1>2, <1>5 DEF Commit
  <2>3. \A r \in Relations : bag'[r] = hook[u].bag[r] BY <1>2, <1>5 DEF Commit
  <2> QED BY <1>1, <1>3, <2>1, <2>2, <2>3
<1> QED BY <1>4, <1>5

------------------------------------------------------------------------------

\* The tracking of a relation's objects is given up only when the provider and
\* the application of the entry are gone from Authentik: for any relations that
\* come and go, any faults, late creates, leader changes between hooks and
\* whatever an earlier revision has left, collection cut short or not
\* (garbage_collect, and the stale entry dropped by _sync_authentik_objects).
THEOREM TrackingKept ==
  ASSUME NoOverlap, NoTampering
  PROVE  Spec => TrackedUntilDeleted
<1>1. ASSUME TypeOK, Solo, Clean, [Next]_vars
      PROVE  \A r \in Relations :
               cache[r] # NoEntry /\ cache'[r] = NoEntry => Deleted(provs, apps, r, cache[r])
  <2>1. CASE \E u \in Units : Commit(u)
    <3>1. PICK u \in Units : Commit(u) BY <2>1
    <3>2. hook[u].pc = "commit" /\ (cache' = cache \/ cache' = hook[u].cache)
      BY <1>1, <3>1, CommitWrites DEF stored
    <3>3. Forgets(provs, apps, cache, hook[u]) BY <1>1, <3>2 DEF Clean, CleanHook
    <3> QED BY <3>2, <3>3 DEF Forgets
  <2>2. CASE \A u \in Units : ~Commit(u)
    <3>1. cache' = cache BY <1>1, <2>2, StoredByCommit DEF stored, vars
    <3> QED BY <3>1
  <2> QED BY <2>1, <2>2
<1>2. TypeOK /\ (Solo /\ Clean) /\ [Next]_vars =>
        [\A r \in Relations :
           cache[r] # NoEntry /\ cache'[r] = NoEntry =>
             /\ ~ProviderExists(provs, cache[r].pk)
             /\ cache[r].slug # "none" => apps[<<cache[r].slug, r>>] = AppAbsent]_vars
  BY <1>1 DEF Deleted
<1> QED BY <1>2, TypeCorrect, CleanAlways, PTL DEF Spec, TrackedUntilDeleted

------------------------------------------------------------------------------
(* 3. Published credentials work.  Authentik accepts no others for the        *)
(* relation, whether they are in Juju or in the hook that is about to write   *)
(* them, and whatever the hook calls next leaves that so.                     *)

\* A create request that is delayed past its timeout brings the credentials of
\* a hook that is over, after the next one has published others.
NoneLate == MaxLate = 0

OwnedBy(ps, r) == {p \in Pks : ps[p].name \in NamesOf(r)}

Accepted(ps, r, c) == \A p \in OwnedBy(ps, r) : ps[p].creds = c
Served(ps, as, r)  == \E kind \in Kinds : as[<<kind, r>>] \in OwnedBy(ps, r)

\* The provider and application of r are as entry e and credentials c have it.
Recorded(ps, as, r, e, c) ==
  /\ e.pk \in Pks /\ e.slug \in Kinds
  /\ ps[e.pk] = [name |-> ManagedName(r), creds |-> c, hash |-> e.hash]
  /\ as[<<e.slug, r>>] = e.pk

\* What the hook has to store is in Juju already or works.
HandsOver(ps, as, ca, bg, h) ==
  \A r \in Relations :
    /\ bg[r].creds # NoCred => h.bag[r].creds = bg[r].creds
    /\ h.bag[r].creds # bg[r].creds =>
         r \in h.active \ h.todo /\ Accepted(ps, r, h.bag[r].creds) /\ Served(ps, as, r)
    /\ h.cache[r].hash \notin {NoHash, ca[r].hash} =>
         r \in h.active \ h.todo /\ Recorded(ps, as, r, h.cache[r], h.bag[r].creds)

\* The credentials at hand are those that were published, if any.
SameCreds(bg, h) ==
  h.pc \in SyncCalls => h.cur \in h.todo /\ bg[h.cur].creds \in {NoCred, h.creds}

\* What is under way for the relation the hook is at.
UnderWay(ps, h) ==
  /\ h.pc = "create" => NameFree(ps, ManagedName(h.cur))
  /\ h.pc = "recover" => \A p \in PksNamed(ps, ManagedName(h.cur)) : ps[p] = Request(h)
  /\ h.pc \in {"createApp", "updateApp"} => ps[h.pk] = Request(h)

FaithfulHook(ps, as, ca, bg, h) ==
  h.pc # "idle" => HandsOver(ps, as, ca, bg, h) /\ SameCreds(bg, h) /\ UnderWay(ps, h)

\* Whoever has a provider of an earlier revision has its credentials.
LegacyPublished(ps, bg) ==
  \A p \in Pks, r \in Relations : ps[p].name = LegacyName(r) => bg[r].creds # NoCred

Working(ps, as, bg, rl) ==
  \A r \in Relations : bg[r].creds # NoCred =>
    Accepted(ps, r, bg[r].creds) /\ (rl[r] = "active" => Served(ps, as, r))

PromiseKeeping ==
  /\ NamesOnce(provs) /\ LegacyPublished(provs, bag) /\ late = {}
  /\ \A r \in Relations : rel[r] = "none" => bag[r].creds = NoCred
  /\ Working(provs, apps, bag, rel)
  /\ \A u \in Units : FaithfulHook(provs, apps, cache, bag, hook[u])

------------------------------------------------------------------------------
(* What a step has to show.                                                  *)

\* Nothing changes for the providers of r and the applications that refer to them.
Spares(ps, as, ps2, as2, r) ==
  /\ \A p \in Pks : ps[p].name \in NamesOf(r) \/ ps2[p].name \in NamesOf(r) => ps2[p] = ps[p]
  /\ \A k \in Kinds : as[<<k, r>>] \in OwnedBy(ps, r) => as2[<<k, r>>] = as[<<k, r>>]

LEMMA SparesNothing == ASSUME NEW ps, NEW as, NEW r PROVE Spares(ps, as, ps, as, r)
BY DEF Spares

LEMMA SparedWorks ==
  ASSUME NEW ps, NEW as, NEW ps2, NEW as2, NEW r, Spares(ps, as, ps2, as2, r)
  PROVE  /\ OwnedBy(ps2, r) = OwnedBy(ps, r)
         /\ \A c : Accepted(ps, r, c) => Accepted(ps2, r, c)
         /\ Served(ps, as, r) => Served(ps2, as2, r)
         /\ \A e, c : Recorded(ps, as, r, e, c) => Recorded(ps2, as2, r, e, c)
<1>1. OwnedBy(ps2, r) = OwnedBy(ps, r) BY DEF Spares, OwnedBy
<1>2. \A c : Accepted(ps, r, c) => Accepted(ps2, r, c) BY <1>1 DEF Spares, Accepted, OwnedBy
<1>3. Served(ps, as, r) => Served(ps2, as2, r) BY <1>1 DEF Spares, Served
<1>4. ASSUME NEW e, NEW c, Recorded(ps, as, r, e, c) PROVE Recorded(ps2, as2, r, e, c)
  <2>1. ps[e.pk].name \in NamesOf(r) BY <1>4 DEF Recorded, NamesOf
  <2>2. ps2[e.pk] = ps[e.pk] BY <1>4, <2>1 DEF Recorded, Spares
  <2>3. as2[<<e.slug, r>>] = as[<<e.slug, r>>] BY <1>4, <2>1 DEF Recorded, Spares, OwnedBy
  <2> QED BY <1>4, <2>2, <2>3 DEF Recorded
<1> QED BY <1>1, <1>2, <1>3, <1>4

\* A hook that goes on with what it has to store, and what it has stored spared.
LEMMA HandsOverOnward ==
  ASSUME NEW ps, NEW as, NEW ca, NEW bg, NEW h, HandsOver(ps, as, ca, bg, h),
         NEW ps2, NEW as2, \A r \in h.active \ h.todo : Spares(ps, as, ps2, as2, r),
         NEW g, g.active = h.active, g.todo \subseteq h.todo,
         \A r \in Relations : g.bag[r].creds = h.bag[r].creds,
         \A r \in Relations : g.cache[r] = h.cache[r] \/ g.cache[r].hash = NoHash
  PROVE  HandsOver(ps2, as2, ca, bg, g)
<1> SUFFICES ASSUME NEW r \in Relations
    PROVE /\ bg[r].creds # NoCred => g.bag[r].creds = bg[r].creds
          /\ g.bag[r].creds # bg[r].creds =>
               r \in g.active \ g.todo /\ Accepted(ps2, r, g.bag[r].creds) /\ Served(ps2, as2, r)
          /\ g.cache[r].hash \notin {NoHash, ca[r].hash} =>
               r \in g.active \ g.todo /\ Recorded(ps2, as2, r, g.cache[r], g.bag[r].creds)
  BY DEF HandsOver
<1>1. r \in h.active \ h.todo => r \in g.active \ g.todo OBVIOUS
<1>2. bg[r].creds # NoCred => g.bag[r].creds = bg[r].creds BY DEF HandsOver
<1>3. ASSUME g.bag[r].creds # bg[r].creds
      PROVE  r \in g.active \ g.todo /\ Accepted(ps2, r, g.bag[r].creds) /\ Served(ps2, as2, r)
  <2>1. r \in h.active \ h.todo /\ Accepted(ps, r, h.bag[r].creds) /\ Served(ps, as, r)
    BY <1>3 DEF HandsOver
  <2> QED BY <1>1, <2>1, SparedWorks
<1>4. ASSUME g.cache[r].hash \notin {NoHash, ca[r].hash}
      PROVE  r \in g.active \ g.todo /\ Recorded(ps2, as2, r, g.cache[r], g.bag[r].creds)
  <2>1. g.cache[r] = h.cache[r] BY <1>4
  <2>2. r \in h.active \ h.todo /\ Recorded(ps, as, r, h.cache[r], h.bag[r].creds)
    BY <1>4, <2>1 DEF HandsOver
  <2>3. Recorded(ps2, as2, r, h.cache[r], h.bag[r].creds)
    <3>1. Spares(ps, as, ps2, as2, r) BY <2>2
    <3>2. \A e, c : Recorded(ps, as, r, e, c) => Recorded(ps2, as2, r, e, c)
      BY <3>1, SparedWorks, Zenon
    <3> QED BY <2>2, <3>2, Zenon
  <2>4. g.bag[r].creds = h.bag[r].creds OBVIOUS
  <2> QED BY <1>1, <2>1, <2>2, <2>3, <2>4, Zenon
<1> QED BY <1>2, <1>3, <1>4

\* Providers and applications of the other relations are spared.
LEMMA WorkingSpared ==
  ASSUME PromiseKeeping, NEW q \in Relations,
         \A r \in Relations \ {q} : Spares(provs, apps, provs', apps', r),
         bag[q].creds # NoCred =>
           Accepted(provs', q, bag[q].creds) /\ (rel[q] = "active" => Served(provs', apps', q))
  PROVE  Working(provs', apps', bag, rel)
<1>1. ASSUME NEW r \in Relations \ {q}, bag[r].creds # NoCred
      PROVE  Accepted(provs', r, bag[r].creds) /\ (rel[r] = "active" => Served(provs', apps', r))
  BY <1>1, SparedWorks DEF PromiseKeeping, Working
<1> QED BY <1>1 DEF Working

LEMMA FaithfulStep ==
  ASSUME TypeOK, PromiseKeeping, NEW u \in Units, NEW g, SoloStep(u, g),
         UNCHANGED <<rel, late>>, NamesOnce(provs'), LegacyPublished(provs', bag),
         Working(provs', apps', bag, rel), FaithfulHook(provs', apps', cache, bag, g)
  PROVE  PromiseKeeping'
<1>1. cache' = cache /\ bag' = bag BY DEF SoloStep, stored
<1>2. \A v \in Units : hook'[v] = g \/ hook'[v].pc = "idle" BY SoloStepped
<1>3. \A v \in Units : FaithfulHook(provs', apps', cache', bag', hook'[v])
  BY <1>1, <1>2 DEF FaithfulHook
<1> QED BY <1>1, <1>3 DEF PromiseKeeping

\* The hook of a unit that is running one.
LEMMA FaithfulRunning ==
  ASSUME TypeOK, PromiseKeeping, NEW u \in Units, hook[u].pc # "idle"
  PROVE  /\ HandsOver(provs, apps, cache, bag, hook[u]) /\ SameCreds(bag, hook[u])
         /\ UnderWay(provs, hook[u]) /\ Busy(u)
         /\ hook[u] \in HookTypes /\ hook[u].cache \in [Relations -> Entries \cup {NoEntry}]
BY HookWellFormed DEF PromiseKeeping, FaithfulHook, WellFormed, HookTypes, Busy, At

\* A step of a running hook that leaves Authentik and Juju alone.
LEMMA FaithfulLocal ==
  ASSUME TypeOK, Solo, PromiseKeeping, NEW u \in Units, hook[u].pc # "idle",
         NEW g, Continue(u, g), g.seen = hook[u].seen, UNCHANGED <<authentik, stored, rel>>,
         g.active = hook[u].active, g.todo \subseteq hook[u].todo,
         \A r \in Relations : g.bag[r].creds = hook[u].bag[r].creds,
         \A r \in Relations : g.cache[r] = hook[u].cache[r] \/ g.cache[r].hash = NoHash,
         SameCreds(bag, g), UnderWay(provs, g)
  PROVE  PromiseKeeping'
<1>1. HandsOver(provs, apps, cache, bag, g) BY FaithfulRunning, SparesNothing, HandsOverOnward
<1>2. SoloStep(u, g) BY FaithfulRunning, SoloGoesOn DEF stored
<1>3. provs' = provs /\ apps' = apps /\ late' = late BY DEF authentik
<1>4. FaithfulHook(provs, apps, cache, bag, g) BY <1>1 DEF FaithfulHook
<1>5. /\ NamesOnce(provs') /\ LegacyPublished(provs', bag)
      /\ Working(provs', apps', bag, rel) /\ FaithfulHook(provs', apps', cache, bag, g)
  BY <1>3, <1>4 DEF PromiseKeeping
<1> QED BY <1>2, <1>3, <1>5, FaithfulStep

\* The hook is over, and nothing else has happened.
LEMMA FaithfulFailed ==
  ASSUME TypeOK, Solo, PromiseKeeping, NEW u \in Units, hook[u].pc # "idle",
         HookFailed(u), UNCHANGED authentik
  PROVE  PromiseKeeping'
<1>1. \A v \in Units : hook'[v].pc = "idle" BY SoloEnds DEF HookFailed, Busy, At
<1>2. UNCHANGED <<provs, apps, late, cache, bag, rel>>
  BY DEF HookFailed, authentik, stored, model
<1> QED BY <1>1, <1>2 DEF PromiseKeeping, FaithfulHook

LEMMA FaithfulCaught ==
  ASSUME TypeOK, Solo, PromiseKeeping, NEW u \in Units, hook[u].pc # "idle",
         Caught(u) \/ CaughtStaleFlow(u), UNCHANGED <<authentik, stored, model>>
  PROVE  PromiseKeeping'
<1>1. PICK g : /\ Continue(u, g) /\ SameScope(hook[u], g)
               /\ g.cache = hook[u].cache /\ g.pc = "commit"
  BY CaughtMoves
<1>2. SameCreds(bag, g) /\ UnderWay(provs, g) BY <1>1 DEF SameCreds, UnderWay, SyncCalls
<1> QED BY <1>1, <1>2, FaithfulLocal DEF SameScope, model

------------------------------------------------------------------------------
(* The steps of a hook that write nothing to Authentik.                      *)

LEMMA FaithfulStartHook ==
  ASSUME TypeOK, PromiseKeeping, NoOverlap, NEW u \in Units, NEW e \in Events, StartHook(u, e)
  PROVE  PromiseKeeping'
<1>1. PICK g : /\ SoloStep(u, g) /\ Local /\ g.cache = cache /\ g.bag = bag
               /\ g.pc \in {"gc", "flow", "next"}
  BY SoloStarts
<1>2. HandsOver(provs, apps, cache, bag, g) BY <1>1 DEF HandsOver
<1>3. SameCreds(bag, g) /\ UnderWay(provs, g) BY <1>1 DEF SameCreds, UnderWay, SyncCalls
<1>4. FaithfulHook(provs, apps, cache, bag, g) BY <1>2, <1>3 DEF FaithfulHook
<1>5. UNCHANGED <<provs, apps, late, rel>> BY <1>1 DEF Local, authentik, model
<1>6. /\ NamesOnce(provs') /\ LegacyPublished(provs', bag)
      /\ Working(provs', apps', bag, rel) /\ FaithfulHook(provs', apps', cache, bag, g)
  BY <1>4, <1>5 DEF PromiseKeeping
<1> QED BY <1>1, <1>5, <1>6, FaithfulStep

LEMMA FaithfulEnters ==
  ASSUME TypeOK, Solo, PromiseKeeping, NEW u \in Units,
         ResolveFlow(u) \/ ToGarbage(u) \/ CollectNext(u)
  PROVE  PromiseKeeping'
<1>1. hook[u].pc \in {"flow", "next", "gc"} /\ UNCHANGED <<authentik, stored, rel>>
  BY DEF ResolveFlow, ToGarbage, CollectNext, At, Local, model
<1>2. PICK g : /\ Continue(u, g) /\ SameScope(hook[u], g) /\ g.cache = hook[u].cache
               /\ g.pc \in {"flow", "next", "gc", "commit", "gcApp", "gcProv"}
  BY FlowMoves, GarbageMoves, CollectMoves
<1>3. SameCreds(bag, g) /\ UnderWay(provs, g) BY <1>2 DEF SameCreds, UnderWay, SyncCalls
<1> QED BY <1>1, <1>2, <1>3, FaithfulLocal DEF SameScope

LEMMA FaithfulSkipRelation ==
  ASSUME TypeOK, Solo, PromiseKeeping, NEW u \in Units, SkipRelation(u)
  PROVE  PromiseKeeping'
<1>1. PICK g, r : /\ Continue(u, g) /\ Local /\ g.seen = hook[u].seen
                  /\ g.active = hook[u].active /\ g.todo = hook[u].todo \ {r}
                  /\ g.cache = hook[u].cache
                  /\ \A q \in Relations : g.bag[q].creds = hook[u].bag[q].creds
                  /\ hook[u].pc = "next" /\ g.pc = "next"
  BY SkipMoves
<1>2. SameCreds(bag, g) /\ UnderWay(provs, g) BY <1>1 DEF SameCreds, UnderWay, SyncCalls
<1> QED BY <1>1, <1>2, FaithfulLocal DEF Local, model

\* The credentials taken are those in the databag, which Juju has had before:
\* the relation is still to be synchronized.
LEMMA FaithfulBeginRelation ==
  ASSUME TypeOK, Solo, PromiseKeeping, NEW u \in Units, BeginRelation(u)
  PROVE  PromiseKeeping'
<1>1. PICK g, r : /\ Continue(u, g) /\ Local /\ r \in hook[u].todo
                  /\ g.seen = hook[u].seen /\ g.active = hook[u].active
                  /\ g.todo = hook[u].todo /\ g.cache = hook[u].cache
                  /\ \A q \in Relations : g.bag[q].creds = hook[u].bag[q].creds
                  /\ hook[u].bag[r].creds \in {NoCred, g.creds}
                  /\ hook[u].pc = "next" /\ g.pc = "mappings" /\ g.cur = r
  BY BeginMoves
<1>2. hook[u].bag[r].creds = bag[r].creds
  <2>1. HandsOver(provs, apps, cache, bag, hook[u]) /\ hook[u] \in HookTypes
    BY <1>1, FaithfulRunning
  <2>2. r \in Relations BY <1>1, <2>1 DEF HookTypes
  <2> QED BY <1>1, <2>1, <2>2 DEF HandsOver
<1>3. SameCreds(bag, g) BY <1>1, <1>2 DEF SameCreds
<1>4. UnderWay(provs, g) BY <1>1 DEF UnderWay
<1> QED BY <1>1, <1>3, <1>4, FaithfulLocal DEF Local, model

\* A hook that goes on with its work, and an incomplete entry if a new one.
Incomplete(h, g) ==
  g.cache = h.cache \/ \E e : e.hash = NoHash /\ g.cache = [h.cache EXCEPT ![h.cur] = e]

LEMMA IncompleteEntries ==
  ASSUME NEW h, h.cache \in [Relations -> Entries \cup {NoEntry}], NEW g, Incomplete(h, g)
  PROVE  \A r \in Relations : g.cache[r] = h.cache[r] \/ g.cache[r].hash = NoHash
BY DEF Incomplete

LEMMA FaithfulCalls ==
  ASSUME TypeOK, Solo, PromiseKeeping, NEW u \in Units, hook[u].pc \in SyncCalls,
         NEW g, Continue(u, g), SameWork(hook[u], g), Incomplete(hook[u], g),
         UNCHANGED <<authentik, stored, rel>>, UnderWay(provs, g)
  PROVE  PromiseKeeping'
<1>1. hook[u].pc # "idle" BY DEF SyncCalls
<1>2. SameCreds(bag, g) BY <1>1, FaithfulRunning DEF SameCreds, SameWork, SameScope
<1>3. \A r \in Relations : g.cache[r] = hook[u].cache[r] \/ g.cache[r].hash = NoHash
  BY <1>1, FaithfulRunning, IncompleteEntries
<1> QED BY <1>1, <1>2, <1>3, FaithfulLocal DEF SameWork, SameScope

LEMMA SameCacheIncomplete ==
  ASSUME NEW h, NEW g PROVE SameCache(h, g) => SameWork(h, g) /\ Incomplete(h, g)
BY DEF SameCache, Incomplete

LEMMA WithEntryIncomplete ==
  ASSUME NEW h, NEW g, NEW e, e.hash = NoHash
  PROVE  WithEntry(h, g, e) => SameWork(h, g) /\ Incomplete(h, g)
BY DEF WithEntry, Incomplete

LEMMA FaithfulResolveMappings ==
  ASSUME TypeOK, Solo, PromiseKeeping, NEW u \in Units, ResolveMappings(u)
  PROVE  PromiseKeeping'
<1>1. hook[u].pc = "mappings" /\ UNCHANGED <<authentik, stored, model>>
  BY DEF ResolveMappings, At, Local
<1>2. CASE CaughtStaleFlow(u) BY <1>1, <1>2, FaithfulCaught
<1>3. CASE ~CaughtStaleFlow(u)
  <2>1. PICK g : /\ Continue(u, g) /\ SameCache(hook[u], g)
                 /\ g.pc \in {"managedApp", "cachedApp"}
    BY <1>3, MappingsMoves
  <2>2. UnderWay(provs, g) BY <2>1 DEF UnderWay
  <2> QED BY <1>1, <2>1, <2>2, SameCacheIncomplete, FaithfulCalls DEF SyncCalls, model
<1> QED BY <1>2, <1>3

LEMMA FaithfulGetCachedApplication ==
  ASSUME TypeOK, Solo, PromiseKeeping, NEW u \in Units, GetCachedApplication(u)
  PROVE  PromiseKeeping'
<1>1. hook[u].pc = "cachedApp" BY DEF GetCachedApplication, At
<1>2. ASSUME Caught(u), Local PROVE PromiseKeeping' BY <1>1, <1>2, FaithfulCaught DEF Local
<1>3. ASSUME HookFailed(u), UNCHANGED <<authentik, budgets>> PROVE PromiseKeeping'
  BY <1>1, <1>3, FaithfulFailed
<1>4. ASSUME NEW g, Continue(u, g), SameCache(hook[u], g), Local, g.pc = "cachedProv"
      PROVE  PromiseKeeping'
  <2>1. UnderWay(provs, g) BY <1>4 DEF UnderWay
  <2> QED BY <1>1, <1>4, <2>1, SameCacheIncomplete, FaithfulCalls DEF SyncCalls, Local, model
<1> QED BY <1>2, <1>3, <1>4, CachedApplicationMoves

LEMMA FaithfulGetCachedProvider ==
  ASSUME TypeOK, Solo, PromiseKeeping, NEW u \in Units, GetCachedProvider(u)
  PROVE  PromiseKeeping'
<1>1. hook[u].pc = "cachedProv" /\ UNCHANGED <<authentik, stored, rel>>
  BY DEF GetCachedProvider, At, Local, model
<1>2. PICK g : /\ Continue(u, g) /\ g.pc \in {"update", "managedApp"}
               /\ SameCache(hook[u], g) \/ WithEntry(hook[u], g, NoEntry)
  BY CachedProviderMoves
<1>3. SameWork(hook[u], g) /\ Incomplete(hook[u], g)
  <2>1. NoEntry.hash = NoHash BY DEF NoEntry
  <2> QED BY <1>2, <2>1, SameCacheIncomplete, WithEntryIncomplete
<1>4. UnderWay(provs, g) BY <1>2 DEF UnderWay
<1> QED BY <1>1, <1>2, <1>3, <1>4, FaithfulCalls DEF SyncCalls

LEMMA FaithfulGetApplication ==
  ASSUME TypeOK, Solo, PromiseKeeping, NEW u \in Units, NEW kind,
         \/ GetApplication(u, "managedApp", kind, "legacyApp")
         \/ GetApplication(u, "legacyApp", kind, "find")
  PROVE  PromiseKeeping'
<1>1. hook[u].pc \in {"managedApp", "legacyApp"} /\ UNCHANGED <<authentik, stored, model>>
  BY DEF GetApplication, At, Local
<1>2. CASE Caught(u) BY <1>1, <1>2, FaithfulCaught
<1>3. CASE ~Caught(u)
  <2>1. PICK g : /\ Continue(u, g) /\ SameCache(hook[u], g)
                 /\ g.pc \in {"legacyApp", "find", "validate"}
    BY <1>3, ApplicationMoves
  <2>2. UnderWay(provs, g) BY <2>1 DEF UnderWay
  <2> QED BY <1>1, <2>1, <2>2, SameCacheIncomplete, FaithfulCalls DEF SyncCalls, model
<1> QED BY <1>2, <1>3

LEMMA FaithfulValidateProvider ==
  ASSUME TypeOK, Solo, PromiseKeeping, NEW u \in Units, ValidateProvider(u)
  PROVE  PromiseKeeping'
<1>1. hook[u].pc = "validate" /\ UNCHANGED <<authentik, stored, model>>
  BY DEF ValidateProvider, At, Local
<1>2. CASE Caught(u) BY <1>1, <1>2, FaithfulCaught
<1>3. CASE ~Caught(u)
  <2>1. PICK g, e : /\ Continue(u, g) /\ WithEntry(hook[u], g, e) /\ e.hash = NoHash
                    /\ g.pc = "update"
    BY <1>3, ValidateMoves
  <2>2. UnderWay(provs, g) BY <2>1 DEF UnderWay
  <2> QED BY <1>1, <2>1, <2>2, WithEntryIncomplete, FaithfulCalls DEF SyncCalls, model
<1> QED BY <1>2, <1>3

\* No provider of the name: a create is under way.
LEMMA FaithfulFindProvider ==
  ASSUME TypeOK, Solo, PromiseKeeping, NEW u \in Units, FindProvider(u)
  PROVE  PromiseKeeping'
<1>1. hook[u].pc = "find" /\ UNCHANGED <<authentik, stored, rel>>
  BY DEF FindProvider, At, Local, model
<1>2. ASSUME NEW g, Continue(u, g), SameCache(hook[u], g), g.pc = "create",
             NameFree(provs, ManagedName(hook[u].cur))
      PROVE  PromiseKeeping'
  <2>1. UnderWay(provs, g) BY <1>2 DEF UnderWay, SameCache, SameWork
  <2> QED BY <1>1, <1>2, <2>1, SameCacheIncomplete, FaithfulCalls DEF SyncCalls
<1>3. ASSUME NEW g, NEW e, Continue(u, g), WithEntry(hook[u], g, e), e.hash = NoHash,
             g.pc = "update"
      PROVE  PromiseKeeping'
  <2>1. UnderWay(provs, g) BY <1>3 DEF UnderWay
  <2> QED BY <1>1, <1>3, <2>1, WithEntryIncomplete, FaithfulCalls DEF SyncCalls
<1> QED BY <1>2, <1>3, FindMoves

\* The provider found is the one the request asked for, if not answered.
LEMMA FaithfulRecoverProvider ==
  ASSUME TypeOK, Solo, PromiseKeeping, NEW u \in Units, RecoverProvider(u)
  PROVE  PromiseKeeping'
<1>1. hook[u].pc = "recover" /\ UNCHANGED authentik BY DEF RecoverProvider, At, Local
<1>2. CASE HookFailed(u) BY <1>1, <1>2, FaithfulFailed
<1>3. CASE Caught(u) /\ Local BY <1>1, <1>3, FaithfulCaught DEF Local
<1>4. ASSUME NEW p \in PksNamed(provs, ManagedName(hook[u].cur)),
             Continue(u, AfterCreate(hook[u], p)), Local
      PROVE  PromiseKeeping'
  <2> DEFINE g == AfterCreate(hook[u], p)
  <2>1. p \in Pks BY DEF PksNamed
  <2>2. PICK e : /\ WithEntry(hook[u], g, e) /\ e.hash = NoHash
                 /\ g.pc = "createApp" /\ g.pk = p
    BY <2>1, AfterCreateMoves
  <2>3. provs[p] = Request(hook[u]) BY <1>1, FaithfulRunning DEF UnderWay
  <2>4. Continue(u, g) BY <1>4
  <2> HIDE DEF g
  <2>5. SameWork(hook[u], g) /\ Incomplete(hook[u], g) BY <2>2, WithEntryIncomplete
  <2>6. UnderWay(provs, g) BY <2>2, <2>3, <2>5, SameRequest DEF UnderWay
  <2> QED BY <1>1, <1>4, <2>4, <2>5, <2>6, FaithfulCalls DEF SyncCalls, Local, model
<1> QED BY <1>2, <1>3, <1>4 DEF RecoverProvider

LEMMA FaithfulRefused ==
  ASSUME TypeOK, Solo, PromiseKeeping, NEW u \in Units, CreateProviderInvalid(u)
  PROVE  PromiseKeeping'
BY FaithfulCaught DEF CreateProviderInvalid, At, Local

------------------------------------------------------------------------------
(* The steps that write to Authentik: they spare the other relations.         *)

LEMMA NamesApart ==
  \A r, q : r # q => NamesOf(r) \cap (NamesOf(q) \cup {NoName, Foreign}) = {}
BY DEF NamesOf, ManagedName, LegacyName, NoName, Foreign

LEMMA NamesKnown == \A r : NoName \notin NamesOf(r)
BY DEF NamesOf, ManagedName, LegacyName, NoName

\* A provider that is written over one of the relation, or over none.
LEMMA PromiseWritten ==
  ASSUME TypeOK, PromiseKeeping, NEW r0 \in Relations, NEW p \in Pks,
         PksNamed(provs, ManagedName(r0)) \subseteq {p}, Named(provs, p, r0),
         NEW rec, rec.name = ManagedName(r0),
         NEW ps, ps = WithProvider(provs, p, rec)
  PROVE  /\ NamesOnce(ps) /\ LegacyPublished(ps, bag)
         /\ \A q \in Pks : ps[q] = IF q = p THEN rec ELSE provs[q]
         /\ \A r \in Relations \ {r0} : Spares(provs, apps, ps, apps, r)
<1>1. \A q \in Pks : ps[q] = IF q = p THEN rec ELSE provs[q]
  BY DEF WithProvider, TypeOK
<1>2. \A r, q : LegacyName(r) # ManagedName(q) BY DEF LegacyName, ManagedName
<1>3. \A r, q : ManagedName(r) = ManagedName(q) => r = q BY DEF ManagedName
<1>4. NamesOnce(provs) /\ LegacyPublished(provs, bag) BY DEF PromiseKeeping
<1>5. \A a \in Pks, r \in Relations : ps[a].name = LegacyName(r) => provs[a].name = LegacyName(r)
  BY <1>1, <1>2
<1>6. ASSUME NEW r \in Relations, NEW a \in PksNamed(ps, ManagedName(r)),
             NEW b \in PksNamed(ps, ManagedName(r))
      PROVE  a = b
  <2>1. CASE r = r0 BY <1>1, <2>1 DEF PksNamed
  <2>2. CASE r # r0 BY <1>1, <1>3, <1>4, <2>2 DEF PksNamed, NamesOnce
  <2> QED BY <2>1, <2>2
<1>7. NamesOnce(ps) BY <1>4, <1>5, <1>6 DEF NamesOnce
<1>8. LegacyPublished(ps, bag) BY <1>4, <1>5 DEF LegacyPublished
<1>9. ASSUME NEW r \in Relations \ {r0} PROVE Spares(provs, apps, ps, apps, r)
  <2>1. rec.name \notin NamesOf(r) BY NamesApart DEF NamesOf
  <2>2. provs[p].name \notin NamesOf(r) BY NamesApart DEF Named
  <2> QED BY <1>1, <2>1, <2>2 DEF Spares
<1> QED BY <1>1, <1>7, <1>8, <1>9

\* The providers of the other relations are spared, the relation at hand is
\* given the provider the hook asks for.
LEMMA FaithfulWrites ==
  ASSUME TypeOK, Tracked, Solo, PromiseKeeping, NEW u \in Units, hook[u].pc \in SyncCalls,
         NEW g, Continue(u, g), SameWork(hook[u], g), Incomplete(hook[u], g),
         UNCHANGED <<apps, late, stored, rel>>,
         NEW p \in Pks, provs' = WithProvider(provs, p, Request(hook[u])),
         PksNamed(provs, ManagedName(hook[u].cur)) \subseteq {p}, Named(provs, p, hook[u].cur),
         UnderWay(provs', g)
  PROVE  PromiseKeeping'
<1> DEFINE h == hook[u]
<1>1. /\ h \in HookTypes /\ h.cur \in Relations /\ h.pc # "idle"
      /\ h.cache \in [Relations -> Entries \cup {NoEntry}]
  BY TrackedCaller
<1>2. HandsOver(provs, apps, cache, bag, h) /\ SameCreds(bag, h) BY <1>1, FaithfulRunning
<1>3. SoloStep(u, g) BY <1>1, FaithfulRunning, SoloGoesOn DEF SameWork, SameScope, stored
<1>4. Request(h).name = ManagedName(h.cur) /\ Request(h).creds = h.creds BY DEF Request
<1>5. /\ NamesOnce(provs') /\ LegacyPublished(provs', bag)
      /\ \A q \in Pks : provs'[q] = IF q = p THEN Request(h) ELSE provs[q]
      /\ \A r \in Relations \ {h.cur} : Spares(provs, apps, provs', apps, r)
  BY <1>1, <1>4, PromiseWritten
<1> HIDE DEF h
<1>6. h.cur \in h.todo /\ bag[h.cur].creds \in {NoCred, h.creds} BY <1>2 DEF SameCreds, h
<1>7. HandsOver(provs', apps, cache, bag, g)
  <2>1. h.active \subseteq Relations BY <1>1 DEF HookTypes
  <2>2. \A r \in h.active \ h.todo : Spares(provs, apps, provs', apps, r)
    BY <1>5, <1>6, <2>1
  <2>3. \A r \in Relations : g.cache[r] = h.cache[r] \/ g.cache[r].hash = NoHash
    BY <1>1, IncompleteEntries DEF h
  <2>4. g.active = h.active /\ g.todo = h.todo /\ g.bag = h.bag
    BY DEF SameWork, SameScope, h
  <2> QED BY <1>2, <2>2, <2>3, <2>4, HandsOverOnward
<1>8. ASSUME bag[h.cur].creds # NoCred
      PROVE  /\ Accepted(provs', h.cur, bag[h.cur].creds)
             /\ rel[h.cur] = "active" => Served(provs', apps, h.cur)
  <2>1. bag[h.cur].creds = h.creds BY <1>6, <1>8
  <2>2. /\ Accepted(provs, h.cur, h.creds)
        /\ rel[h.cur] = "active" => Served(provs, apps, h.cur)
    BY <1>1, <1>8, <2>1 DEF PromiseKeeping, Working
  <2>3. Request(h).name \in NamesOf(h.cur) BY <1>4 DEF NamesOf
  <2>4. Accepted(provs', h.cur, h.creds) BY <1>4, <1>5, <2>2 DEF Accepted, OwnedBy
  <2>5. OwnedBy(provs, h.cur) \subseteq OwnedBy(provs', h.cur) BY <1>5, <2>3 DEF OwnedBy
  <2> QED BY <2>1, <2>2, <2>4, <2>5 DEF Served
<1>9. Working(provs', apps', bag, rel) BY <1>1, <1>5, <1>8, WorkingSpared
<1>10. SameCreds(bag, g) BY <1>6 DEF SameCreds, SameWork, SameScope, h
<1>11. FaithfulHook(provs', apps', cache, bag, g) BY <1>7, <1>10 DEF FaithfulHook
<1> QED BY <1>3, <1>5, <1>9, <1>11, FaithfulStep

\* The key of a created provider leads nowhere yet.
LEMMA FreshNamed == ASSUME NEW p \in Pks, FreshPk(p), NEW r PROVE Named(provs, p, r)
<1>1. provs[p] = NoProvider BY DEF FreshPk, Least, PksInUse, ProviderExists
<1> QED BY <1>1 DEF Named, NoProvider

LEMMA FaithfulCreateProvider ==
  ASSUME TypeOK, Tracked, Solo, PromiseKeeping, NEW u \in Units, CreateProvider(u)
  PROVE  PromiseKeeping'
<1>1. PICK p \in Pks : /\ FreshPk(p) /\ provs' = WithProvider(provs, p, Request(hook[u]))
                       /\ NameFree(provs, ManagedName(hook[u].cur))
                       /\ Continue(u, AfterCreate(hook[u], p))
  BY DEF CreateProvider, ProviderCreated
<1> DEFINE g == AfterCreate(hook[u], p)
<1>2. hook[u].pc = "create" /\ UNCHANGED <<apps, late, stored, rel>>
  BY DEF CreateProvider, At, model
<1>3. PICK e : WithEntry(hook[u], g, e) /\ e.hash = NoHash /\ g.pc = "createApp" /\ g.pk = p
  BY AfterCreateMoves
<1>4. Continue(u, g) BY <1>1
<1> HIDE DEF g
<1>5. SameWork(hook[u], g) /\ Incomplete(hook[u], g) BY <1>3, WithEntryIncomplete
<1>6. provs'[p] = Request(hook[u]) BY <1>1 DEF WithProvider, TypeOK
<1>7. UnderWay(provs', g) BY <1>3, <1>5, <1>6, SameRequest DEF UnderWay
<1>8. PksNamed(provs, ManagedName(hook[u].cur)) \subseteq {p} /\ Named(provs, p, hook[u].cur)
  BY <1>1, FreshNamed DEF NameFree
<1> QED BY <1>1, <1>2, <1>4, <1>5, <1>7, <1>8, FaithfulWrites DEF SyncCalls

\* The create had no answer: if it was executed, the provider is what was asked for.
LEMMA FaithfulRecovering ==
  ASSUME TypeOK, Tracked, Solo, PromiseKeeping, NoneLate, NEW u \in Units,
         CreateProviderConflict(u) \/ CreateProviderLost(u)
  PROVE  PromiseKeeping'
<1> DEFINE h == hook[u]
<1>1. h.pc = "create" /\ UNCHANGED <<apps, flows, stored, rel>>
  BY DEF CreateProviderConflict, CreateProviderLost, At, Local, authentik, model
<1>2. PICK g : Continue(u, g) /\ SameCache(h, g) /\ g.pc = "recover"
  BY RecoveringMoves
<1>3. SameWork(h, g) /\ Incomplete(h, g) BY <1>2, SameCacheIncomplete
<1>4. NameFree(provs, ManagedName(h.cur)) BY <1>1, FaithfulRunning DEF UnderWay
<1>5. late' = late
  <2>1. Cardinality(late) = 0 BY FS_EmptySet DEF PromiseKeeping
  <2> QED BY <2>1 DEF CreateProviderConflict, CreateProviderLost, Local, authentik, NoneLate
<1>6. Request(g) = Request(h) /\ g.cur = h.cur BY <1>3, SameRequest DEF SameWork
<1>7. CASE provs' = provs
  <2>1. UnderWay(provs, g) BY <1>2, <1>4, <1>6 DEF UnderWay, NameFree
  <2> QED BY <1>1, <1>2, <1>3, <1>5, <1>7, <2>1, FaithfulCalls DEF SyncCalls, authentik
<1>8. CASE provs' # provs
  <2>1. PICK p \in Pks : FreshPk(p) /\ provs' = WithProvider(provs, p, Request(h))
    BY <1>8 DEF CreateProviderConflict, CreateProviderLost, ProviderCreated, Local, authentik
  <2>2. PksNamed(provs, ManagedName(h.cur)) \subseteq {p} /\ Named(provs, p, h.cur)
    BY <1>4, <2>1, FreshNamed DEF NameFree
  <2>3. UnderWay(provs', g)
    <3>1. \A q \in Pks : provs'[q] = IF q = p THEN Request(h) ELSE provs[q]
      BY <2>1 DEF WithProvider, TypeOK
    <3> HIDE DEF h
    <3> QED BY <1>2, <1>4, <1>6, <3>1 DEF UnderWay, NameFree, PksNamed
  <2> QED BY <1>1, <1>2, <1>3, <1>5, <2>1, <2>2, <2>3, FaithfulWrites DEF SyncCalls
<1> QED BY <1>7, <1>8

LEMMA FaithfulUpdateProvider ==
  ASSUME TypeOK, Tracked, Solo, PromiseKeeping, NEW u \in Units, UpdateProvider(u)
  PROVE  PromiseKeeping'
<1>1. hook[u].pc = "update" /\ UNCHANGED <<apps, flows, late, stored, model>>
  BY DEF UpdateProvider, At
<1>2. CASE CaughtStaleFlow(u) /\ UNCHANGED provs
  BY <1>1, <1>2, FaithfulCaught DEF authentik
<1>3. CASE ~(CaughtStaleFlow(u) /\ UNCHANGED provs)
  <2>1. /\ hook[u].pk \in Pks
        /\ PksNamed(provs, ManagedName(hook[u].cur)) \subseteq {hook[u].pk}
        /\ provs' = WithProvider(provs, hook[u].pk, Request(hook[u]))
    BY <1>3, UpdateMoves DEF UpdateAccepted, ProviderExists
  <2>2. PICK g : /\ Continue(u, g) /\ SameCache(hook[u], g) /\ g.pk = hook[u].pk
                 /\ g.pc \in {"updateApp", "createApp"}
    BY <1>3, UpdateMoves
  <2>3. SameWork(hook[u], g) /\ Incomplete(hook[u], g) BY <2>2, SameCacheIncomplete
  <2>4. provs'[hook[u].pk] = Request(hook[u]) BY <2>1 DEF WithProvider, TypeOK
  <2>5. UnderWay(provs', g) BY <2>2, <2>3, <2>4, SameRequest DEF UnderWay
  <2>6. Named(provs, hook[u].pk, hook[u].cur) BY <1>1, TrackedCaller DEF SyncCalls
  <2> QED BY <1>1, <2>1, <2>2, <2>3, <2>5, <2>6, FaithfulWrites DEF SyncCalls, model
<1> QED BY <1>2, <1>3

\* The credentials at hand are the only ones Authentik accepts once the
\* relation's provider has them: a legacy one would have been published.
LEMMA AcceptedAtHand ==
  ASSUME NEW ps, NEW bg, NamesOnce(ps), LegacyPublished(ps, bg),
         NEW h, h.cur \in Relations, bg[h.cur].creds \in {NoCred, h.creds},
         bg[h.cur].creds # NoCred => Accepted(ps, h.cur, bg[h.cur].creds),
         NEW p \in Pks, ps[p] = Request(h)
  PROVE  Accepted(ps, h.cur, h.creds) /\ p \in OwnedBy(ps, h.cur)
<1>1. Request(h).name = ManagedName(h.cur) /\ Request(h).creds = h.creds BY DEF Request
<1>2. p \in OwnedBy(ps, h.cur) BY <1>1 DEF OwnedBy, NamesOf
<1>3. CASE bg[h.cur].creds # NoCred BY <1>2, <1>3
<1>4. CASE bg[h.cur].creds = NoCred
  <2>1. \A q \in OwnedBy(ps, h.cur) : ps[q].name = ManagedName(h.cur)
    BY <1>4 DEF OwnedBy, NamesOf, LegacyPublished
  <2>2. \A q \in OwnedBy(ps, h.cur) : q = p
    BY <1>1, <2>1 DEF NamesOnce, PksNamed, OwnedBy
  <2> QED BY <1>1, <1>2, <2>2 DEF Accepted
<1> QED BY <1>2, <1>3, <1>4

\* The relation is synchronized: what the hook has to hand over works.
LEMMA SyncedHandsOver ==
  ASSUME NEW ps, NEW as, NEW ca, NEW bg, NEW h, NEW g, NEW as2,
         h \in HookTypes, h.cur \in Relations, h.cur \in h.active,
         bg[h.cur].creds \in {NoCred, h.creds},
         HandsOver(ps, as, ca, bg, h), SyncedHook(h, g),
         \A r \in Relations \ {h.cur} : Spares(ps, as, ps, as2, r),
         Accepted(ps, h.cur, h.creds), Served(ps, as2, h.cur),
         \A e : /\ e = [pk |-> h.pk, slug |-> h.slug, hash |-> HashOf(h, h.cur)]
                => Recorded(ps, as2, h.cur, e, h.creds)
  PROVE  HandsOver(ps, as2, ca, bg, g)
<1> SUFFICES ASSUME NEW r \in Relations
    PROVE /\ bg[r].creds # NoCred => g.bag[r].creds = bg[r].creds
          /\ g.bag[r].creds # bg[r].creds =>
               r \in g.active \ g.todo /\ Accepted(ps, r, g.bag[r].creds) /\ Served(ps, as2, r)
          /\ g.cache[r].hash \notin {NoHash, ca[r].hash} =>
               r \in g.active \ g.todo /\ Recorded(ps, as2, r, g.cache[r], g.bag[r].creds)
  BY DEF HandsOver
<1>1. g.active = h.active /\ g.todo = h.todo \ {h.cur} BY DEF SyncedHook
<1> DEFINE b == [creds |-> h.creds, slug |-> h.slug]
           e == [pk |-> h.pk, slug |-> h.slug, hash |-> HashOf(h, h.cur)]
<1>2. b.creds = h.creds OBVIOUS
<1>3. Recorded(ps, as2, h.cur, e, h.creds) OBVIOUS
<1> HIDE DEF b, e
<1>4. g.bag[r] = IF r = h.cur THEN b ELSE h.bag[r] BY DEF SyncedHook, HookTypes, b
<1>5. g.cache[r] = IF r = h.cur THEN e ELSE h.cache[r] BY DEF SyncedHook, HookTypes, e
<1>6. CASE r = h.cur
  <2>1. g.bag[r].creds = h.creds /\ g.cache[r] = e BY <1>2, <1>4, <1>5, <1>6
  <2>2. Recorded(ps, as2, r, g.cache[r], g.bag[r].creds) BY <1>3, <1>6, <2>1
  <2> QED BY <1>1, <1>6, <2>1, <2>2
<1>7. CASE r # h.cur
  <2>1. g.bag[r] = h.bag[r] /\ g.cache[r] = h.cache[r] BY <1>4, <1>5, <1>7
  <2>2. /\ \A c : Accepted(ps, r, c) => Accepted(ps, r, c)
        /\ Served(ps, as, r) => Served(ps, as2, r)
        /\ \A x, c : Recorded(ps, as, r, x, c) => Recorded(ps, as2, r, x, c)
    BY <1>7, SparedWorks
  <2>3. r \in h.active \ h.todo => r \in g.active \ g.todo BY <1>1
  <2>4. h.bag[r].creds # bg[r].creds =>
          r \in h.active \ h.todo /\ Accepted(ps, r, h.bag[r].creds) /\ Served(ps, as, r)
    BY DEF HandsOver
  <2>5. h.cache[r].hash \notin {NoHash, ca[r].hash} =>
          r \in h.active \ h.todo /\ Recorded(ps, as, r, h.cache[r], h.bag[r].creds)
    BY DEF HandsOver
  <2>6. bg[r].creds # NoCred => h.bag[r].creds = bg[r].creds BY DEF HandsOver
  <2>7. g.cache[r].hash \notin {NoHash, ca[r].hash} =>
          r \in g.active \ g.todo /\ Recorded(ps, as2, r, g.cache[r], g.bag[r].creds)
    <3> HIDE DEF b, e
    <3> QED BY <2>1, <2>2, <2>3, <2>5, Zenon
  <2> QED BY <2>1, <2>2, <2>3, <2>4, <2>6, <2>7
<1> QED BY <1>6, <1>7

LEMMA FaithfulWriteApplication ==
  ASSUME TypeOK, Tracked, Solo, PromiseKeeping, NEW u \in Units,
         CreateApplication(u) \/ CreateApplicationRefused(u) \/ UpdateApplication(u)
  PROVE  PromiseKeeping'
<1> DEFINE h == hook[u]
<1>1. /\ h.pc \in {"createApp", "updateApp"}
      /\ UNCHANGED <<provs, flows, late, stored, model>>
  BY WriteApplicationMoves
<1>2. CASE (Caught(u) \/ CaughtStaleFlow(u)) /\ UNCHANGED apps
  BY <1>1, <1>2, FaithfulCaught DEF authentik
<1>3. CASE ~((Caught(u) \/ CaughtStaleFlow(u)) /\ UNCHANGED apps)
  <2>1. \/ apps' = apps /\ apps[SlugOf(h)] = h.pk
        \/ apps' = WithApp(apps, SlugOf(h), h.pk)
    BY <1>3, WriteApplicationMoves
  <2>2. PICK g : Continue(u, g) /\ SyncedHook(h, g) BY <1>3, WriteApplicationMoves
  <2>3. /\ h \in HookTypes /\ h.cur \in Relations /\ h.cur \in h.active
        /\ h.slug \in Kinds /\ h.pk \in Pks /\ h.pc # "idle" /\ h.pc \in SyncCalls
    BY <1>1, TrackedCaller, CallingHook DEF SyncCalls, KeyCalls
  <2>4. HandsOver(provs, apps, cache, bag, h) /\ SameCreds(bag, h) /\ UnderWay(provs, h)
    BY <2>3, FaithfulRunning
  <2>5. SoloStep(u, g) BY <1>1, <2>2, <2>3, FaithfulRunning, SoloGoesOn DEF SyncedHook, stored
  <2> HIDE DEF h
  <2>6. /\ apps'[SlugOf(h)] = h.pk
        /\ \A s \in Slugs : s # SlugOf(h) => apps'[s] = apps[s]
    BY <2>1, <2>3 DEF WithApp, TypeOK, SlugOf, Slugs
  <2>7. bag[h.cur].creds \in {NoCred, h.creds} /\ provs[h.pk] = Request(h)
    BY <1>1, <2>3, <2>4 DEF SameCreds, UnderWay
  <2>8. Accepted(provs, h.cur, h.creds) /\ h.pk \in OwnedBy(provs, h.cur)
    BY <2>3, <2>7, AcceptedAtHand DEF PromiseKeeping, Working
  <2>9. Served(provs, apps', h.cur) BY <2>3, <2>6, <2>8 DEF Served, SlugOf
  <2>10. \A r \in Relations \ {h.cur} : Spares(provs, apps, provs, apps', r)
    BY <2>6 DEF Spares, SlugOf, Slugs
  <2>11. ASSUME NEW e, e = [pk |-> h.pk, slug |-> h.slug, hash |-> HashOf(h, h.cur)]
         PROVE  Recorded(provs, apps', h.cur, e, h.creds)
    BY <2>3, <2>6, <2>7, <2>11 DEF Recorded, Request, SlugOf
  <2>12. HandsOver(provs, apps', cache, bag, g)
    BY <2>2, <2>3, <2>4, <2>7, <2>8, <2>9, <2>10, <2>11, SyncedHandsOver
  <2>13. SameCreds(bag, g) /\ UnderWay(provs, g)
    <3>1. g.pc = "next" BY <2>2 DEF SyncedHook
    <3> QED BY <3>1 DEF SameCreds, UnderWay, SyncCalls
  <2>14. FaithfulHook(provs, apps', cache, bag, g) BY <2>12, <2>13 DEF FaithfulHook
  <2>15. provs' = provs BY <1>1
  <2>16. Working(provs', apps', bag, rel)
    <3>1. bag[h.cur].creds # NoCred =>
            Accepted(provs', h.cur, bag[h.cur].creds) /\ Served(provs', apps', h.cur)
      BY <2>7, <2>8, <2>9, <2>15
    <3>2. \A r \in Relations \ {h.cur} : Spares(provs, apps, provs', apps', r)
      BY <2>10, <2>15
    <3> QED BY <2>3, <3>1, <3>2, WorkingSpared
  <2> QED BY <1>1, <2>5, <2>14, <2>15, <2>16, FaithfulStep DEF PromiseKeeping, model
<1> QED BY <1>2, <1>3

\* What is collected is of a relation that is on its way out, and no other's.
LEMMA FaithfulCollects ==
  ASSUME TypeOK, Tracked, Solo, PromiseKeeping, NEW u \in Units,
         hook[u].pc \in {"gcApp", "gcProv"},
         NEW g, Continue(u, g), NEW e, e.hash = NoHash, Stripped(hook[u], g, e) \/
           (SameScope(hook[u], g) /\ g.cache = [hook[u].cache EXCEPT ![hook[u].cur] = e]),
         g.pc \in {"gcProv", "gc"}, UNCHANGED <<late, stored, rel>>,
         NamesOnce(provs'), LegacyPublished(provs', bag),
         Accepted(provs, hook[u].cur, bag[hook[u].cur].creds) =>
           Accepted(provs', hook[u].cur, bag[hook[u].cur].creds),
         \A r \in Relations \ {hook[u].cur} : Spares(provs, apps, provs', apps', r)
  PROVE  PromiseKeeping'
<1> DEFINE h == hook[u]
<1>1. /\ h \in HookTypes /\ h.cur \in Relations /\ h.pc # "idle" /\ h.cur \notin h.active
      /\ h.cache \in [Relations -> Entries \cup {NoEntry}] /\ rel[h.cur] # "active"
  BY TrackedCollecting
<1>2. HandsOver(provs, apps, cache, bag, h) BY <1>1, FaithfulRunning
<1>3. SameScope(h, g) /\ g.cache = [h.cache EXCEPT ![h.cur] = e] BY DEF Stripped
<1>4. SoloStep(u, g) BY <1>1, <1>3, FaithfulRunning, SoloGoesOn DEF SameScope
<1> HIDE DEF h
<1>5. HandsOver(provs', apps', cache, bag, g)
  <2>1. h.active \subseteq Relations BY <1>1 DEF HookTypes
  <2>2. \A r \in h.active \ h.todo : Spares(provs, apps, provs', apps', r)
    BY <1>1, <2>1 DEF h
  <2>3. \A r \in Relations : g.cache[r] = h.cache[r] \/ g.cache[r].hash = NoHash
    BY <1>1, <1>3
  <2>4. g.active = h.active /\ g.todo = h.todo /\ g.bag = h.bag BY <1>3 DEF SameScope
  <2> QED BY <1>2, <2>2, <2>3, <2>4, HandsOverOnward
<1>6. SameCreds(bag, g) /\ UnderWay(provs', g) BY DEF SameCreds, UnderWay, SyncCalls
<1>7. FaithfulHook(provs', apps', cache, bag, g) BY <1>5, <1>6 DEF FaithfulHook
<1>8. bag[h.cur].creds # NoCred => Accepted(provs', h.cur, bag[h.cur].creds)
  BY <1>1 DEF PromiseKeeping, Working, h
<1>9. Working(provs', apps', bag, rel) BY <1>1, <1>8, WorkingSpared DEF h
<1> QED BY <1>4, <1>7, <1>9, FaithfulStep

LEMMA FaithfulDeleteApplication ==
  ASSUME TypeOK, Tracked, Solo, PromiseKeeping, NEW u \in Units, DeleteApplication(u)
  PROVE  PromiseKeeping'
<1>1. /\ hook[u].pc = "gcApp"
      /\ apps' = WithoutApp(apps, <<hook[u].cache[hook[u].cur].slug, hook[u].cur>>)
      /\ UNCHANGED <<provs, flows, late, stored, model>>
  BY DeleteApplicationMoves
<1>2. PICK g, e : /\ Continue(u, g) /\ Stripped(hook[u], g, e) /\ e.hash = NoHash
                  /\ g.pc = "gcProv"
  BY DeleteApplicationMoves
<1>3. \A r \in Relations \ {hook[u].cur} : Spares(provs, apps, provs', apps', r)
  BY <1>1 DEF Spares, WithoutApp, TypeOK, Slugs
<1> QED BY <1>1, <1>2, <1>3, FaithfulCollects DEF PromiseKeeping, model

LEMMA PromiseDropped ==
  ASSUME TypeOK, PromiseKeeping, NEW r0 \in Relations, NEW p \in Pks, Named(provs, p, r0),
         NEW ps, ps = WithoutProvider(provs, p), NEW as, as = Detach(apps, p)
  PROVE  /\ NamesOnce(ps) /\ LegacyPublished(ps, bag)
         /\ \A r : OwnedBy(ps, r) = OwnedBy(provs, r) \ {p}
         /\ \A c : Accepted(provs, r0, c) => Accepted(ps, r0, c)
         /\ \A r \in Relations \ {r0} : Spares(provs, apps, ps, as, r)
<1>1. \A q \in Pks : ps[q] = IF q = p THEN NoProvider ELSE provs[q]
  BY DEF WithoutProvider, TypeOK
<1>2. \A r : NoProvider.name \notin NamesOf(r) BY NamesKnown DEF NoProvider
<1>3. \A q \in Pks, r \in Relations : ps[q].name \in NamesOf(r) => q # p /\ ps[q] = provs[q]
  BY <1>1, <1>2
<1>4. NamesOnce(ps) BY <1>3 DEF PromiseKeeping, NamesOnce, PksNamed, NamesOf
<1>5. LegacyPublished(ps, bag) BY <1>3 DEF PromiseKeeping, LegacyPublished, NamesOf
<1>6. \A r : OwnedBy(ps, r) = OwnedBy(provs, r) \ {p} BY <1>1, <1>2 DEF OwnedBy
<1>7. \A c : Accepted(provs, r0, c) => Accepted(ps, r0, c) BY <1>1, <1>6 DEF Accepted, OwnedBy
<1>8. ASSUME NEW r \in Relations \ {r0} PROVE Spares(provs, apps, ps, as, r)
  <2>1. provs[p].name \notin NamesOf(r) BY NamesApart DEF Named
  <2>2. \A q \in Pks : provs[q].name \in NamesOf(r) \/ ps[q].name \in NamesOf(r) => ps[q] = provs[q]
    BY <1>1, <1>2, <2>1
  <2>3. ASSUME NEW k \in Kinds, apps[<<k, r>>] \in OwnedBy(provs, r)
        PROVE  as[<<k, r>>] = apps[<<k, r>>]
    BY <2>1, <2>3 DEF OwnedBy, Detach, Slugs
  <2> QED BY <2>2, <2>3 DEF Spares
<1> QED BY <1>4, <1>5, <1>6, <1>7, <1>8

LEMMA FaithfulDeleteProvider ==
  ASSUME TypeOK, Tracked, Solo, PromiseKeeping, NEW u \in Units, DeleteProvider(u)
  PROVE  PromiseKeeping'
<1>1. /\ hook[u].pc = "gcProv"
      /\ provs' = WithoutProvider(provs, hook[u].pk) /\ apps' = Detach(apps, hook[u].pk)
      /\ UNCHANGED <<flows, late, stored, model>>
  BY DeleteProviderMoves
<1>2. PICK g : /\ Continue(u, g) /\ SameScope(hook[u], g)
               /\ g.cache = [hook[u].cache EXCEPT ![hook[u].cur] = NoEntry] /\ g.pc = "gc"
  BY DeleteProviderMoves
<1>3. NoEntry.hash = NoHash BY DEF NoEntry
<1>4. hook[u].cur \in Relations /\ hook[u].pk \in Pks /\ Named(provs, hook[u].pk, hook[u].cur)
  BY <1>1, TrackedCollecting
<1>5. /\ NamesOnce(provs') /\ LegacyPublished(provs', bag)
      /\ \A c : Accepted(provs, hook[u].cur, c) => Accepted(provs', hook[u].cur, c)
      /\ \A r \in Relations \ {hook[u].cur} : Spares(provs, apps, provs', apps', r)
  BY <1>1, <1>4, PromiseDropped
<1> QED BY <1>1, <1>2, <1>3, <1>5, FaithfulCollects DEF model

------------------------------------------------------------------------------
(* The end of a hook, and what happens outside.                              *)

\* Nothing happens but to the relations: those that become active have been
\* given nothing yet.
LEMMA FaithfulElsewhere ==
  ASSUME PromiseKeeping, UNCHANGED <<provs, apps, late, cache, bag, hook>>,
         \A r \in Relations :
           /\ rel'[r] = "none" => rel[r] = "none"
           /\ rel'[r] = "active" => rel[r] \in {"active", "none"}
  PROVE  PromiseKeeping'
<1>1. \A r \in Relations : rel'[r] = "none" => bag'[r].creds = NoCred
  BY DEF PromiseKeeping
<1>2. Working(provs', apps', bag', rel') BY DEF PromiseKeeping, Working
<1> QED BY <1>1, <1>2 DEF PromiseKeeping

\* Handling an event takes at most its relation away.
LEMMA Departing ==
  ASSUME TypeOK, NEW e, NEW newLeft,
         rel' = IF e = Ordinary THEN rel ELSE AfterLeaving(e, newLeft)
  PROVE  \A r \in Relations : rel'[r] = rel[r] \/ rel'[r] = "gone"
BY DEF AfterLeaving, TypeOK

LEMMA FaithfulHandleEvent ==
  ASSUME TypeOK, PromiseKeeping, NEW u \in Units, NEW e \in Events, HandleEvent(u, e)
  PROVE  PromiseKeeping'
<1>1. \A r \in Relations : rel'[r] = rel[r] \/ rel'[r] = "gone"
  BY Departing DEF HandleEvent
<1> QED BY <1>1, FaithfulElsewhere DEF HandleEvent, authentik, stored

LEMMA FinishedRelations ==
  ASSUME TypeOK, NEW u \in Units, FinishEvent(u)
  PROVE  \A r \in Relations : rel'[r] = rel[r] \/ rel'[r] = "gone"
BY DEF FinishEvent, AfterLeaving, TypeOK

\* What the hook has is published: it works, or it was there before.
LEMMA FaithfulCommit ==
  ASSUME TypeOK, Tracked, Solo, PromiseKeeping, NEW u \in Units, Commit(u)
  PROVE  PromiseKeeping'
<1> DEFINE h == hook[u]
<1>1. h.pc = "commit" /\ UNCHANGED <<provs, apps, late>> /\ Continue(u, IdleHook)
  BY CommitWrites DEF authentik
<1>2. \A v \in Units : hook'[v].pc = "idle" BY <1>1, SoloEnds DEF Busy, At
<1>3. \A v \in Units : FaithfulHook(provs', apps', cache', bag', hook'[v])
  BY <1>2 DEF FaithfulHook
<1>4. CASE UNCHANGED <<stored, rel>>
  BY <1>1, <1>3, <1>4 DEF PromiseKeeping, stored
<1>5. CASE ~(UNCHANGED <<stored, rel>>)
  <2>1. FinishEvent(u) /\ \A r \in Relations : bag'[r] = h.bag[r]
    BY <1>5, CommitWrites
  <2>2. \A r \in Relations : rel'[r] = rel[r] \/ rel'[r] = "gone"
    BY <2>1, FinishedRelations
  <2>3. HandsOver(provs, apps, cache, bag, h) BY <1>1, FaithfulRunning
  <2>4. \A r \in h.active : rel[r] # "none" BY <1>1, TrackedRunning DEF Settled
  <2> HIDE DEF h
  <2>5. \A r \in Relations : rel'[r] = "none" => bag'[r].creds = NoCred
    <3> TAKE r \in Relations
    <3> HAVE rel'[r] = "none"
    <3>1. rel[r] = "none" BY <2>2
    <3>2. bag[r].creds = NoCred BY <3>1 DEF PromiseKeeping
    <3>3. h.bag[r].creds = bag[r].creds BY <2>3, <2>4, <3>1 DEF HandsOver
    <3> QED BY <2>1, <3>2, <3>3
  <2>6. LegacyPublished(provs', bag')
    <3>1. \A r \in Relations : bag[r].creds # NoCred => bag'[r].creds # NoCred
      BY <2>1, <2>3 DEF HandsOver
    <3> QED BY <1>1, <3>1 DEF PromiseKeeping, LegacyPublished
  <2>7. Working(provs', apps', bag', rel')
    <3> SUFFICES ASSUME NEW r \in Relations, bag'[r].creds # NoCred
        PROVE  /\ Accepted(provs, r, bag'[r].creds)
               /\ rel'[r] = "active" => Served(provs, apps, r)
      BY <1>1 DEF Working
    <3>1. bag'[r].creds = h.bag[r].creds BY <2>1
    <3>2. rel'[r] = "active" => rel[r] = "active" BY <2>2
    <3>3. CASE h.bag[r].creds = bag[r].creds
      BY <3>1, <3>2, <3>3 DEF PromiseKeeping, Working
    <3>4. CASE h.bag[r].creds # bag[r].creds
      BY <2>3, <3>1, <3>4 DEF HandsOver
    <3> QED BY <3>3, <3>4
  <2> QED BY <1>1, <1>3, <2>5, <2>6, <2>7 DEF PromiseKeeping
<1> QED BY <1>4, <1>5

LEMMA FaithfulHookStep ==
  ASSUME TypeOK, Tracked, Solo, PromiseKeeping, NoneLate, NEW u \in Units, HookStep(u)
  PROVE  PromiseKeeping'
<1>1. CASE Discovery(u)
  BY <1>1, FaithfulGetCachedApplication, FaithfulGetCachedProvider, FaithfulGetApplication,
     FaithfulValidateProvider, FaithfulFindProvider
     DEF Discovery, GetManagedApplication, GetLegacyApplication
<1>2. CASE Writes(u)
  BY <1>2, FaithfulCreateProvider, FaithfulRefused, FaithfulRecovering,
     FaithfulRecoverProvider, FaithfulUpdateProvider, FaithfulWriteApplication DEF Writes
<1>3. CASE Collection(u)
  BY <1>3, FaithfulEnters, FaithfulDeleteApplication, FaithfulDeleteProvider DEF Collection
<1> QED BY <1>1, <1>2, <1>3, FaithfulEnters, FaithfulSkipRelation, FaithfulBeginRelation,
       FaithfulResolveMappings, FaithfulCommit DEF HookStep

LEMMA FaithfulFaults ==
  ASSUME TypeOK, Tracked, Solo, PromiseKeeping, NoneLate, NEW u \in Units, Faults(u)
  PROVE  PromiseKeeping'
<1>1. CASE HookFails(u) BY <1>1, FaithfulFailed DEF HookFails, Busy, At
<1>2. CASE CallRefused(u)
  <2>1. hook[u].pc # "idle" BY <1>2 DEF CallRefused, At, Calls, SyncCalls
  <2> QED BY <1>2, <2>1, FaithfulCaught DEF CallRefused
<1>3. CASE CreateProviderLost(u) BY <1>3, FaithfulRecovering
<1>4. CASE Elect(u) BY <1>4, FaithfulElsewhere DEF Elect, authentik, stored
<1>5. CASE \E e \in Events : SkippedHook(u, e) BY <1>5, FaithfulHandleEvent DEF SkippedHook
<1> QED BY <1>1, <1>2, <1>3, <1>4, <1>5 DEF Faults

LEMMA FaithfulEnvironment ==
  ASSUME TypeOK, PromiseKeeping, NoTampering, Environment
  PROVE  PromiseKeeping'
<1>1. ~Tamper BY DEF Tamper, NoTampering, TypeOK
<1>2. ~LateCreate BY DEF LateCreate, PromiseKeeping
<1>3. ASSUME NEW r \in Relations, Integrate(r) \/ ChangeConf(r) \/ RemoveRelation(r)
      PROVE  PromiseKeeping'
  <2>1. UNCHANGED <<provs, apps, late, cache, bag, hook>>
    BY <1>3 DEF Integrate, ChangeConf, RemoveRelation, authentik, stored
  <2>2. \A q \in Relations : /\ rel'[q] = "none" => rel[q] = "none"
                             /\ rel'[q] = "active" => rel[q] \in {"active", "none"}
    BY <1>3 DEF Integrate, ChangeConf, RemoveRelation, TypeOK
  <2> QED BY <2>1, <2>2, FaithfulElsewhere
<1>4. ASSUME NEW u \in Units, ResolveWithoutRetry(u) PROVE PromiseKeeping'
  <2>1. \A r \in Relations : rel'[r] = rel[r] \/ rel'[r] = "gone"
    BY <1>4, Departing DEF ResolveWithoutRetry
  <2> QED BY <1>4, <2>1, FaithfulElsewhere DEF ResolveWithoutRetry, authentik, stored
<1> QED BY <1>1, <1>2, <1>3, <1>4 DEF Environment, ClientSecretLost,
       AdminDeletesProvider, AdminDeletesApplication, AdminRecreatesFlow

LEMMA FaithfulNext ==
  ASSUME TypeOK, Tracked, Solo, PromiseKeeping, NoOverlap, NoneLate, NoTampering, Next
  PROVE  PromiseKeeping'
<1>1. ASSUME NEW u \in Units, NEW e \in Events, Dispatch(u, e) PROVE PromiseKeeping'
  <2>1. CASE StartHook(u, e) BY <2>1, FaithfulStartHook
  <2>2. CASE FollowerHook(u, e) BY <2>2, FaithfulHandleEvent DEF FollowerHook
  <2> QED BY <1>1, <2>1, <2>2 DEF Dispatch
<1> QED BY <1>1, FaithfulHookStep, FaithfulFaults, FaithfulEnvironment DEF Next

\* What an earlier revision has left works.
LEMMA FaithfulInit == ASSUME Init PROVE PromiseKeeping
<1>1. \A u \in Units : hook[u].pc = "idle" BY DEF Init, IdleHook
<1>2. late = {} BY DEF Init
<1>3. PICK l \in [Relations -> LegacyStates] :
        /\ \A p \in Pks : \/ p \in Relations /\ l[p] = "owned" /\ provs[p].name = LegacyName(p)
                             /\ provs[p].creds = p
                          \/ provs[p].name \in {Foreign, NoName}
        /\ \A r \in Relations : l[r] = "owned" /\ r \in Pks =>
             provs[r].name = LegacyName(r) /\ apps[LegacyName(r)] = r
        /\ \A r \in Relations :
             IF l[r] = "owned" THEN rel[r] = "active" /\ bag[r].creds = r
             ELSE rel[r] = "none" /\ bag[r].creds = NoCred
  BY DEF Init, LegacyName, Slugs, Kinds, NoProvider, EmptyBag
<1>4. \A r : /\ LegacyName(r) \notin {Foreign, NoName} /\ ManagedName(r) \notin {Foreign, NoName}
             /\ \A q : LegacyName(q) # ManagedName(r)
             /\ \A q : LegacyName(q) = LegacyName(r) => q = r
  BY DEF LegacyName, ManagedName, Foreign, NoName
<1>5. \A p \in Pks, r \in Relations :
        provs[p].name \in NamesOf(r) => p = r /\ l[r] = "owned" /\ provs[p].name = LegacyName(r)
  BY <1>3, <1>4 DEF NamesOf
<1>6. NamesOnce(provs)
  <2>1. \A r \in Relations : PksNamed(provs, ManagedName(r)) = {}
    BY <1>4, <1>5 DEF PksNamed, NamesOf
  <2> QED BY <1>5, <2>1 DEF NamesOnce, NamesOf
<1>7. LegacyPublished(provs, bag)
  <2> SUFFICES ASSUME NEW p \in Pks, NEW r \in Relations, provs[p].name = LegacyName(r)
      PROVE bag[r].creds # NoCred
    BY DEF LegacyPublished
  <2>1. l[r] = "owned" BY <1>5 DEF NamesOf
  <2>2. r # NoCred BY StoreAssumption DEF NoCred
  <2> QED BY <1>3, <2>1, <2>2
<1>8. \A r \in Relations : rel[r] = "none" => bag[r].creds = NoCred BY <1>3
<1>9. Working(provs, apps, bag, rel)
  <2> SUFFICES ASSUME NEW r \in Relations, bag[r].creds # NoCred
      PROVE  Accepted(provs, r, bag[r].creds) /\ Served(provs, apps, r)
    BY DEF Working
  <2>1. l[r] = "owned" BY <1>3
  <2>2. r \in Pks BY <2>1, ReconcilerAssumption
  <2>3. OwnedBy(provs, r) = {r} BY <1>3, <1>5, <2>1, <2>2 DEF OwnedBy, NamesOf
  <2>4. provs[r].creds = r BY <1>3, <1>4, <2>1, <2>2
  <2>5. Accepted(provs, r, bag[r].creds) BY <1>3, <2>1, <2>3, <2>4 DEF Accepted
  <2>6. Served(provs, apps, r)
    <3>1. apps[<<"legacy", r>>] = r BY <1>3, <2>1, <2>2 DEF LegacyName
    <3> QED BY <2>3, <3>1 DEF Served, Kinds
  <2> QED BY <2>5, <2>6
<1> QED BY <1>1, <1>2, <1>6, <1>7, <1>8, <1>9 DEF PromiseKeeping, FaithfulHook

LEMMA PromiseKeepingAlways ==
  ASSUME NoOverlap, NoneLate, NoTampering
  PROVE  Spec => []PromiseKeeping
<1>1. Init => PromiseKeeping BY FaithfulInit
<1>2. TypeOK /\ Tracked /\ (Solo /\ Clean) /\ PromiseKeeping /\ [Next]_vars => PromiseKeeping'
  <2>1. ASSUME PromiseKeeping, UNCHANGED vars PROVE PromiseKeeping'
    BY <2>1, FaithfulElsewhere DEF vars, authentik, stored, model
  <2> QED BY <2>1, FaithfulNext
<1> QED BY <1>1, <1>2, TypeCorrect, TrackedAlways, CleanAlways, PTL DEF Spec

\* The credentials in the databag of an active relation are those of a provider
\* of its own that an application references: whenever a hook is cut short, a
\* create is answered or not, or another unit takes over (the order of writes in
\* _sync_relation, and its adoption of what it finds).
THEOREM CredentialsWork ==
  ASSUME NoOverlap, NoneLate, NoTampering
  PROVE  Spec => []PublishedCredentialsWork
<1>1. PromiseKeeping => PublishedCredentialsWork
  <2> SUFFICES ASSUME PromiseKeeping, NEW r \in Relations,
                      rel[r] = "active", bag[r].creds # NoCred
      PROVE  \E p \in ProvidersOf(r) :
               provs[p].creds = bag[r].creds /\ \E kind \in Kinds : apps[<<kind, r>>] = p
    BY DEF PublishedCredentialsWork
  <2>1. Accepted(provs, r, bag[r].creds) /\ Served(provs, apps, r)
    BY DEF PromiseKeeping, Working
  <2>2. ProvidersOf(r) = OwnedBy(provs, r) BY DEF ProvidersOf, OwnedBy
  <2> QED BY <2>1, <2>2 DEF Accepted, Served
<1> QED BY <1>1, PromiseKeepingAlways, PTL

\* A configuration hash reaches Juju only when the provider has that
\* configuration and the published credentials, and the application references
\* it (the config_hash of oauth_sync_cache, written at the end of _sync_relation
\* and stored when the hook succeeds).
THEOREM HashesTruthful ==
  ASSUME NoOverlap, NoneLate, NoTampering
  PROVE  Spec => RecordedOnlyWhenSynchronized
<1>1. ASSUME TypeOK, Solo, PromiseKeeping, [Next]_vars,
             NEW r \in Relations, cache'[r].hash # cache[r].hash, cache'[r].hash # NoHash
      PROVE  Recorded(provs, apps, r, cache'[r], bag'[r].creds)
  <2>1. CASE \E u \in Units : Commit(u)
    <3>1. PICK u \in Units : Commit(u) BY <2>1
    <3>2. hook[u].pc = "commit" /\ cache' = hook[u].cache /\ bag'[r] = hook[u].bag[r]
      BY <1>1, <3>1, CommitWrites DEF stored
    <3>3. HandsOver(provs, apps, cache, bag, hook[u]) BY <1>1, <3>2, FaithfulRunning
    <3> QED BY <1>1, <3>2, <3>3 DEF HandsOver
  <2>2. CASE \A u \in Units : ~Commit(u)
    <3>1. cache' = cache BY <1>1, <2>2, StoredByCommit DEF stored, vars
    <3> QED BY <1>1, <3>1
  <2> QED BY <2>1, <2>2
<1>2. TypeOK /\ (Solo /\ Clean) /\ PromiseKeeping /\ [Next]_vars =>
        [\A r \in Relations :
           LET e == cache'[r] IN
           e.hash # cache[r].hash /\ e.hash # NoHash =>
             /\ provs[e.pk] = [name |-> ManagedName(r), creds |-> bag'[r].creds, hash |-> e.hash]
             /\ apps[<<e.slug, r>>] = e.pk]_vars
  BY <1>1 DEF Recorded
<1> QED BY <1>2, TypeCorrect, CleanAlways, PromiseKeepingAlways, PTL
       DEF Spec, RecordedOnlyWhenSynchronized

------------------------------------------------------------------------------
(* 4. Every step is one the promise allows, or none of its.                   *)

Accepts(ps, r) == {ps[p].creds : p \in OwnedBy(ps, r)}

LEMMA AcceptsOne ==
  ASSUME NEW ps, NEW r, NEW c, Accepted(ps, r, c), OwnedBy(ps, r) # {}
  PROVE  Accepts(ps, r) = {c}
BY DEF Accepts, Accepted

LEMMA AcceptsSpared ==
  ASSUME NEW ps, NEW as, NEW ps2, NEW as2, NEW r, Spares(ps, as, ps2, as2, r)
  PROVE  Accepts(ps2, r) = Accepts(ps, r)
<1>1. OwnedBy(ps2, r) = OwnedBy(ps, r) BY DEF OwnedBy, Spares
<1>2. \A p \in OwnedBy(ps, r) : ps2[p] = ps[p] BY DEF OwnedBy, Spares
<1> QED BY <1>1, <1>2 DEF Accepts

\* The promise's variables, in the terms of the proof.
LEMMA PromiseVariables ==
  /\ [r \in Relations |-> {provs[p].creds : p \in ProvidersOf(r)}]
       = [r \in Relations |-> Accepts(provs, r)]
  /\ [r \in Relations |-> {provs'[p].creds : p \in ProvidersOf(r)'}]
       = [r \in Relations |-> Accepts(provs', r)]
BY DEF ProvidersOf, Accepts, OwnedBy

LEMMA PromiseStutters ==
  ASSUME UNCHANGED <<bag, rel>>, \A r \in Relations : Accepts(provs', r) = Accepts(provs, r)
  PROVE  UNCHANGED Promise!pvars
BY PromiseVariables DEF Promise!pvars

LEMMA PromiseTaken ==
  ASSUME NEW r \in Relations,
         Promise!Accept(r) \/ Promise!Withdraw(r) \/ Promise!Join(r) \/ Promise!Leave(r)
  PROVE  Promise!PromiseNext
BY Zenon DEF Promise!PromiseNext

\* Authentik is given the credentials at hand, which nobody has been given
\* others of.
LEMMA PromiseAccepts ==
  ASSUME TypeOK, Tracked, PromiseKeeping, PromiseKeeping',
         NEW u \in Units, hook[u].pc \in SyncCalls, UNCHANGED <<bag, rel>>,
         NEW p \in Pks, provs' = WithProvider(provs, p, Request(hook[u])),
         PksNamed(provs, ManagedName(hook[u].cur)) \subseteq {p}, Named(provs, p, hook[u].cur)
  PROVE  Promise!PromiseNext
<1> DEFINE h == hook[u]
<1>1. h.cur \in Relations /\ h.pc # "idle" /\ h.creds \in Creds BY TrackedCaller, CallingHook
<1>2. h.cur \in h.todo /\ bag[h.cur].creds \in {NoCred, h.creds}
  BY <1>1, FaithfulRunning DEF SameCreds
<1>3. Request(h).name = ManagedName(h.cur) BY DEF Request
<1>4. /\ \A q \in Pks : provs'[q] = IF q = p THEN Request(h) ELSE provs[q]
      /\ \A r \in Relations \ {h.cur} : Spares(provs, apps, provs', apps, r)
  BY <1>1, <1>3, PromiseWritten
<1>5. provs'[p] = Request(h) BY <1>4
<1> HIDE DEF h
<1>6. /\ NamesOnce(provs') /\ LegacyPublished(provs', bag)
      /\ bag[h.cur].creds # NoCred => Accepted(provs', h.cur, bag[h.cur].creds)
  BY <1>1 DEF PromiseKeeping, Working
<1>7. Accepted(provs', h.cur, h.creds) /\ p \in OwnedBy(provs', h.cur)
  BY <1>1, <1>2, <1>5, <1>6, AcceptedAtHand
<1>8. Accepts(provs', h.cur) = {h.creds} BY <1>7, AcceptsOne
<1>9. \A r \in Relations \ {h.cur} : Accepts(provs', r) = Accepts(provs, r)
  BY <1>4, AcceptsSpared
<1>10. [r \in Relations |-> Accepts(provs', r)]
         = [[r \in Relations |-> Accepts(provs, r)] EXCEPT ![h.cur] = {h.creds}]
  BY <1>8, <1>9
<1>11. PICK r \in Relations : r = h.cur BY <1>1
<1>12. Promise!Accept(r)
  BY <1>1, <1>2, <1>10, <1>11, PromiseVariables DEF Promise!Accept
<1> QED BY <1>12, PromiseTaken

\* A provider is deleted of a relation on its way out.  If it leaves another
\* behind, one of the two was an earlier revision's: both have the credentials
\* that were published.
LEMMA PromiseWithdraws ==
  ASSUME TypeOK, Tracked, PromiseKeeping, NEW u \in Units, DeleteProvider(u)
  PROVE  [Promise!PromiseNext]_(Promise!pvars)
<1> DEFINE h == hook[u]
<1>1. /\ h.pc = "gcProv" /\ provs' = WithoutProvider(provs, h.pk)
      /\ UNCHANGED <<bag, rel>>
  BY DeleteProviderMoves DEF stored, model
<1>2. h.cur \in Relations /\ h.pk \in Pks /\ Named(provs, h.pk, h.cur) /\ rel[h.cur] # "active"
  BY <1>1, TrackedCollecting
<1> HIDE DEF h
<1>3. /\ \A r : OwnedBy(provs', r) = OwnedBy(provs, r) \ {h.pk}
      /\ \A r \in Relations \ {h.cur} : Spares(provs, apps, provs', Detach(apps, h.pk), r)
  BY <1>1, <1>2, PromiseDropped
<1>4. \A q \in Pks : q # h.pk => provs'[q] = provs[q] BY <1>1 DEF WithoutProvider, TypeOK
<1>5. \A r \in Relations \ {h.cur} : Accepts(provs', r) = Accepts(provs, r)
  BY <1>3, AcceptsSpared
<1>6. CASE OwnedBy(provs', h.cur) = {}
  <2>1. Accepts(provs', h.cur) = {} BY <1>6 DEF Accepts
  <2>2. [r \in Relations |-> Accepts(provs', r)]
          = [[r \in Relations |-> Accepts(provs, r)] EXCEPT ![h.cur] = {}]
    BY <1>5, <2>1
  <2>3. PICK r \in Relations : r = h.cur BY <1>2
  <2>4. Promise!Withdraw(r)
    BY <1>1, <1>2, <2>2, <2>3, PromiseVariables DEF Promise!Withdraw
  <2> QED BY <2>4, PromiseTaken
<1>7. CASE OwnedBy(provs', h.cur) # {}
  <2>1. Accepts(provs', h.cur) = Accepts(provs, h.cur)
    <3>1. CASE h.pk \notin OwnedBy(provs, h.cur)
      BY <1>3, <1>4, <3>1 DEF Accepts, OwnedBy
    <3>2. CASE h.pk \in OwnedBy(provs, h.cur)
      <4>1. PICK q \in OwnedBy(provs, h.cur) : q # h.pk BY <1>3, <1>7
      <4>2. \E p \in {q, h.pk} : provs[p].name = LegacyName(h.cur)
        BY <1>2, <3>2, <4>1 DEF PromiseKeeping, NamesOnce, PksNamed, OwnedBy, NamesOf
      <4>3. bag[h.cur].creds # NoCred
        BY <1>2, <4>1, <4>2 DEF PromiseKeeping, LegacyPublished, OwnedBy
      <4>4. Accepted(provs, h.cur, bag[h.cur].creds)
        BY <1>2, <4>3 DEF PromiseKeeping, Working
      <4>5. Accepted(provs', h.cur, bag[h.cur].creds)
        BY <1>3, <1>4, <4>4 DEF Accepted, OwnedBy
      <4> QED BY <1>7, <3>2, <4>4, <4>5, AcceptsOne
    <3> QED BY <3>1, <3>2
  <2> QED BY <1>1, <1>5, <2>1, PromiseStutters
<1> QED BY <1>6, <1>7

\* What Juju stores or destroys hands out credentials Authentik accepts.
LEMMA PromiseHandsOut ==
  ASSUME UNCHANGED provs,
         \A r \in Relations : bag'[r].creds \in Creds \cup {NoCred},
         \A r \in Relations : bag'[r].creds # bag[r].creds =>
           bag[r].creds = NoCred /\ Accepts(provs, r) = {bag'[r].creds},
         \A r \in Relations : rel'[r] = "active" => rel[r] = "active"
  PROVE  Promise!PromiseNext
<1>1. [r \in Relations |-> Accepts(provs', r)] = [r \in Relations |-> Accepts(provs, r)]
  OBVIOUS
<1>2. [r \in Relations |-> bag'[r].creds] \in [Relations -> Creds \cup {NoCred}]
  OBVIOUS
<1>3. {r \in Relations : rel'[r] = "active"} \subseteq {r \in Relations : rel[r] = "active"}
  OBVIOUS
<1>4. Promise!HandOut
  BY <1>1, <1>2, <1>3, PromiseVariables DEF Promise!HandOut
<1> QED BY <1>4 DEF Promise!PromiseNext

LEMMA PublishedValues ==
  ASSUME TypeOK PROVE \A r \in Relations : bag[r].creds \in Creds \cup {NoCred}
BY DEF TypeOK, Bags

LEMMA PromiseCommits ==
  ASSUME TypeOK, TypeOK', Solo, PromiseKeeping, NEW u \in Units, Commit(u)
  PROVE  [Promise!PromiseNext]_(Promise!pvars)
<1>1. /\ hook[u].pc = "commit" /\ UNCHANGED authentik
      /\ \/ UNCHANGED <<stored, rel>>
         \/ /\ FinishEvent(u) /\ cache' = hook[u].cache
            /\ \A r \in Relations : bag'[r] = hook[u].bag[r]
  BY CommitWrites
<1>2. UNCHANGED provs BY <1>1 DEF authentik
<1>3. CASE UNCHANGED <<stored, rel>>
  BY <1>2, <1>3, PromiseStutters DEF stored
<1>4. CASE FinishEvent(u) /\ \A r \in Relations : bag'[r] = hook[u].bag[r]
  <2>1. HandsOver(provs, apps, cache, bag, hook[u]) BY <1>1, FaithfulRunning
  <2>2. ASSUME NEW r \in Relations, bag'[r].creds # bag[r].creds
        PROVE  bag[r].creds = NoCred /\ Accepts(provs, r) = {bag'[r].creds}
    <3>1. /\ bag[r].creds = NoCred
          /\ Accepted(provs, r, bag'[r].creds) /\ Served(provs, apps, r)
      BY <1>4, <2>1, <2>2 DEF HandsOver
    <3>2. OwnedBy(provs, r) # {} BY <3>1 DEF Served
    <3> QED BY <3>1, <3>2, AcceptsOne
  <2>3. \A r \in Relations : bag'[r].creds \in Creds \cup {NoCred}
    BY DEF TypeOK, Bags
  <2>4. \A r \in Relations : rel'[r] = "active" => rel[r] = "active"
    BY <1>4, FinishedRelations
  <2> QED BY <1>2, <2>2, <2>3, <2>4, PromiseHandsOut
<1> QED BY <1>1, <1>3, <1>4

\* An event that is handled, or taken for handled, ends relations at most.
LEMMA PromiseEnds ==
  ASSUME TypeOK, UNCHANGED <<provs, bag>>, NEW e, NEW newLeft,
         rel' = IF e = Ordinary THEN rel ELSE AfterLeaving(e, newLeft)
  PROVE  [Promise!PromiseNext]_(Promise!pvars)
<1>1. \A r \in Relations : rel'[r] = rel[r] \/ rel'[r] = "gone" BY Departing
<1>2. \A r \in Relations : rel'[r] = "active" => rel[r] = "active" BY <1>1
<1> QED BY <1>2, PublishedValues, PromiseHandsOut

LEMMA PromiseHandles ==
  ASSUME TypeOK, NEW u \in Units, NEW e \in Events, HandleEvent(u, e)
  PROVE  [Promise!PromiseNext]_(Promise!pvars)
BY PromiseEnds DEF HandleEvent, authentik, stored

LEMMA PromiseResolves ==
  ASSUME TypeOK, NEW u \in Units, ResolveWithoutRetry(u)
  PROVE  [Promise!PromiseNext]_(Promise!pvars)
BY PromiseEnds DEF ResolveWithoutRetry, authentik, stored

\* A relation comes with nothing published, and goes with what was.
LEMMA PromiseMembers ==
  ASSUME TypeOK, PromiseKeeping, NEW r \in Relations, Integrate(r) \/ RemoveRelation(r)
  PROVE  Promise!PromiseNext
<1>1. UNCHANGED <<provs, bag>> BY DEF Integrate, RemoveRelation, authentik, stored
<1>2. rel \in [Relations -> {"none", "active", "dying", "gone"}] BY DEF TypeOK
<1>3. [q \in Relations |-> Accepts(provs', q)] = [q \in Relations |-> Accepts(provs, q)]
  BY <1>1
<1>4. CASE Integrate(r)
  <2>1. bag[r].creds = NoCred BY <1>4 DEF Integrate, PromiseKeeping
  <2>2. {q \in Relations : rel'[q] = "active"} = {q \in Relations : rel[q] = "active"} \cup {r}
    BY <1>2, <1>4 DEF Integrate
  <2>3. Promise!Join(r) BY <1>1, <1>3, <2>1, <2>2, PromiseVariables DEF Promise!Join
  <2> QED BY <2>3, PromiseTaken
<1>5. CASE RemoveRelation(r)
  <2>1. {q \in Relations : rel'[q] = "active"} = {q \in Relations : rel[q] = "active"} \ {r}
    BY <1>2, <1>5 DEF RemoveRelation
  <2>2. Promise!Leave(r) BY <1>1, <1>3, <2>1, PromiseVariables DEF Promise!Leave
  <2> QED BY <2>2, PromiseTaken
<1> QED BY <1>4, <1>5
\* Creating and updating a provider is what Accept stands for.
LEMMA PromiseCreates ==
  ASSUME TypeOK, Tracked, PromiseKeeping, PromiseKeeping', NEW u \in Units,
         CreateProvider(u) \/ CreateProviderLost(u)
  PROVE  [Promise!PromiseNext]_(Promise!pvars)
<1>1. hook[u].pc = "create" /\ UNCHANGED <<bag, rel>>
  BY DEF CreateProvider, CreateProviderLost, At, stored, model
<1>2. CASE provs' = provs BY <1>1, <1>2, PromiseStutters
<1>3. CASE provs' # provs
  <2>1. PICK p \in Pks : /\ FreshPk(p) /\ NameFree(provs, ManagedName(hook[u].cur))
                         /\ provs' = WithProvider(provs, p, Request(hook[u]))
    BY <1>3 DEF CreateProvider, CreateProviderLost, ProviderCreated
  <2>2. PksNamed(provs, ManagedName(hook[u].cur)) \subseteq {p} /\ Named(provs, p, hook[u].cur)
    BY <2>1, FreshNamed DEF NameFree
  <2> QED BY <1>1, <2>1, <2>2, PromiseAccepts DEF SyncCalls
<1> QED BY <1>2, <1>3

LEMMA PromiseUpdates ==
  ASSUME TypeOK, Tracked, PromiseKeeping, PromiseKeeping', NEW u \in Units, UpdateProvider(u)
  PROVE  [Promise!PromiseNext]_(Promise!pvars)
<1>1. hook[u].pc = "update" /\ UNCHANGED <<bag, rel>>
  BY DEF UpdateProvider, At, stored, model
<1>2. CASE provs' = provs BY <1>1, <1>2, PromiseStutters
<1>3. CASE provs' # provs
  <2>1. /\ hook[u].pk \in Pks
        /\ PksNamed(provs, ManagedName(hook[u].cur)) \subseteq {hook[u].pk}
        /\ provs' = WithProvider(provs, hook[u].pk, Request(hook[u]))
    BY <1>3, UpdateMoves DEF UpdateAccepted, ProviderExists
  <2>2. Named(provs, hook[u].pk, hook[u].cur) BY <1>1, TrackedCaller DEF SyncCalls
  <2> QED BY <1>1, <2>1, <2>2, PromiseAccepts DEF SyncCalls
<1> QED BY <1>2, <1>3

LEMMA PromiseElsewhere ==
  ASSUME UNCHANGED <<provs, bag, rel>>
  PROVE  [Promise!PromiseNext]_(Promise!pvars)
BY PromiseStutters

\* A hook that ends or goes on by itself changes nothing the promise is about.
LEMMA PromiseLocal ==
  ASSUME NEW u \in Units,
         \/ Local
         \/ UNCHANGED <<provs, flows, late, stored, model, failed, budgets>>
         \/ HookFailed(u) /\ UNCHANGED <<authentik, budgets>>
  PROVE  [Promise!PromiseNext]_(Promise!pvars)
BY PromiseElsewhere DEF Local, HookFailed, authentik, stored, model

LEMMA PromiseDiscovery ==
  ASSUME TypeOK, NEW u \in Units, Discovery(u)
  PROVE  [Promise!PromiseNext]_(Promise!pvars)
<1>1. CASE GetCachedApplication(u) BY <1>1, PromiseLocal DEF GetCachedApplication
<1>2. CASE GetCachedProvider(u) BY <1>2, PromiseLocal DEF GetCachedProvider
<1>3. CASE GetManagedApplication(u) BY <1>3, PromiseLocal DEF GetManagedApplication, GetApplication
<1>4. CASE GetLegacyApplication(u) BY <1>4, PromiseLocal DEF GetLegacyApplication, GetApplication
<1>5. CASE ValidateProvider(u) BY <1>5, PromiseLocal DEF ValidateProvider
<1>6. CASE FindProvider(u) BY <1>6, PromiseLocal DEF FindProvider
<1> QED BY <1>1, <1>2, <1>3, <1>4, <1>5, <1>6 DEF Discovery

LEMMA PromiseWrites ==
  ASSUME TypeOK, Tracked, PromiseKeeping, PromiseKeeping', NEW u \in Units, Writes(u)
  PROVE  [Promise!PromiseNext]_(Promise!pvars)
<1>1. CASE CreateProvider(u) BY <1>1, PromiseCreates
<1>2. CASE CreateProviderInvalid(u) BY <1>2, PromiseLocal DEF CreateProviderInvalid
<1>3. CASE CreateProviderConflict(u) BY <1>3, PromiseLocal DEF CreateProviderConflict
<1>4. CASE RecoverProvider(u) BY <1>4, PromiseLocal DEF RecoverProvider
<1>5. CASE UpdateProvider(u) BY <1>5, PromiseUpdates
<1>6. CASE CreateApplication(u) \/ CreateApplicationRefused(u) \/ UpdateApplication(u)
  BY <1>6, WriteApplicationMoves, PromiseLocal
<1> QED BY <1>1, <1>2, <1>3, <1>4, <1>5, <1>6 DEF Writes

LEMMA PromiseHookStep ==
  ASSUME TypeOK, TypeOK', Tracked, Solo, PromiseKeeping, PromiseKeeping',
         NEW u \in Units, HookStep(u)
  PROVE  [Promise!PromiseNext]_(Promise!pvars)
<1>1. CASE ResolveFlow(u) BY <1>1, PromiseLocal DEF ResolveFlow
<1>2. CASE SkipRelation(u) BY <1>2, PromiseLocal DEF SkipRelation
<1>3. CASE BeginRelation(u) BY <1>3, PromiseLocal DEF BeginRelation
<1>4. CASE ToGarbage(u) BY <1>4, PromiseLocal DEF ToGarbage
<1>5. CASE ResolveMappings(u) BY <1>5, PromiseLocal DEF ResolveMappings
<1>6. CASE Discovery(u) BY <1>6, PromiseDiscovery
<1>7. CASE Writes(u) BY <1>7, PromiseWrites
<1>8. CASE Collection(u)
  <2>1. CASE CollectNext(u) BY <2>1, PromiseLocal DEF CollectNext
  <2>2. CASE DeleteApplication(u) BY <2>2, DeleteApplicationMoves, PromiseLocal
  <2>3. CASE DeleteProvider(u) BY <2>3, PromiseWithdraws
  <2> QED BY <1>8, <2>1, <2>2, <2>3 DEF Collection
<1>9. CASE Commit(u) BY <1>9, PromiseCommits
<1> QED BY <1>1, <1>2, <1>3, <1>4, <1>5, <1>6, <1>7, <1>8, <1>9 DEF HookStep

LEMMA PromiseFaults ==
  ASSUME TypeOK, Tracked, PromiseKeeping, PromiseKeeping', NEW u \in Units, Faults(u)
  PROVE  [Promise!PromiseNext]_(Promise!pvars)
<1>1. CASE HookFails(u) \/ CallRefused(u) \/ Elect(u)
  BY <1>1, PromiseElsewhere
     DEF HookFails, CallRefused, Elect, HookFailed, authentik, stored, model
<1>2. CASE CreateProviderLost(u) BY <1>2, PromiseCreates
<1>3. CASE \E e \in Events : SkippedHook(u, e) BY <1>3, PromiseHandles DEF SkippedHook
<1> QED BY <1>1, <1>2, <1>3 DEF Faults

LEMMA PromiseEnvironment ==
  ASSUME TypeOK, PromiseKeeping, NoTampering, Environment
  PROVE  [Promise!PromiseNext]_(Promise!pvars)
<1>1. ~Tamper BY DEF Tamper, NoTampering, TypeOK
<1>2. ~LateCreate BY DEF LateCreate, PromiseKeeping
<1>3. ASSUME NEW r \in Relations, Integrate(r) \/ RemoveRelation(r)
      PROVE  [Promise!PromiseNext]_(Promise!pvars)
  BY <1>3, PromiseMembers
<1>4. ASSUME NEW r \in Relations, ChangeConf(r) PROVE [Promise!PromiseNext]_(Promise!pvars)
  BY <1>4, PromiseElsewhere DEF ChangeConf, authentik, stored
<1>5. ASSUME NEW u \in Units, ResolveWithoutRetry(u)
      PROVE  [Promise!PromiseNext]_(Promise!pvars)
  BY <1>5, PromiseResolves
<1> QED BY <1>1, <1>2, <1>3, <1>4, <1>5 DEF Environment, ClientSecretLost,
       AdminDeletesProvider, AdminDeletesApplication, AdminRecreatesFlow

LEMMA PromiseNextStep ==
  ASSUME TypeOK, TypeOK', Tracked, Solo, PromiseKeeping,
         NoOverlap, NoneLate, NoTampering, [Next]_vars
  PROVE  [Promise!PromiseNext]_(Promise!pvars)
<1>1. CASE UNCHANGED vars
  BY <1>1, PromiseElsewhere DEF vars, authentik, stored, model
<1>2. CASE Next
  <2>1. PromiseKeeping' BY <1>2, FaithfulNext
  <2>2. ASSUME NEW u \in Units, NEW e \in Events, Dispatch(u, e)
        PROVE  [Promise!PromiseNext]_(Promise!pvars)
    <3>1. CASE StartHook(u, e) BY <3>1, PromiseLocal DEF StartHook
    <3>2. CASE FollowerHook(u, e) BY <3>2, PromiseHandles DEF FollowerHook
    <3> QED BY <2>2, <3>1, <3>2 DEF Dispatch
  <2>3. ASSUME NEW u \in Units, HookStep(u) PROVE [Promise!PromiseNext]_(Promise!pvars)
    BY <2>1, <2>3, PromiseHookStep
  <2>4. ASSUME NEW u \in Units, Faults(u) PROVE [Promise!PromiseNext]_(Promise!pvars)
    BY <2>1, <2>4, PromiseFaults
  <2>5. CASE Environment BY <2>5, PromiseEnvironment
  <2> QED BY <1>2, <2>2, <2>3, <2>4, <2>5 DEF Next
<1> QED BY <1>1, <1>2

LEMMA PromiseStart == ASSUME Init, TypeOK PROVE Promise!PromiseInit
<1>1. PromiseKeeping BY FaithfulInit
<1>2. /\ [r \in Relations |-> Accepts(provs, r)] \in [Relations -> SUBSET Creds]
      /\ [r \in Relations |-> bag[r].creds] \in [Relations -> Creds \cup {NoCred}]
  <2>1. ASSUME NEW r \in Relations, NEW p \in OwnedBy(provs, r) PROVE provs[p].creds \in Creds
    <3>1. p \in Pks /\ provs[p] # NoProvider
      BY NamesKnown DEF OwnedBy, NoProvider
    <3> QED BY <3>1 DEF TypeOK, Providers
  <2>2. \A r \in Relations : Accepts(provs, r) \subseteq Creds BY <2>1 DEF Accepts
  <2> QED BY <2>2, PublishedValues
<1>3. ASSUME NEW r \in Relations, bag[r].creds # NoCred PROVE Accepts(provs, r) = {bag[r].creds}
  <2>1. rel[r] = "active" BY <1>3 DEF Init, EmptyBag
  <2>2. Accepted(provs, r, bag[r].creds) /\ Served(provs, apps, r)
    BY <1>1, <1>3, <2>1 DEF PromiseKeeping, Working
  <2>3. OwnedBy(provs, r) # {} BY <2>2 DEF Served
  <2> QED BY <2>2, <2>3, AcceptsOne
<1> QED BY <1>2, <1>3, PromiseVariables DEF Promise!PromiseInit, Promise!Kept

\* Step by step, the reconciler does what the oauth integration promises its
\* clients: it has Authentik accept new credentials of a relation only until
\* some were published, publishes what Authentik accepts, and withdraws a
\* client only when its relation is being removed (reconcile, _sync_relation
\* and garbage_collect of src/src/oauth.py).
THEOREM Refinement ==
  ASSUME NoOverlap, NoneLate, NoTampering
  PROVE  Spec => KeepsPromise
<1>1. Init /\ TypeOK => Promise!PromiseInit BY PromiseStart
<1>2. TypeOK /\ TypeOK' /\ Tracked /\ (Solo /\ Clean) /\ PromiseKeeping /\ [Next]_vars =>
        [Promise!PromiseNext]_(Promise!pvars)
  BY PromiseNextStep
<1> QED BY <1>1, <1>2, TypeCorrect, TrackedAlways, CleanAlways, PromiseKeepingAlways, PTL
       DEF Spec, KeepsPromise, Promise!PromiseSpec
------------------------------------------------------------------------------
(* What clients can count on follows from the steps the promise allows.      *)

LEMMA KeptMeans ==
  /\ Promise!PromiseKept <=>
       \A r \in Relations : rel[r] = "active" /\ bag[r].creds # NoCred =>
         Accepts(provs, r) = {bag[r].creds}
  /\ Promise!PromiseKept' <=>
       \A r \in Relations : rel'[r] = "active" /\ bag'[r].creds # NoCred =>
         Accepts(provs', r) = {bag'[r].creds}
BY PromiseVariables DEF Promise!PromiseKept, Promise!Kept

\* The variables of the promise, client by client.
LEMMA PromiseByClient ==
  /\ \A r \in Relations :
       [q \in Relations |-> Accepts(provs, q)][r] = Accepts(provs, r)
  /\ [q \in Relations |-> bag'[q].creds] = [q \in Relations |-> bag[q].creds] =>
       \A r \in Relations : bag'[r].creds = bag[r].creds
  /\ [q \in Relations |-> Accepts(provs', q)] = [q \in Relations |-> Accepts(provs, q)] =>
       \A r \in Relations : Accepts(provs', r) = Accepts(provs, r)
  /\ \A S : {q \in Relations : rel'[q] = "active"} = S =>
       \A r \in Relations : rel'[r] = "active" <=> r \in S
<1>1. ASSUME [q \in Relations |-> bag'[q].creds] = [q \in Relations |-> bag[q].creds],
             NEW r \in Relations
      PROVE  bag'[r].creds = bag[r].creds
  <2>1. [q \in Relations |-> bag'[q].creds][r] = [q \in Relations |-> bag[q].creds][r] BY <1>1
  <2> QED BY <2>1
<1>2. ASSUME [q \in Relations |-> Accepts(provs', q)] = [q \in Relations |-> Accepts(provs, q)],
             NEW r \in Relations
      PROVE  Accepts(provs', r) = Accepts(provs, r)
  <2>1. [q \in Relations |-> Accepts(provs', q)][r] = [q \in Relations |-> Accepts(provs, q)][r]
    BY <1>2
  <2> QED BY <2>1
<1> QED BY <1>1, <1>2

LEMMA KeptStep == Promise!PromiseKept /\ [Promise!PromiseNext]_(Promise!pvars) => Promise!PromiseKept'
<1> SUFFICES ASSUME Promise!PromiseKept, [Promise!PromiseNext]_(Promise!pvars),
                    NEW r \in Relations, rel'[r] = "active", bag'[r].creds # NoCred
    PROVE  Accepts(provs', r) = {bag'[r].creds}
  BY KeptMeans
<1>1. rel[r] = "active" /\ bag[r].creds # NoCred => Accepts(provs, r) = {bag[r].creds}
  BY KeptMeans
<1>2. CASE Promise!HandOut
  <2>1. /\ Accepts(provs', r) = Accepts(provs, r)
        /\ bag'[r].creds # bag[r].creds => Accepts(provs, r) = {bag'[r].creds}
        /\ rel[r] = "active"
    BY <1>2, PromiseVariables, PromiseByClient DEF Promise!HandOut
  <2> QED BY <1>1, <2>1
<1>3. ASSUME NEW q \in Relations, Promise!Accept(q) PROVE Accepts(provs', r) = {bag'[r].creds}
  <2>1. PICK c \in Creds :
          /\ [x \in Relations |-> Accepts(provs', x)]
               = [[x \in Relations |-> Accepts(provs, x)] EXCEPT ![q] = {c}]
          /\ bag[q].creds \in {NoCred, c}
    BY <1>3, PromiseVariables DEF Promise!Accept
  <2>2. bag'[r].creds = bag[r].creds /\ rel[r] = "active"
    BY <1>3, PromiseByClient DEF Promise!Accept
  <2>3. [x \in Relations |-> Accepts(provs', x)][r]
          = [[x \in Relations |-> Accepts(provs, x)] EXCEPT ![q] = {c}][r]
    BY <2>1
  <2>4. Accepts(provs', r) = IF r = q THEN {c} ELSE Accepts(provs, r) BY <2>3
  <2> QED BY <1>1, <2>1, <2>2, <2>4
<1>4. ASSUME NEW q \in Relations, Promise!Withdraw(q) PROVE Accepts(provs', r) = {bag'[r].creds}
  <2>1. [x \in Relations |-> Accepts(provs', x)]
          = [[x \in Relations |-> Accepts(provs, x)] EXCEPT ![q] = {}]
    BY <1>4, PromiseVariables DEF Promise!Withdraw
  <2>2. bag'[r].creds = bag[r].creds /\ rel[r] = "active" /\ r # q
    BY <1>4, PromiseByClient DEF Promise!Withdraw
  <2>3. [x \in Relations |-> Accepts(provs', x)][r]
          = [[x \in Relations |-> Accepts(provs, x)] EXCEPT ![q] = {}][r]
    BY <2>1
  <2> QED BY <1>1, <2>2, <2>3
<1>5. ASSUME NEW q \in Relations, Promise!Join(q) \/ Promise!Leave(q)
      PROVE  Accepts(provs', r) = {bag'[r].creds}
  <2>1. /\ Accepts(provs', r) = Accepts(provs, r) /\ bag'[r].creds = bag[r].creds
        /\ r = q /\ Promise!Join(q) => bag[r].creds = NoCred
        /\ rel[r] = "active" \/ (r = q /\ Promise!Join(q))
    BY <1>5, PromiseVariables, PromiseByClient DEF Promise!Join, Promise!Leave
  <2> QED BY <1>1, <2>1
<1>6. CASE UNCHANGED Promise!pvars
  <2>1. /\ Accepts(provs', r) = Accepts(provs, r) /\ bag'[r].creds = bag[r].creds
        /\ rel[r] = "active"
    BY <1>6, PromiseVariables, PromiseByClient DEF Promise!pvars
  <2> QED BY <1>1, <2>1
<1> QED BY <1>2, <1>3, <1>4, <1>5, <1>6 DEF Promise!PromiseNext

\* A client that has been given credentials can use them for as long as its
\* relation lasts, whoever takes only steps the promise allows; by Refinement,
\* so in particular the reconciler of src/src/oauth.py.
THEOREM PromiseIsKept == KeepsPromise => []Promise!PromiseKept
<1>1. Promise!PromiseInit => Promise!PromiseKept
  <2> SUFFICES ASSUME Promise!PromiseInit, NEW r \in Relations, bag[r].creds # NoCred
      PROVE  Accepts(provs, r) = {bag[r].creds}
    BY KeptMeans
  <2> QED BY PromiseVariables DEF Promise!PromiseInit, Promise!Kept
<1>2. Promise!PromiseKept /\ [Promise!PromiseNext]_(Promise!pvars) => Promise!PromiseKept'
  BY KeptStep
<1> QED BY <1>1, <1>2, PTL DEF KeepsPromise, Promise!PromiseSpec

------------------------------------------------------------------------------
(* 5. What is taken for synchronized.  As long as nobody changes a client's   *)
(* configuration or a flow, whatever is written to a relation's provider is   *)
(* the same, so a recorded hash can be wrong only about which provider it is   *)
(* of, or that there is one.  That survives overlapping hooks and late         *)
(* creates, which credentials do not.                                         *)

NoEdits == MaxEdits = 0

\* Every provider of a relation has its configuration, a late one will have it.
Configured(ps, la, cf, fl, rl) ==
  /\ \A p \in Pks, r \in Relations : ps[p].name \in NamesOf(r) =>
       rl[r] # "none" /\ ps[p].hash = [conf |-> cf[r], flow |-> fl]
  /\ \A q \in la, r \in Relations : q.name \in NamesOf(r) =>
       rl[r] # "none" /\ q.hash.conf = cf[r]

\* A hash is that of the relation's provider.
Vouched(ps, rl, ca) ==
  \A r \in Relations : rl[r] = "active" /\ ca[r].hash # NoHash =>
    ca[r].pk \in Pks /\ ps[ca[r].pk].name \in NamesOf(r) /\ ca[r].hash = ps[ca[r].pk].hash

Resolved(fl, f) == \A k \in FlowKeys : f[k] \in {NoFlow, fl[k]}

\* A provider has been written and will be referred to.
WrittenFor(ps, rl, h) ==
  h.pc \in {"createApp", "updateApp"} /\ rl[h.cur] = "active" => ps[h.pk].name \in NamesOf(h.cur)

CurrentHook(ps, fl, cf, rl, h) ==
  h.pc # "idle" =>
    /\ Vouched(ps, rl, h.cache) /\ Resolved(fl, h.flow)
    /\ \A r \in h.active : h.conf[r] = cf[r]
    /\ WrittenFor(ps, rl, h)

Current ==
  /\ Configured(provs, late, conf, flows, rel)
  /\ Vouched(provs, rel, cache) /\ Resolved(flows, flowCache)
  /\ \A u \in Units : CurrentHook(provs, flows, conf, rel, hook[u])

------------------------------------------------------------------------------
(* What a step leaves in place.                                              *)

\* Relations that were made stay as they are configured until they go, and the
\* providers of the active ones stay theirs.
Lasting ==
  /\ UNCHANGED flows
  /\ \A r \in Relations :
       /\ rel[r] # "none" => rel'[r] # "none" /\ conf'[r] = conf[r]
       /\ rel'[r] = "active" => rel[r] \in {"none", "active"}
       /\ rel[r] = "active" =>
            \A p \in Pks : provs[p].name \in NamesOf(r) => provs'[p].name \in NamesOf(r)

LEMMA VouchedLasts ==
  ASSUME Lasting, Configured(provs, late, conf, flows, rel),
         Configured(provs', late', conf', flows', rel'),
         NEW ca, Vouched(provs, rel, ca), \A r \in Relations : rel[r] = "none" => ca[r] = NoEntry
  PROVE  Vouched(provs', rel', ca)
<1> SUFFICES ASSUME NEW r \in Relations, rel'[r] = "active", ca[r].hash # NoHash
    PROVE  /\ ca[r].pk \in Pks /\ provs'[ca[r].pk].name \in NamesOf(r)
           /\ ca[r].hash = provs'[ca[r].pk].hash
  BY DEF Vouched
<1>1. rel[r] = "active" BY DEF Lasting, NoEntry
<1>2. /\ ca[r].pk \in Pks /\ provs[ca[r].pk].name \in NamesOf(r)
      /\ ca[r].hash = provs[ca[r].pk].hash
  BY <1>1 DEF Vouched
<1>3. provs'[ca[r].pk].name \in NamesOf(r) BY <1>1, <1>2 DEF Lasting
<1>4. provs'[ca[r].pk].hash = provs[ca[r].pk].hash
  <2>1. provs[ca[r].pk].hash = [conf |-> conf[r], flow |-> flows] BY <1>2 DEF Configured
  <2>2. provs'[ca[r].pk].hash = [conf |-> conf'[r], flow |-> flows'] BY <1>2, <1>3 DEF Configured
  <2>3. conf'[r] = conf[r] /\ flows' = flows BY <1>1 DEF Lasting
  <2> QED BY <2>1, <2>2, <2>3
<1> QED BY <1>2, <1>3, <1>4

\* A hook has no entry of a relation that has not been made.
LEMMA NothingYet ==
  ASSUME TypeOK, Tracked, NEW u \in Units, hook[u].pc # "idle"
  PROVE  /\ hook[u] \in HookTypes
         /\ \A r \in hook[u].active : r \in Relations /\ rel[r] # "none"
         /\ \A r \in Relations : rel[r] = "none" => hook[u].cache[r] = NoEntry
<1>1. hook[u] \in HookTypes BY HookWellFormed DEF WellFormed
<1>2. Settled(rel, hook[u]) BY TrackedRunning
<1> QED BY <1>1, <1>2 DEF Settled, HookTypes

LEMMA HookLasts ==
  ASSUME TypeOK, Tracked, Current, Lasting, Configured(provs', late', conf', flows', rel'),
         NEW u \in Units
  PROVE  CurrentHook(provs', flows', conf', rel', hook[u])
<1> SUFFICES ASSUME hook[u].pc # "idle"
    PROVE  CurrentHook(provs', flows', conf', rel', hook[u])
  BY DEF CurrentHook
<1> DEFINE h == hook[u]
<1>1. /\ h \in HookTypes
      /\ \A r \in h.active : r \in Relations /\ rel[r] # "none"
      /\ \A r \in Relations : rel[r] = "none" => h.cache[r] = NoEntry
  BY NothingYet
<1>2. /\ Vouched(provs, rel, h.cache) /\ Resolved(flows, h.flow)
      /\ \A r \in h.active : h.conf[r] = conf[r]
      /\ WrittenFor(provs, rel, h)
  BY DEF Current, CurrentHook
<1>3. h.pc \in {"createApp", "updateApp"} => h.cur \in h.active /\ h.pk \in Pks
  BY TrackedCaller, CallingHook DEF SyncCalls, KeyCalls
<1> HIDE DEF h
<1>4. Vouched(provs', rel', h.cache) BY <1>1, <1>2, VouchedLasts DEF Current
<1>5. WrittenFor(provs', rel', h) BY <1>1, <1>2, <1>3 DEF WrittenFor, Lasting
<1>6. CurrentHook(provs', flows', conf', rel', h)
  BY <1>1, <1>2, <1>4, <1>5 DEF CurrentHook, Lasting
<1> QED BY <1>6 DEF h

\* What a step of a hook has to show.
LEMMA CurrentStep ==
  ASSUME TypeOK, Tracked, Current, Lasting, Configured(provs', late', conf', flows', rel'),
         UNCHANGED stored, NEW u \in Units, NEW g, Continue(u, g),
         CurrentHook(provs', flows', conf', rel', g)
  PROVE  Current'
<1>1. \A v \in Units : hook'[v] = IF v = u THEN g ELSE hook[v]
  BY DEF Continue, TypeOK
<1>2. \A v \in Units : CurrentHook(provs', flows', conf', rel', hook'[v])
  BY <1>1, HookLasts
<1>3. \A r \in Relations : rel[r] = "none" => cache[r] = NoEntry BY DEF Tracked
<1>4. Vouched(provs', rel', cache) BY <1>3, VouchedLasts DEF Current
<1>5. cache' = cache /\ flowCache' = flowCache /\ flows' = flows BY DEF stored, Lasting
<1> QED BY <1>2, <1>4, <1>5 DEF Current

\* A step that leaves the hooks and Juju's cache alone.
LEMMA CurrentElsewhere ==
  ASSUME TypeOK, Tracked, Current, Lasting, Configured(provs', late', conf', flows', rel'),
         UNCHANGED <<cache, flowCache, hook>>
  PROVE  Current'
<1>1. \A r \in Relations : rel[r] = "none" => cache[r] = NoEntry BY DEF Tracked
<1>2. Vouched(provs', rel', cache) BY <1>1, VouchedLasts DEF Current
<1>3. \A v \in Units : CurrentHook(provs', flows', conf', rel', hook[v]) BY HookLasts
<1> QED BY <1>2, <1>3 DEF Current, Lasting

\* Nothing changes but in Juju.
LEMMA LastingIdle ==
  ASSUME Current, UNCHANGED <<provs, flows, late, conf, rel>>
  PROVE  Lasting /\ Configured(provs', late', conf', flows', rel')
BY DEF Current, Lasting

------------------------------------------------------------------------------
(* Steps that leave Authentik alone.                                         *)

LEMMA CurrentLocal ==
  ASSUME TypeOK, Tracked, Current, UNCHANGED <<provs, flows, late, stored, conf, rel>>,
         NEW u \in Units, NEW g, Continue(u, g), CurrentHook(provs, flows, conf, rel, g)
  PROVE  Current'
<1>1. Lasting /\ Configured(provs', late', conf', flows', rel') BY LastingIdle
<1> QED BY <1>1, CurrentStep

LEMMA CurrentFailed ==
  ASSUME TypeOK, Tracked, Current, NEW u \in Units, HookFailed(u), UNCHANGED authentik
  PROVE  Current'
<1>1. CurrentHook(provs, flows, conf, rel, IdleHook) BY DEF CurrentHook, IdleHook
<1> QED BY <1>1, CurrentLocal DEF HookFailed, authentik, model

\* The hook goes on with what it knew, and records nothing as done.
KnownOnward(h, g) ==
  /\ g.active = h.active /\ g.conf = h.conf
  /\ \A r \in Relations : g.cache[r] = h.cache[r] \/ g.cache[r].hash = NoHash

LEMMA CurrentOnward ==
  ASSUME Current, NEW u \in Units, hook[u].pc # "idle",
         NEW g, KnownOnward(hook[u], g), Resolved(flows, g.flow), WrittenFor(provs, rel, g)
  PROVE  CurrentHook(provs, flows, conf, rel, g)
<1> DEFINE h == hook[u]
<1>1. Vouched(provs, rel, h.cache) /\ \A r \in h.active : h.conf[r] = conf[r]
  BY DEF Current, CurrentHook
<1>2. KnownOnward(h, g) OBVIOUS
<1> HIDE DEF h
<1>3. Vouched(provs, rel, g.cache) BY <1>1, <1>2 DEF KnownOnward, Vouched
<1> QED BY <1>1, <1>2, <1>3 DEF KnownOnward, CurrentHook

LEMMA CurrentFlow ==
  ASSUME Current, NEW u \in Units, hook[u].pc # "idle"
  PROVE  /\ Resolved(flows, hook[u].flow) /\ Resolved(flows, NothingStored.flow)
BY DEF Current, CurrentHook, Resolved, NothingStored

LEMMA CurrentCaught ==
  ASSUME TypeOK, Tracked, Current, NEW u \in Units, hook[u].pc # "idle",
         Caught(u) \/ CaughtStaleFlow(u), UNCHANGED <<provs, flows, late, stored, conf, rel>>
  PROVE  Current'
<1>1. PICK g : /\ Continue(u, g) /\ SameScope(hook[u], g) /\ g.cache = hook[u].cache
               /\ g.pc = "commit" /\ g.flow \in {hook[u].flow, NothingStored.flow}
  BY CaughtMoves
<1>2. CurrentHook(provs, flows, conf, rel, g)
  BY <1>1, CurrentOnward, CurrentFlow DEF KnownOnward, SameScope, WrittenFor
<1> QED BY <1>1, <1>2, CurrentLocal

LEMMA CurrentStartHook ==
  ASSUME TypeOK, Tracked, Current, NEW u \in Units, NEW e \in Events, StartHook(u, e)
  PROVE  Current'
<1>1. PICK g : /\ Continue(u, g) /\ g.cache = cache /\ g.pc \in {"gc", "flow", "next"}
               /\ g.flow = flowCache /\ g.conf = conf
  BY StartMoves
<1>2. CurrentHook(provs, flows, conf, rel, g)
  BY <1>1 DEF Current, CurrentHook, WrittenFor
<1> QED BY <1>1, <1>2, CurrentLocal DEF StartHook, Local, authentik, model

LEMMA CurrentResolveFlow ==
  ASSUME TypeOK, Tracked, Current, NEW u \in Units, ResolveFlow(u)
  PROVE  Current'
<1>1. hook[u].pc = "flow" /\ UNCHANGED <<authentik, stored, model>>
  BY DEF ResolveFlow, At, Local
<1>2. PICK g : /\ Continue(u, g) /\ SameScope(hook[u], g) /\ g.cache = hook[u].cache
               /\ g.pc \in {"flow", "next"}
               /\ \E k \in FlowKeys : g.flow = [hook[u].flow EXCEPT ![k] = flows[k]]
  BY FlowMoves
<1>3. hook[u].flow \in [FlowKeys -> FlowUuids \cup {NoFlow}]
  BY HookWellFormed DEF WellFormed, HookTypes
<1>4. Resolved(flows, hook[u].flow) BY <1>1, CurrentFlow
<1>5. Resolved(flows, g.flow) BY <1>2, <1>3, <1>4 DEF Resolved
<1>6. CurrentHook(provs, flows, conf, rel, g)
  BY <1>1, <1>2, <1>5, CurrentOnward DEF KnownOnward, SameScope, WrittenFor
<1> QED BY <1>1, <1>2, <1>6, CurrentLocal DEF authentik, model

LEMMA CurrentBetween ==
  ASSUME TypeOK, Tracked, Current, NEW u \in Units,
         SkipRelation(u) \/ BeginRelation(u) \/ ToGarbage(u) \/ CollectNext(u)
  PROVE  Current'
<1>1. UNCHANGED <<authentik, stored, model>> /\ hook[u].pc \in {"next", "gc"}
  BY DEF SkipRelation, BeginRelation, ToGarbage, CollectNext, Local, TakesTurn, At
<1>2. PICK g : /\ Continue(u, g) /\ g.cache = hook[u].cache /\ g.active = hook[u].active
               /\ g.conf = hook[u].conf /\ g.flow = hook[u].flow
               /\ g.pc \notin {"createApp", "updateApp"}
  <2>1. CASE SkipRelation(u) BY <2>1, SkipMoves
  <2>2. CASE BeginRelation(u) BY <2>2, BeginMoves
  <2>3. CASE ToGarbage(u) BY <2>3, GarbageMoves DEF SameScope
  <2>4. CASE CollectNext(u) BY <2>4, CollectMoves DEF SameScope
  <2> QED BY <2>1, <2>2, <2>3, <2>4
<1>3. CurrentHook(provs, flows, conf, rel, g)
  BY <1>1, <1>2, CurrentOnward, CurrentFlow DEF KnownOnward, WrittenFor
<1> QED BY <1>1, <1>2, <1>3, CurrentLocal DEF authentik, model

\* A call of _sync_relation after which the hook goes on.
LEMMA CurrentCalls ==
  ASSUME TypeOK, Tracked, Current, NEW u \in Units, hook[u].pc \in SyncCalls,
         UNCHANGED <<provs, flows, late, stored, conf, rel>>,
         NEW g, Continue(u, g), SameWork(hook[u], g), Incomplete(hook[u], g),
         WrittenFor(provs, rel, g)
  PROVE  Current'
<1>1. hook[u].pc # "idle" BY DEF SyncCalls
<1>2. \A r \in Relations : g.cache[r] = hook[u].cache[r] \/ g.cache[r].hash = NoHash
  BY <1>1, NothingYet, IncompleteEntries DEF HookTypes
<1>3. CurrentHook(provs, flows, conf, rel, g)
  BY <1>1, <1>2, CurrentOnward, CurrentFlow DEF KnownOnward, SameWork, SameScope
<1> QED BY <1>3, CurrentLocal

LEMMA CurrentResolveMappings ==
  ASSUME TypeOK, Tracked, Current, NEW u \in Units, ResolveMappings(u)
  PROVE  Current'
<1>1. hook[u].pc = "mappings" /\ UNCHANGED <<authentik, stored, model>>
  BY DEF ResolveMappings, At, Local
<1>2. CASE CaughtStaleFlow(u) BY <1>1, <1>2, CurrentCaught DEF authentik, model
<1>3. CASE ~CaughtStaleFlow(u)
  <2>1. PICK g : /\ Continue(u, g) /\ SameCache(hook[u], g)
                 /\ g.pc \in {"managedApp", "cachedApp"}
    BY <1>3, MappingsMoves
  <2>2. WrittenFor(provs, rel, g) BY <2>1 DEF WrittenFor
  <2> QED BY <1>1, <2>1, <2>2, SameCacheIncomplete, CurrentCalls DEF SyncCalls, authentik, model
<1> QED BY <1>2, <1>3

LEMMA CurrentDiscovery ==
  ASSUME TypeOK, Tracked, Current, NEW u \in Units, Discovery(u)
  PROVE  Current'
<1>1. /\ hook[u].pc \in {"cachedApp", "cachedProv", "managedApp", "legacyApp", "validate", "find"}
      /\ UNCHANGED authentik
  BY DEF Discovery, GetCachedApplication, GetCachedProvider, GetManagedApplication,
     GetLegacyApplication, GetApplication, ValidateProvider, FindProvider, At, Local
<1>2. CASE HookFailed(u) BY <1>1, <1>2, CurrentFailed
<1>3. CASE ~HookFailed(u)
  <2>1. UNCHANGED <<stored, model>>
    BY <1>3 DEF Discovery, GetCachedApplication, GetCachedProvider, GetManagedApplication,
       GetLegacyApplication, GetApplication, ValidateProvider, FindProvider, Local
  <2>2. CASE Caught(u) BY <1>1, <2>1, <2>2, CurrentCaught DEF authentik, model
  <2>3. CASE ~Caught(u)
    <3>1. PICK g : /\ Continue(u, g) /\ SameWork(hook[u], g) /\ Incomplete(hook[u], g)
                   /\ g.pc \notin {"createApp", "updateApp"}
      <4>1. CASE GetCachedApplication(u)
        BY <1>3, <2>3, <4>1, CachedApplicationMoves, SameCacheIncomplete
      <4>2. CASE GetCachedProvider(u)
        <5>1. NoEntry.hash = NoHash BY DEF NoEntry
        <5> QED BY <4>2, <5>1, CachedProviderMoves, SameCacheIncomplete, WithEntryIncomplete
      <4>3. CASE GetManagedApplication(u) \/ GetLegacyApplication(u)
        BY <2>3, <4>3, ApplicationMoves, SameCacheIncomplete
           DEF GetManagedApplication, GetLegacyApplication
      <4>4. CASE ValidateProvider(u) BY <2>3, <4>4, ValidateMoves, WithEntryIncomplete
      <4>5. CASE FindProvider(u) BY <4>5, FindMoves, SameCacheIncomplete, WithEntryIncomplete
      <4> QED BY <4>1, <4>2, <4>3, <4>4, <4>5 DEF Discovery
    <3>2. WrittenFor(provs, rel, g) BY <3>1 DEF WrittenFor
    <3> QED BY <1>1, <2>1, <3>1, <3>2, CurrentCalls DEF SyncCalls, authentik, model
  <2> QED BY <2>2, <2>3
<1> QED BY <1>2, <1>3

\* The provider found has the relation's name.
LEMMA CurrentRecoverProvider ==
  ASSUME TypeOK, Tracked, Current, NEW u \in Units, RecoverProvider(u)
  PROVE  Current'
<1>1. hook[u].pc = "recover" /\ UNCHANGED authentik BY DEF RecoverProvider, At, Local
<1>2. CASE HookFailed(u) BY <1>1, <1>2, CurrentFailed
<1>3. CASE Caught(u) /\ Local BY <1>1, <1>3, CurrentCaught DEF Local, authentik, model
<1>4. ASSUME NEW p \in PksNamed(provs, ManagedName(hook[u].cur)),
             Continue(u, AfterCreate(hook[u], p)), Local
      PROVE  Current'
  <2> DEFINE g == AfterCreate(hook[u], p)
  <2>1. p \in Pks /\ provs[p].name = ManagedName(hook[u].cur) BY DEF PksNamed
  <2>2. PICK e : /\ WithEntry(hook[u], g, e) /\ e.hash = NoHash
                 /\ g.pc = "createApp" /\ g.pk = p
    BY <2>1, AfterCreateMoves
  <2>3. Continue(u, g) BY <1>4
  <2> HIDE DEF g
  <2>4. SameWork(hook[u], g) /\ Incomplete(hook[u], g) BY <2>2, WithEntryIncomplete
  <2>5. WrittenFor(provs, rel, g) BY <2>1, <2>2, <2>4 DEF WrittenFor, SameWork, NamesOf
  <2> QED BY <1>1, <1>4, <2>3, <2>4, <2>5, CurrentCalls DEF SyncCalls, Local, authentik, model
<1> QED BY <1>2, <1>3, <1>4 DEF RecoverProvider

------------------------------------------------------------------------------
(* Steps that write to Authentik.                                            *)

\* The hash of what is being synchronized is of the configuration in force.
LEMMA CurrentHash ==
  ASSUME TypeOK, Tracked, Current, NEW u \in Units, hook[u].pc \in SyncCalls
  PROVE  /\ HashOf(hook[u], hook[u].cur) = [conf |-> conf[hook[u].cur], flow |-> flows]
         /\ hook[u].cur \in Relations /\ hook[u].cur \in hook[u].active
         /\ rel[hook[u].cur] # "none" /\ hook[u].pc # "idle" /\ hook[u] \in HookTypes
<1> DEFINE h == hook[u]
<1>1. /\ h.cur \in Relations /\ h.cur \in h.active /\ h.pc # "idle" /\ h \in HookTypes
  BY TrackedCaller
<1>2. rel[h.cur] # "none" BY <1>1, NothingYet
<1>3. Resolved(flows, h.flow) /\ h.conf[h.cur] = conf[h.cur]
  BY <1>1 DEF Current, CurrentHook
<1>4. h.flow \in [FlowKeys -> FlowUuids] BY HookWellFormed DEF WellFormed, HookShape
<1> HIDE DEF h
<1>5. h.flow = flows
  <2>1. \A k \in FlowKeys : h.flow[k] \in FlowUuids BY <1>4
  <2>2. NoFlow \notin FlowUuids BY DEF NoFlow, FlowUuids
  <2>3. \A k \in FlowKeys : h.flow[k] = flows[k] BY <1>3, <2>1, <2>2 DEF Resolved
  <2>4. flows \in [FlowKeys -> FlowUuids] BY DEF TypeOK
  <2> QED BY <1>4, <2>3, <2>4
<1> QED BY <1>1, <1>2, <1>3, <1>5 DEF HashOf, h

\* A provider that is written over one of the relation, or over none.
LEMMA WrittenLasts ==
  ASSUME TypeOK, Configured(provs, late, conf, flows, rel),
         NEW r0 \in Relations, rel[r0] # "none", NEW p \in Pks, Named(provs, p, r0),
         NEW rec, rec.name = ManagedName(r0), rec.hash = [conf |-> conf[r0], flow |-> flows],
         provs' = WithProvider(provs, p, rec), late' \subseteq late,
         UNCHANGED <<flows, conf, rel>>
  PROVE  Lasting /\ Configured(provs', late', conf', flows', rel')
<1>1. \A q \in Pks : provs'[q] = IF q = p THEN rec ELSE provs[q] BY DEF WithProvider, TypeOK
<1>2. \A r \in Relations : r # r0 => provs[p].name \notin NamesOf(r) /\ rec.name \notin NamesOf(r)
  BY NamesApart DEF Named, NamesOf
<1>3. rec.name \in NamesOf(r0) BY DEF NamesOf
<1>4. \A r \in Relations, q \in Pks : provs[q].name \in NamesOf(r) => provs'[q].name \in NamesOf(r)
  BY <1>1, <1>2, <1>3
<1>5. Configured(provs', late', conf', flows', rel') BY <1>1, <1>2 DEF Configured
<1> QED BY <1>4, <1>5 DEF Lasting

LEMMA CurrentWrites ==
  ASSUME TypeOK, Tracked, Current, NEW u \in Units, hook[u].pc \in SyncCalls,
         NEW p \in Pks, Named(provs, p, hook[u].cur),
         provs' = WithProvider(provs, p, Request(hook[u])), late' = late,
         UNCHANGED <<flows, stored, conf, rel>>,
         NEW g, Continue(u, g), SameWork(hook[u], g), Incomplete(hook[u], g),
         g.pc \in {"createApp", "updateApp"} => g.pk = p
  PROVE  Current'
<1> DEFINE h == hook[u]
<1>1. /\ HashOf(h, h.cur) = [conf |-> conf[h.cur], flow |-> flows]
      /\ h.cur \in Relations /\ rel[h.cur] # "none" /\ h.pc # "idle" /\ h \in HookTypes
  BY CurrentHash
<1>2. Request(h).name = ManagedName(h.cur) /\ Request(h).hash = HashOf(h, h.cur) BY DEF Request
<1>3. Lasting /\ Configured(provs', late', conf', flows', rel')
  <2> HIDE DEF h
  <2>1. provs' = WithProvider(provs, p, Request(h)) /\ Named(provs, p, h.cur) BY DEF h
  <2> HIDE DEF Request
  <2> QED BY <1>1, <1>2, <2>1, WrittenLasts DEF Current
<1>4. CurrentHook(provs', flows', conf', rel', h) BY <1>3, HookLasts
<1>5. \A r \in Relations : g.cache[r] = h.cache[r] \/ g.cache[r].hash = NoHash
  BY <1>1, IncompleteEntries DEF HookTypes
<1>6. SameWork(h, g) OBVIOUS
<1>7. provs'[p] = Request(h) BY DEF WithProvider, TypeOK
<1> HIDE DEF h
<1>8. Vouched(provs', rel', g.cache) BY <1>1, <1>4, <1>5 DEF CurrentHook, Vouched
<1>9. WrittenFor(provs', rel', g) BY <1>2, <1>6, <1>7 DEF WrittenFor, SameWork, NamesOf
<1>10. CurrentHook(provs', flows', conf', rel', g)
  BY <1>1, <1>4, <1>6, <1>8, <1>9 DEF CurrentHook, SameWork, SameScope
<1> QED BY <1>3, <1>10, CurrentStep

LEMMA CurrentCreateProvider ==
  ASSUME TypeOK, Tracked, Current, NEW u \in Units, CreateProvider(u)
  PROVE  Current'
<1>1. PICK p \in Pks : /\ FreshPk(p) /\ provs' = WithProvider(provs, p, Request(hook[u]))
                       /\ Continue(u, AfterCreate(hook[u], p))
  BY DEF CreateProvider, ProviderCreated
<1> DEFINE g == AfterCreate(hook[u], p)
<1>2. hook[u].pc = "create" /\ UNCHANGED <<flows, late, stored, conf, rel>>
  BY DEF CreateProvider, At, model
<1>3. PICK e : WithEntry(hook[u], g, e) /\ e.hash = NoHash /\ g.pk = p
  BY AfterCreateMoves
<1>4. Continue(u, g) /\ Named(provs, p, hook[u].cur) BY <1>1, FreshNamed
<1> HIDE DEF g
<1>5. SameWork(hook[u], g) /\ Incomplete(hook[u], g) BY <1>3, WithEntryIncomplete
<1> QED BY <1>1, <1>2, <1>3, <1>4, <1>5, CurrentWrites DEF SyncCalls

LEMMA CurrentUpdateProvider ==
  ASSUME TypeOK, Tracked, Current, NEW u \in Units, UpdateProvider(u)
  PROVE  Current'
<1>1. hook[u].pc = "update" /\ UNCHANGED <<flows, late, stored, model>>
  BY DEF UpdateProvider, At
<1>2. CASE CaughtStaleFlow(u) /\ UNCHANGED provs BY <1>1, <1>2, CurrentCaught DEF model
<1>3. CASE ~(CaughtStaleFlow(u) /\ UNCHANGED provs)
  <2>1. /\ hook[u].pk \in Pks /\ provs' = WithProvider(provs, hook[u].pk, Request(hook[u]))
    BY <1>3, UpdateMoves DEF UpdateAccepted, ProviderExists
  <2>2. PICK g : Continue(u, g) /\ SameCache(hook[u], g) /\ g.pk = hook[u].pk
    BY <1>3, UpdateMoves
  <2>3. SameWork(hook[u], g) /\ Incomplete(hook[u], g) BY <2>2, SameCacheIncomplete
  <2>4. Named(provs, hook[u].pk, hook[u].cur) BY <1>1, TrackedCaller DEF SyncCalls
  <2> QED BY <1>1, <2>1, <2>2, <2>3, <2>4, CurrentWrites DEF SyncCalls, model
<1> QED BY <1>2, <1>3

\* The POST was refused, lost, executed without an answer, or is still to come.
LEMMA CurrentRecovering ==
  ASSUME TypeOK, Tracked, Current, NEW u \in Units,
         CreateProviderConflict(u) \/ CreateProviderLost(u)
  PROVE  Current'
<1> DEFINE h == hook[u]
<1>1. h.pc = "create" /\ UNCHANGED <<flows, stored, conf, rel>>
  BY DEF CreateProviderConflict, CreateProviderLost, At, Local, authentik, model
<1>2. PICK g : Continue(u, g) /\ SameCache(h, g) /\ g.pc = "recover" BY RecoveringMoves
<1>3. SameWork(h, g) /\ Incomplete(h, g) BY <1>2, SameCacheIncomplete
<1>4. WrittenFor(provs, rel, g) BY <1>2 DEF WrittenFor
<1>5. CASE UNCHANGED <<provs, late>>
  BY <1>1, <1>2, <1>3, <1>4, <1>5, CurrentCalls DEF SyncCalls
<1>6. CASE late' = late /\ provs' # provs
  <2>1. PICK p \in Pks : FreshPk(p) /\ provs' = WithProvider(provs, p, Request(h))
    BY <1>6 DEF CreateProviderConflict, CreateProviderLost, ProviderCreated, Local, authentik
  <2>2. Named(provs, p, h.cur) BY <2>1, FreshNamed
  <2> QED BY <1>1, <1>2, <1>3, <1>6, <2>1, <2>2, CurrentWrites DEF SyncCalls
<1>7. CASE late' # late
  <2>1. late' = late \cup {Request(h)} /\ provs' = provs
    BY <1>7 DEF CreateProviderConflict, CreateProviderLost, Local, authentik
  <2>2. /\ HashOf(h, h.cur) = [conf |-> conf[h.cur], flow |-> flows]
        /\ h.cur \in Relations /\ rel[h.cur] # "none" /\ h.pc # "idle" /\ h \in HookTypes
    BY <1>1, CurrentHash DEF SyncCalls
  <2>3. Request(h).name = ManagedName(h.cur) /\ Request(h).hash = HashOf(h, h.cur)
    BY DEF Request
  <2>4. \A r \in Relations : Request(h).name \in NamesOf(r) => r = h.cur
    BY <2>3, NamesApart DEF NamesOf
  <2> HIDE DEF h, Request
  <2>5. Lasting /\ Configured(provs', late', conf', flows', rel')
    BY <1>1, <2>1, <2>2, <2>3, <2>4 DEF Current, Configured, Lasting
  <2>6. \A r \in Relations : g.cache[r] = h.cache[r] \/ g.cache[r].hash = NoHash
    BY <1>3, <2>2, IncompleteEntries DEF HookTypes
  <2>7. CurrentHook(provs, flows, conf, rel, g)
    BY <1>3, <1>4, <2>2, <2>6, CurrentOnward, CurrentFlow DEF KnownOnward, SameWork, SameScope, h
  <2> QED BY <1>1, <1>2, <2>1, <2>5, <2>7, CurrentStep
<1> QED BY <1>5, <1>6, <1>7

LEMMA CurrentLateCreate == ASSUME TypeOK, Tracked, Current, LateCreate PROVE Current'
<1>1. PICK q \in late : late' = late \ {q} /\
        (provs' = provs \/ (/\ q.hash.flow = flows
                            /\ \E p \in Pks : FreshPk(p) /\ provs' = WithProvider(provs, p, q)))
  BY DEF LateCreate
<1>2. UNCHANGED <<flows, stored, conf, rel, hook>> BY DEF LateCreate, model
<1>3. CASE provs' = provs
  BY <1>1, <1>2, <1>3, CurrentElsewhere DEF Current, Configured, Lasting, stored
<1>4. CASE provs' # provs
  <2>1. PICK p \in Pks : FreshPk(p) /\ provs' = WithProvider(provs, p, q) BY <1>1, <1>4
  <2>2. q \in Providers /\ q.hash \in Hashes BY DEF TypeOK, Providers
  <2>3. \A a \in Pks : provs'[a] = IF a = p THEN q ELSE provs[a] BY <2>1 DEF WithProvider, TypeOK
  <2>4. provs[p].name = NoName
    BY <2>1 DEF FreshPk, Least, PksInUse, ProviderExists, NoProvider
  <2>5. \A r \in Relations : q.name \in NamesOf(r) =>
          rel[r] # "none" /\ q.hash = [conf |-> conf[r], flow |-> flows]
    <3> TAKE r \in Relations
    <3> HAVE q.name \in NamesOf(r)
    <3>1. rel[r] # "none" /\ q.hash.conf = conf[r] BY DEF Current, Configured
    <3>2. q.hash.flow = flows BY <1>1, <1>4
    <3> QED BY <2>2, <3>1, <3>2 DEF Hashes
  <2>6. Configured(provs', late', conf', flows', rel')
    BY <1>1, <1>2, <2>3, <2>5 DEF Current, Configured
  <2>7. Lasting BY <1>2, <2>3, <2>4, NamesKnown DEF Lasting
  <2> QED BY <1>2, <2>6, <2>7, CurrentElsewhere DEF stored
<1> QED BY <1>3, <1>4

\* The application is written last: what is recorded is what was written before.
LEMMA CurrentWriteApplication ==
  ASSUME TypeOK, Tracked, Current, NEW u \in Units,
         CreateApplication(u) \/ CreateApplicationRefused(u) \/ UpdateApplication(u)
  PROVE  Current'
<1> DEFINE h == hook[u]
<1>1. /\ h.pc \in {"createApp", "updateApp"}
      /\ UNCHANGED <<provs, flows, late, stored, conf, rel>>
  BY WriteApplicationMoves DEF model
<1>2. CASE Caught(u) \/ CaughtStaleFlow(u) BY <1>1, <1>2, CurrentCaught
<1>3. CASE ~(Caught(u) \/ CaughtStaleFlow(u))
  <2>1. PICK g : Continue(u, g) /\ SyncedHook(h, g) BY <1>3, WriteApplicationMoves
  <2>2. /\ HashOf(h, h.cur) = [conf |-> conf[h.cur], flow |-> flows]
        /\ h.cur \in Relations /\ h.pc # "idle" /\ h \in HookTypes /\ h.pk \in Pks
    BY <1>1, CurrentHash, CallingHook DEF SyncCalls, KeyCalls
  <2>3. /\ Vouched(provs, rel, h.cache) /\ Resolved(flows, h.flow)
        /\ \A r \in h.active : h.conf[r] = conf[r]
        /\ WrittenFor(provs, rel, h)
    BY <2>2 DEF Current, CurrentHook
  <2> HIDE DEF h
  <2>4. g.cache = [h.cache EXCEPT ![h.cur] =
                     [pk |-> h.pk, slug |-> h.slug, hash |-> HashOf(h, h.cur)]]
    BY <2>1 DEF SyncedHook
  <2>5. rel[h.cur] = "active" =>
          provs[h.pk].name \in NamesOf(h.cur) /\ provs[h.pk].hash = HashOf(h, h.cur)
    BY <1>1, <2>2, <2>3 DEF WrittenFor, Current, Configured
  <2>6. Vouched(provs, rel, g.cache)
    <3> SUFFICES ASSUME NEW r \in Relations, rel[r] = "active", g.cache[r].hash # NoHash
        PROVE  /\ g.cache[r].pk \in Pks /\ provs[g.cache[r].pk].name \in NamesOf(r)
               /\ g.cache[r].hash = provs[g.cache[r].pk].hash
      BY DEF Vouched
    <3>1. CASE r = h.cur
      <4>1. g.cache[r].pk = h.pk /\ g.cache[r].hash = HashOf(h, h.cur)
        BY <2>2, <2>4, <3>1 DEF HookTypes
      <4> QED BY <2>2, <2>5, <3>1, <4>1
    <3>2. CASE r # h.cur
      <4>1. g.cache[r] = h.cache[r] BY <2>2, <2>4, <3>2 DEF HookTypes
      <4> QED BY <2>3, <4>1 DEF Vouched
    <3> QED BY <3>1, <3>2
  <2>7. CurrentHook(provs, flows, conf, rel, g)
    BY <2>1, <2>3, <2>6 DEF CurrentHook, SyncedHook, WrittenFor
  <2> QED BY <1>1, <2>1, <2>7, CurrentLocal
<1> QED BY <1>2, <1>3

LEMMA CurrentDeleteApplication ==
  ASSUME TypeOK, Tracked, Current, NEW u \in Units, DeleteApplication(u)
  PROVE  Current'
<1> DEFINE h == hook[u]
<1>1. h.pc = "gcApp" /\ UNCHANGED <<provs, flows, late, stored, conf, rel>>
  BY DeleteApplicationMoves DEF model
<1>2. PICK g, e : /\ Continue(u, g) /\ Stripped(h, g, e) /\ e.hash = NoHash /\ g.pc = "gcProv"
  BY DeleteApplicationMoves
<1>3. h \in HookTypes BY HookWellFormed DEF WellFormed
<1>4. Resolved(flows, h.flow) BY <1>1, CurrentFlow
<1> HIDE DEF h
<1>5. \A r \in Relations : g.cache[r] = h.cache[r] \/ g.cache[r].hash = NoHash
  BY <1>2, <1>3 DEF Stripped, HookTypes
<1>6. KnownOnward(h, g) BY <1>2, <1>5 DEF KnownOnward, Stripped, SameScope
<1>7. Resolved(flows, g.flow) /\ WrittenFor(provs, rel, g)
  BY <1>2, <1>4 DEF Stripped, WrittenFor
<1>8. CurrentHook(provs, flows, conf, rel, g) BY <1>1, <1>6, <1>7, CurrentOnward DEF h
<1> QED BY <1>1, <1>2, <1>8, CurrentLocal

\* The provider that goes is of a relation that is on its way out.
LEMMA CurrentDeleteProvider ==
  ASSUME TypeOK, Tracked, Current, NEW u \in Units, DeleteProvider(u)
  PROVE  Current'
<1> DEFINE h == hook[u]
<1>1. /\ h.pc = "gcProv" /\ provs' = WithoutProvider(provs, h.pk)
      /\ UNCHANGED <<flows, late, stored, conf, rel>>
  BY DeleteProviderMoves DEF model
<1>2. PICK g : /\ Continue(u, g) /\ SameScope(h, g) /\ g.flow = h.flow /\ g.pc = "gc"
               /\ g.cache = [h.cache EXCEPT ![h.cur] = NoEntry]
  BY DeleteProviderMoves
<1>3. /\ h \in HookTypes /\ h.cur \in Relations /\ h.pk \in Pks
      /\ rel[h.cur] \notin {"none", "active"} /\ Named(provs, h.pk, h.cur)
  BY <1>1, TrackedCollecting
<1> HIDE DEF h
<1>4. \A q \in Pks : provs'[q] = IF q = h.pk THEN NoProvider ELSE provs[q]
  BY <1>1, <1>3 DEF WithoutProvider, TypeOK
<1>5. NoProvider.name = NoName BY DEF NoProvider
<1>6. Configured(provs', late', conf', flows', rel')
  BY <1>1, <1>4, <1>5, NamesKnown DEF Current, Configured
<1>7. \A r \in Relations : rel[r] = "active" => provs[h.pk].name \notin NamesOf(r)
  BY <1>3, NamesApart DEF Named, NamesOf
<1>8. Lasting BY <1>1, <1>4, <1>7 DEF Lasting
<1>9. CurrentHook(provs', flows', conf', rel', h) BY <1>6, <1>8, HookLasts DEF h
<1>10. \A r \in Relations : g.cache[r] = h.cache[r] \/ g.cache[r].hash = NoHash
  BY <1>2, <1>3 DEF HookTypes, NoEntry
<1>11. Vouched(provs', rel', g.cache) BY <1>1, <1>9, <1>10 DEF CurrentHook, Vouched
<1>12. CurrentHook(provs', flows', conf', rel', g)
  BY <1>1, <1>2, <1>9, <1>11 DEF CurrentHook, SameScope, WrittenFor
<1> QED BY <1>1, <1>2, <1>6, <1>8, <1>12, CurrentStep

------------------------------------------------------------------------------
(* The end of a hook, and what happens outside.                              *)

\* Relations come and go, with the configuration they come with.
LEMMA LastingModel ==
  ASSUME TypeOK, Current, UNCHANGED <<provs, flows, late>>,
         \A r \in Relations :
           /\ rel[r] # "none" => rel'[r] # "none" /\ conf'[r] = conf[r]
           /\ rel'[r] = "active" => rel[r] \in {"none", "active"}
  PROVE  Lasting /\ Configured(provs', late', conf', flows', rel')
<1>1. Lasting BY DEF Lasting
<1>2. Configured(provs', late', conf', flows', rel') BY DEF Current, Configured
<1> QED BY <1>1, <1>2

LEMMA LastingGone ==
  ASSUME TypeOK, Current, UNCHANGED <<provs, flows, late, conf>>,
         \A r \in Relations : rel'[r] = rel[r] \/ rel'[r] = "gone"
  PROVE  Lasting /\ Configured(provs', late', conf', flows', rel')
BY LastingModel

LEMMA CurrentHandleEvent ==
  ASSUME TypeOK, Tracked, Current, NEW u \in Units, NEW e \in Events, HandleEvent(u, e)
  PROVE  Current'
<1>1. \A r \in Relations : rel'[r] = rel[r] \/ rel'[r] = "gone"
  BY Departing DEF HandleEvent
<1>2. UNCHANGED <<provs, flows, late, conf, cache, flowCache, hook>>
  BY DEF HandleEvent, authentik, stored
<1> QED BY <1>1, <1>2, LastingGone, CurrentElsewhere

\* What a hook writes holds, whatever others have done since it read it.
LEMMA CurrentCommit ==
  ASSUME TypeOK, Tracked, Current, NEW u \in Units, Commit(u)
  PROVE  Current'
<1> DEFINE h == hook[u]
<1>1. h.pc = "commit" /\ UNCHANGED authentik BY DEF Commit, At
<1>2. CASE HookFailed(u) BY <1>1, <1>2, CurrentFailed
<1>3. CASE ~HookFailed(u)
  <2>1. /\ FinishEvent(u) /\ Continue(u, IdleHook) /\ UNCHANGED conf
        /\ cache' \in {cache, h.cache} /\ flowCache' \in {flowCache, h.flow}
    BY <1>3 DEF Commit
  <2>2. UNCHANGED <<provs, flows, late, conf>> BY <1>1, <2>1 DEF authentik
  <2>3. Lasting /\ Configured(provs', late', conf', flows', rel')
    BY <2>1, <2>2, FinishedRelations, LastingGone
  <2>4. /\ \A r \in Relations : rel[r] = "none" => h.cache[r] = NoEntry
        /\ Vouched(provs, rel, h.cache) /\ Resolved(flows, h.flow)
    BY <1>1, NothingYet DEF Current, CurrentHook
  <2> HIDE DEF h
  <2>5. \A r \in Relations : rel[r] = "none" => cache[r] = NoEntry BY DEF Tracked
  <2>6. Vouched(provs', rel', h.cache) BY <2>3, <2>4, VouchedLasts DEF Current
  <2>7. Vouched(provs', rel', cache) BY <2>3, <2>5, VouchedLasts DEF Current
  <2>8. Vouched(provs', rel', cache') BY <2>1, <2>6, <2>7
  <2>9. Resolved(flows', flowCache') BY <2>1, <2>2, <2>4 DEF Current
  <2>10. ASSUME NEW v \in Units PROVE CurrentHook(provs', flows', conf', rel', hook'[v])
    <3>1. CASE v = u
      <4>1. hook'[v] = IdleHook BY <2>1, <3>1 DEF Continue, TypeOK
      <4> QED BY <4>1 DEF CurrentHook, IdleHook
    <3>2. CASE v # u
      <4>1. hook'[v] = hook[v] BY <2>1, <3>2 DEF Continue, TypeOK
      <4> QED BY <2>3, <4>1, HookLasts
    <3> QED BY <3>1, <3>2
  <2> QED BY <2>3, <2>8, <2>9, <2>10 DEF Current
<1> QED BY <1>2, <1>3

LEMMA CurrentHookStep ==
  ASSUME TypeOK, Tracked, Current, NEW u \in Units, HookStep(u)
  PROVE  Current'
<1>1. CASE Writes(u)
  <2>1. CASE CreateProviderInvalid(u)
    BY <2>1, CurrentCaught DEF CreateProviderInvalid, At, Local, authentik, model
  <2> QED BY <1>1, <2>1, CurrentCreateProvider, CurrentRecovering, CurrentRecoverProvider,
       CurrentUpdateProvider, CurrentWriteApplication DEF Writes
<1>2. CASE Collection(u)
  BY <1>2, CurrentBetween, CurrentDeleteApplication, CurrentDeleteProvider DEF Collection
<1> QED BY <1>1, <1>2, CurrentResolveFlow, CurrentBetween, CurrentResolveMappings,
     CurrentDiscovery, CurrentCommit DEF HookStep

LEMMA CurrentFaults ==
  ASSUME TypeOK, Tracked, Current, NEW u \in Units, Faults(u)
  PROVE  Current'
<1>1. CASE HookFails(u) BY <1>1, CurrentFailed DEF HookFails
<1>2. CASE CallRefused(u)
  <2>1. hook[u].pc # "idle" BY <1>2 DEF CallRefused, At, Calls, SyncCalls
  <2> QED BY <1>2, <2>1, CurrentCaught DEF CallRefused, authentik, model
<1>3. CASE CreateProviderLost(u) BY <1>3, CurrentRecovering
<1>4. CASE Elect(u)
  <2>1. UNCHANGED <<provs, flows, late, conf, rel, cache, flowCache, hook>>
    BY <1>4 DEF Elect, authentik, stored
  <2> QED BY <2>1, LastingIdle, CurrentElsewhere
<1>5. CASE \E e \in Events : SkippedHook(u, e) BY <1>5, CurrentHandleEvent DEF SkippedHook
<1> QED BY <1>1, <1>2, <1>3, <1>4, <1>5 DEF Faults

LEMMA CurrentEnvironment ==
  ASSUME TypeOK, Tracked, Current, NoEdits, NoTampering, Environment
  PROVE  Current'
<1>1. ~Tamper BY DEF Tamper, NoTampering, TypeOK
<1>2. \A r \in Relations : ~ChangeConf(r) BY DEF ChangeConf, NoEdits, TypeOK
<1>3. ASSUME NEW r \in Relations, Integrate(r) \/ RemoveRelation(r) PROVE Current'
  <2>1. UNCHANGED <<provs, flows, late, cache, flowCache, hook>>
    BY <1>3 DEF Integrate, RemoveRelation, authentik, stored
  <2>2. \A q \in Relations :
          /\ rel[q] # "none" => rel'[q] # "none" /\ conf'[q] = conf[q]
          /\ rel'[q] = "active" => rel[q] \in {"none", "active"}
    BY <1>3 DEF Integrate, RemoveRelation, TypeOK
  <2> QED BY <2>1, <2>2, LastingModel, CurrentElsewhere
<1>4. ASSUME NEW u \in Units, ResolveWithoutRetry(u) PROVE Current'
  <2>1. \A r \in Relations : rel'[r] = rel[r] \/ rel'[r] = "gone"
    BY <1>4, Departing DEF ResolveWithoutRetry
  <2>2. UNCHANGED <<provs, flows, late, conf, cache, flowCache, hook>>
    BY <1>4 DEF ResolveWithoutRetry, authentik, stored
  <2> QED BY <2>1, <2>2, LastingGone, CurrentElsewhere
<1> QED BY <1>1, <1>2, <1>3, <1>4, CurrentLateCreate DEF Environment, ClientSecretLost,
     AdminDeletesProvider, AdminDeletesApplication, AdminRecreatesFlow

LEMMA CurrentNext ==
  ASSUME TypeOK, Tracked, Current, NoEdits, NoTampering, Next
  PROVE  Current'
<1>1. ASSUME NEW u \in Units, NEW e \in Events, Dispatch(u, e) PROVE Current'
  BY <1>1, CurrentStartHook, CurrentHandleEvent DEF Dispatch, FollowerHook
<1> QED BY <1>1, CurrentHookStep, CurrentFaults, CurrentEnvironment DEF Next

\* What an earlier revision has left for an active relation has its configuration.
LEMMA CurrentInit == ASSUME Init PROVE Current
<1>1. /\ \A u \in Units : hook[u].pc = "idle"
      /\ \A r \in Relations : cache[r].hash = NoHash
      /\ \A k \in FlowKeys : flowCache[k] = NoFlow
      /\ late = {}
  BY DEF Init, IdleHook, NoEntry
<1>2. PICK l \in [Relations -> LegacyStates], c \in [Relations -> Confs] :
        /\ provs = [p \in Pks |->
             IF p \in Relations /\ l[p] # "none"
             THEN [name |-> IF l[p] = "owned" THEN LegacyName(p) ELSE Foreign,
                   creds |-> p, hash |-> [conf |-> c[p], flow |-> [k \in FlowKeys |-> 1]]]
             ELSE NoProvider]
        /\ flows = [k \in FlowKeys |-> 1]
        /\ rel = [r \in Relations |-> IF l[r] = "owned" THEN "active" ELSE "none"]
        /\ conf = [r \in Relations |-> IF l[r] = "owned" THEN c[r] ELSE NoConf]
  BY DEF Init
<1>3. \A p \in Pks : \/ /\ p \in Relations /\ l[p] = "owned" /\ provs[p].name = LegacyName(p)
                        /\ provs[p].hash = [conf |-> conf[p], flow |-> flows]
                        /\ rel[p] = "active"
                     \/ provs[p].name \in {Foreign, NoName}
  <2> TAKE p \in Pks
  <2>1. CASE p \in Relations /\ l[p] = "owned"
    <3>1. provs[p] = [name |-> LegacyName(p), creds |-> p,
                      hash |-> [conf |-> c[p], flow |-> [k \in FlowKeys |-> 1]]]
      BY <1>2, <2>1
    <3>2. conf[p] = c[p] /\ rel[p] = "active" BY <1>2, <2>1
    <3> QED BY <1>2, <2>1, <3>1, <3>2
  <2>2. CASE ~(p \in Relations /\ l[p] = "owned")
    <3>1. provs[p].name \in {Foreign, NoName} BY <1>2, <2>2 DEF NoProvider
    <3> QED BY <3>1
  <2> QED BY <2>1, <2>2
<1>4. \A r : \A n \in NamesOf(r) :
        n \notin {Foreign, NoName} /\ \A q : LegacyName(q) = n => q = r
  BY DEF NamesOf, LegacyName, ManagedName, Foreign, NoName
<1>5. Configured(provs, late, conf, flows, rel)
  <2>1. \A p \in Pks, r \in Relations : provs[p].name \in NamesOf(r) =>
          rel[r] # "none" /\ provs[p].hash = [conf |-> conf[r], flow |-> flows]
    <3> TAKE p \in Pks, r \in Relations
    <3> HAVE provs[p].name \in NamesOf(r)
    <3>1. /\ provs[p].name = LegacyName(p) /\ rel[p] = "active"
          /\ provs[p].hash = [conf |-> conf[p], flow |-> flows]
      BY <1>3, <1>4
    <3>2. p = r BY <1>4, <3>1
    <3> QED BY <3>1, <3>2
  <2> QED BY <1>1, <2>1 DEF Configured
<1>6. Vouched(provs, rel, cache) /\ Resolved(flows, flowCache)
  BY <1>1 DEF Vouched, Resolved
<1> QED BY <1>1, <1>5, <1>6 DEF Current, CurrentHook

LEMMA CurrentAlways ==
  ASSUME NoEdits, NoTampering
  PROVE  Spec => []Current
<1>1. Init => Current BY CurrentInit
<1>2. TypeOK /\ Tracked /\ Current /\ [Next]_vars => Current'
  <2>1. ASSUME TypeOK, Tracked, Current, UNCHANGED vars PROVE Current'
    BY <2>1, LastingIdle, CurrentElsewhere DEF vars, authentik, stored, model
  <2> QED BY <2>1, CurrentNext
<1> QED BY <1>1, <1>2, TypeCorrect, TrackedAlways, PTL DEF Spec

\* A relation that is skipped because its hash matches has that configuration at
\* its provider, whatever hooks are cut short or overlap and whenever a create
\* request is executed (the config_hash comparison of _sync_relation): as long as
\* no requirer goes back and forth with its configuration, which the hash that
\* was stored last does not notice if a hook failed in between.
THEOREM SkipsRight ==
  ASSUME NoEdits, NoTampering
  PROVE  Spec => []SkippedMeansSynchronized
<1>1. Current => SkippedMeansSynchronized
  BY DEF Current, Vouched, SkippedMeansSynchronized
<1> QED BY <1>1, CurrentAlways, PTL

===============================================================================
