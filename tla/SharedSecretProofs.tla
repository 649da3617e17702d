-------------------------- MODULE SharedSecretProofs --------------------------
(***************************************************************************)
(* Unless a leader is replaced while a hook runs or a relation is dying,    *)
(* what the databags name can be read, and no requirer goes back to an      *)
(* older credential.                                                        *)
(*                                                                         *)
(* Both are about hooks that decide with what they started with.  What makes *)
(* that sound is that only the leader's hook decides, and that all that     *)
(* happens while it runs cannot contradict it: a relation that comes up     *)
(* meanwhile has nothing published yet, and nothing in use is newer than    *)
(* the credential the hook has.                                             *)
(***************************************************************************)
EXTENDS SharedSecret, TLAPS

\* What a hook's fields say of each other.
Shaped(h) ==
  /\ h.kind = "idle" => h.op = "unknown"
  /\ h.op = "publish" => h.kind = "sync" /\ (h.id = 0 => h.set)
  /\ h.op \in {"revoke", "remove"} => h.kind = "broken"

\* A relation that is gone has left nothing, and only a dying one is being left; a
\* hook does not list a relation its unit has left.
NothingLeft ==
  /\ \A r \in Relations : /\ life[r] = "none" => bag[r] = NoBag /\ requirer[r] = NoRequirer
                          /\ life[r] # "dying" => heard[r] = {}
  /\ \A u \in Units : hook[u].rels \subseteq Listed(u)

Published == {r \in Relations : life[r] = "up" /\ bag[r].id # 0}

\* What a leader's hook decides with is still so.
Accurate(u) ==
  /\ hook[u].op # "unknown" => Leads(u) /\ hook[u].id = secret.id
  /\ Leads(u) /\ hook[u].kind = "sync" => Published \subseteq hook[u].rels
  /\ Leads(u) /\ hook[u].kind = "broken" /\ hook[u].op = "unknown" => Published \subseteq hook[u].rels
  /\ hook[u].op = "remove" => Published = {}

\* Nothing in use is newer than v.
UpTo(v) ==
  /\ secret.pw <= v
  /\ \A r \in Relations : requirer[r].pw <= v /\ bag[r].db <= v

Newest(u) == Leads(u) /\ hook[u].kind = "sync" => UpTo(hook[u].src)

\* A requirer works with what it tracks.
Tracking == \A r \in Relations : requirer[r].rev = requirer[r].pw

\* No requirer is ahead of what is published.
InOrder ==
  \A r \in Relations :
    /\ requirer[r].db <= bag[r].db
    /\ secret.id # 0 => requirer[r].pw <= secret.pw

Inv ==
  /\ TypeOK /\ NothingLeft /\ Tracking
  /\ \A u \in Units : Shaped(hook[u])
  /\ \A u \in Units : hook[u].src <= source
  /\ UpTo(source)
  /\ PublishedReadable
  /\ ~disturbed => InOrder
  /\ ~disturbed => \A u \in Units : Accurate(u) /\ Newest(u)
------------------------------------------------------------------------------

USE SharedAssumption
USE DEF Leads, Running, Goes, Trouble, At, Decided, Storable, juju, relation, lead, budgets

\* The initial states satisfy the invariant.
LEMMA Initial == Init => Inv
<1> SUFFICES ASSUME Init PROVE Inv
  OBVIOUS
<1>1. NoHook \in Hooks /\ NoRequirer \in [on : BOOLEAN, id : Nat, rev : Nat, pw : Nat, db : Nat]
  BY DEF NoHook, Hooks, Kinds, Ops, NoRequirer
<1>2. TypeOK
  BY <1>1 DEF Init, TypeOK, NoHook, NoBag, NoSecret
<1> QED
  BY <1>2 DEF Init, Inv, NothingLeft, Shaped, UpTo, PublishedReadable, InOrder, Tracking, Accurate, Newest,
              NoHook, NoBag, NoSecret, NoRequirer, Listed

------------------------------------------------------------------------------
(* Hooks that start, and hooks that end without writing.                     *)

\* A hook that starts, or starts again, with what it sees.
LEMMA StartKeeps ==
  ASSUME Inv, NEW u \in Units, NEW kind \in {"sync", "broken"}, NEW r \in Relations \cup {0},
         kind = "sync" => r = 0,
         kind = "broken" => r \in Relations /\ life[r] = "dying" /\ u \notin heard[r],
         Start(u, kind, r),
         UNCHANGED <<lib, source, juju, requirer, relation, lead>>,
         edits' \in Nat, relates' \in Nat, troubles' \in Nat
  PROVE  Inv'
<1> DEFINE h == [NoHook EXCEPT !.kind = kind, !.rel = r, !.src = IF kind = "sync" THEN source ELSE 0,
                               !.rels = Listed(u) \ {r}]
<1>1. TypeOK BY DEF Inv
<1>2. /\ h.kind = kind /\ h.rel = r /\ h.src = (IF kind = "sync" THEN source ELSE 0)
      /\ h.rels = Listed(u) \ {r} /\ h.op = "unknown" /\ h.id = 0
  BY DEF NoHook
<1>3. h \in Hooks
  BY <1>1 DEF TypeOK, Hooks, Kinds, Ops, NoHook, Listed
<1>4. Goes(u, h) BY DEF Start
<1> HIDE DEF h
<1>5. /\ hook' \in [Units -> Hooks] /\ hook'[u] = h
      /\ \A v \in Units : v # u => hook'[v] = hook[v]
  BY <1>1, <1>3, <1>4 DEF TypeOK
<1>6. TypeOK' BY <1>1, <1>2, <1>5 DEF TypeOK, Listed
<1>7. NothingLeft' BY <1>2, <1>5 DEF Inv, NothingLeft, Listed
<1>8. \A v \in Units : Shaped(hook'[v]) BY <1>2, <1>5 DEF Inv, Shaped
<1>9. \A v \in Units : hook'[v].src <= source' BY <1>1, <1>2, <1>5 DEF Inv, TypeOK
<1>10. UpTo(source)' BY DEF Inv, UpTo
<1>11. ASSUME ~disturbed PROVE InOrder'
  BY <1>11 DEF Inv, InOrder
<1>12. ASSUME ~disturbed PROVE \A v \in Units : Accurate(v)' /\ Newest(v)'
  <2>1. Published \subseteq Listed(u) \ {r}
    BY <1>1 DEF Published, Listed, TypeOK
  <2>2. UpTo(source)' BY <1>10
  <2> QED BY <1>12, <2>1, <2>2, <1>2, <1>5 DEF Inv, Accurate, Newest, UpTo, Published
<1> QED BY <1>6, <1>7, <1>8, <1>9, <1>10, <1>11, <1>12 DEF Inv, PublishedReadable, Readable, Tracking

\* What is left when a hook ends.
LEMMA EndFacts ==
  ASSUME TypeOK, NothingLeft, \A v \in Units : Shaped(hook[v]) /\ hook[v].src <= source,
         NEW u \in Units, Ends(u), UNCHANGED <<source, life>>
  PROVE  /\ hook' \in [Units -> Hooks] /\ hook'[u] = NoHook
         /\ \A v \in Units : v # u => hook'[v] = hook[v]
         /\ heard' \in [Relations -> SUBSET Units]
         /\ \A r \in Relations : life[r] # "dying" => heard'[r] = heard[r]
         /\ \A v \in Units : \A r \in hook'[v].rels : life'[r] # "none"
         /\ \A v \in Units : hook'[v].kind = "sync" => hook'[v].rel = 0
         /\ \A v \in Units : hook'[v].op = "publish" => hook'[v].rels # {}
         /\ \A v \in Units : hook'[v].kind = "broken" =>
              /\ hook'[v].rel \in Relations /\ life'[hook'[v].rel] = "dying"
              /\ v \notin heard'[hook'[v].rel]
         /\ \A v \in Units : hook'[v].rels \subseteq Listed(v)'
         /\ \A v \in Units : Shaped(hook'[v]) /\ hook'[v].src <= source'
<1>1. NoHook.kind = "idle" /\ NoHook.rels = {} /\ NoHook.op = "unknown" /\ NoHook.src = 0
  BY DEF NoHook
<1>2. /\ hook' \in [Units -> Hooks] /\ hook'[u] = NoHook
      /\ \A v \in Units : v # u => hook'[v] = hook[v]
  BY DEF Ends, TypeOK, Hooks, NoHook, Kinds, Ops
<1>3. heard' \in [Relations -> SUBSET Units]
  BY DEF Ends, TypeOK
<1>4. \A q \in Relations : /\ life[q] # "dying" => heard'[q] = heard[q]
                           /\ \A v \in Units : v # u => (v \in heard'[q] <=> v \in heard[q])
  BY DEF Ends, TypeOK
<1>5. ASSUME NEW v \in Units, hook'[v].kind = "broken"
      PROVE  hook'[v].rel \in Relations /\ life'[hook'[v].rel] = "dying" /\ v \notin heard'[hook'[v].rel]
  <2>1. v # u BY <1>1, <1>2, <1>5
  <2>2. hook[v].rel \in Relations /\ life[hook[v].rel] = "dying" /\ v \notin heard[hook[v].rel]
    BY <1>2, <1>5, <2>1 DEF TypeOK
  <2> QED BY <1>2, <1>4, <2>1, <2>2
<1>6. \A v \in Units : hook'[v].rels \subseteq Listed(v)'
  <2>1. \A v \in Units : v # u => Listed(v)' = Listed(v)
    BY <1>4 DEF Listed
  <2> QED BY <1>1, <1>2, <2>1 DEF NothingLeft
<1>7. /\ \A v \in Units : \A r \in hook'[v].rels : life'[r] # "none"
      /\ \A v \in Units : hook'[v].kind = "sync" => hook'[v].rel = 0
      /\ \A v \in Units : hook'[v].op = "publish" => hook'[v].rels # {}
      /\ \A v \in Units : Shaped(hook'[v]) /\ hook'[v].src <= source'
  BY <1>1, <1>2 DEF TypeOK, Shaped
<1> QED BY <1>2, <1>3, <1>4, <1>5, <1>6, <1>7

\* A hook ends, and all it changes is that its unit may have left a relation.
LEMMA EndKeeps ==
  ASSUME Inv, NEW u \in Units, Ends(u),
         UNCHANGED <<lib, source, juju, requirer, life, lead>>,
         edits' \in Nat, relates' \in Nat, troubles' \in Nat
  PROVE  Inv'
<1>1. TypeOK /\ NothingLeft /\ \A v \in Units : Shaped(hook[v]) /\ hook[v].src <= source
  BY DEF Inv
<1>2. /\ hook' \in [Units -> Hooks] /\ hook'[u] = NoHook
      /\ \A v \in Units : v # u => hook'[v] = hook[v]
  BY <1>1, EndFacts
<1>3. TypeOK' BY <1>1, EndFacts DEF TypeOK
<1>4. NothingLeft' BY <1>1, EndFacts DEF NothingLeft
<1>5. \A v \in Units : Shaped(hook'[v]) /\ hook'[v].src <= source' BY <1>1, EndFacts
<1>6. ASSUME ~disturbed PROVE \A v \in Units : Accurate(v)' /\ Newest(v)'
  BY <1>6, <1>2 DEF Inv, Accurate, Newest, UpTo, Published, NoHook
<1> QED BY <1>3, <1>4, <1>5, <1>6 DEF Inv, UpTo, PublishedReadable, InOrder, Readable, Tracking

LEMMA StartSyncKeeps ==
  ASSUME Inv, NEW u \in Units, StartSync(u) PROVE Inv'
BY StartKeeps DEF StartSync, Inv, TypeOK

LEMMA StartBrokenKeeps ==
  ASSUME Inv, NEW u \in Units, NEW r \in Relations, StartBroken(u, r) PROVE Inv'
BY StartKeeps DEF StartBroken, Inv, TypeOK

\* A refused or failing hook starts again.
LEMMA AgainKeeps ==
  ASSUME Inv, NEW u \in Units, CommitRefused(u) \/ HookFails(u) PROVE Inv'
<1>1. /\ Start(u, hook[u].kind, hook[u].rel)
      /\ UNCHANGED <<lib, source, juju, requirer, relation, lead>>
      /\ edits' \in Nat /\ relates' \in Nat /\ troubles' \in Nat
  BY DEF CommitRefused, HookFails, Again, Inv, TypeOK
<1>2. hook[u] \in Hooks /\ hook[u].kind \in {"sync", "broken"}
  BY DEF CommitRefused, HookFails, Inv, TypeOK, Hooks, Kinds
<1>3. CASE hook[u].kind = "sync"
  <2>1. hook[u].rel = 0 BY <1>2, <1>3 DEF Inv, TypeOK
  <2> QED BY <1>1, <1>2, <1>3, <2>1, StartKeeps
<1>4. CASE hook[u].kind = "broken"
  <2>1. hook[u].rel \in Relations /\ life[hook[u].rel] = "dying" /\ u \notin heard[hook[u].rel]
    BY <1>4 DEF Inv, TypeOK
  <2> QED BY <1>1, <1>2, <1>4, <2>1, StartKeeps
<1> QED BY <1>2, <1>3, <1>4

LEMMA NothingKeeps ==
  ASSUME Inv, NEW u \in Units, Nothing(u) PROVE Inv'
<1>1. /\ Ends(u) /\ UNCHANGED <<lib, source, juju, requirer, life, lead>>
      /\ edits' \in Nat /\ relates' \in Nat /\ troubles' \in Nat
  BY DEF Nothing, Inv, TypeOK
<1> QED BY <1>1, EndKeeps
------------------------------------------------------------------------------
(* Hooks that decide what to write, and write it.                            *)

\* The leader's hook decides: it takes the state g.
LEMMA DecideKeeps ==
  ASSUME Inv, NEW u \in Units, Leads(u), Running(u), hook[u].op = "unknown",
         NEW g \in Hooks, Goes(u, g),
         g.kind = hook[u].kind, g.rel = hook[u].rel, g.src = hook[u].src,
         g.rels \subseteq hook[u].rels, g.id = secret.id,
         Shaped(g), g.op # "unknown",
         g.op = "publish" => g.rels = hook[u].rels /\ g.rels # {},
         g.op = "remove" => hook[u].rels = {},
         UNCHANGED <<lib, source, juju, requirer, relation, lead, budgets>>
  PROVE  Inv'
<1>1. TypeOK BY DEF Inv
<1>2. /\ hook' \in [Units -> Hooks] /\ hook'[u] = g
      /\ \A v \in Units : v # u => hook'[v] = hook[v]
  BY <1>1 DEF TypeOK
<1>3. TypeOK' BY <1>1, <1>2 DEF TypeOK
<1>4. NothingLeft' BY <1>2 DEF Inv, NothingLeft, Listed
<1>5. \A v \in Units : Shaped(hook'[v]) /\ hook'[v].src <= source' BY <1>2 DEF Inv
<1>6. ASSUME ~disturbed PROVE \A v \in Units : Accurate(v)' /\ Newest(v)'
  <2>1. /\ g.kind = "sync" => Published \subseteq g.rels
        /\ g.op = "remove" => Published = {}
    <3>1. g.op \in {"publish", "revoke", "remove"} BY DEF Hooks, Ops
    <3> QED BY <1>6, <3>1 DEF Inv, Accurate, Shaped
  <2>2. Accurate(u)'
    BY <1>2, <2>1 DEF Accurate, Published
  <2>3. Newest(u)'
    BY <1>2, <1>6 DEF Inv, Newest, UpTo
  <2>4. \A v \in Units : v # u => Accurate(v)' /\ Newest(v)'
    BY <1>2, <1>6 DEF Inv, Accurate, Newest, UpTo, Published
  <2> QED BY <2>2, <2>3, <2>4
<1>7. UpTo(source)' /\ Tracking' BY DEF Inv, UpTo, Tracking
<1>8. PublishedReadable' /\ (~disturbed => InOrder')
  BY DEF Inv, PublishedReadable, InOrder, Readable
<1>9. disturbed' = disturbed OBVIOUS
<1> QED BY <1>3, <1>4, <1>5, <1>6, <1>7, <1>8, <1>9 DEF Inv

LEMMA UpdateKeeps ==
  ASSUME Inv, NEW u \in Units, UpdateRelationsAppData(u) PROVE Inv'
<1>1. PICK set \in BOOLEAN :
        /\ Goes(u, [hook[u] EXCEPT !.op = "publish", !.id = secret.id, !.set = set])
        /\ secret.id = 0 => set
  BY DEF UpdateRelationsAppData, Update
<1> DEFINE g == [hook[u] EXCEPT !.op = "publish", !.id = secret.id, !.set = set]
<1>2. hook[u] \in Hooks /\ secret.id \in Nat BY DEF Inv, TypeOK
<1>3. /\ g \in Hooks /\ g.kind = hook[u].kind /\ g.rel = hook[u].rel /\ g.src = hook[u].src
      /\ g.rels = hook[u].rels /\ g.id = secret.id /\ g.op = "publish" /\ g.set = set
  BY <1>2 DEF Hooks, Ops
<1>4. Goes(u, g) BY <1>1
<1> HIDE DEF g
<1>5. /\ Leads(u) /\ hook[u].kind = "sync" /\ hook[u].op = "unknown" /\ hook[u].rels # {}
      /\ UNCHANGED <<lib, source, juju, requirer, relation, lead, budgets>>
  BY DEF UpdateRelationsAppData, Update
<1>6. Shaped(g) BY <1>1, <1>3, <1>5 DEF Shaped
<1> QED BY <1>3, <1>4, <1>5, <1>6, DecideKeeps

LEMMA BrokenKeeps ==
  ASSUME Inv, NEW u \in Units, OnRelationBroken(u) PROVE Inv'
<1> DEFINE op == IF hook[u].rels # {} THEN "revoke" ELSE "remove"
           g == [hook[u] EXCEPT !.op = op, !.id = secret.id, !.rels = {}]
<1>1. Goes(u, g) BY DEF OnRelationBroken, Withdraw
<1>2. hook[u] \in Hooks /\ secret.id \in Nat BY DEF Inv, TypeOK
<1>3. /\ g \in Hooks /\ g.kind = hook[u].kind /\ g.rel = hook[u].rel /\ g.src = hook[u].src
      /\ g.rels = {} /\ g.id = secret.id /\ g.op = op
  BY <1>2 DEF Hooks, Ops
<1>4. op \in {"revoke", "remove"} /\ (op = "remove" => hook[u].rels = {}) OBVIOUS
<1> HIDE DEF g, op
<1>5. /\ Leads(u) /\ hook[u].kind = "broken" /\ hook[u].op = "unknown"
      /\ UNCHANGED <<lib, source, juju, requirer, relation, lead, budgets>>
  BY DEF OnRelationBroken, Withdraw
<1>6. Shaped(g) BY <1>3, <1>4, <1>5 DEF Shaped
<1> QED BY <1>1, <1>3, <1>4, <1>5, <1>6, DecideKeeps

\* Only one hook of a leader decides, and what it decided is stored.
LEMMA CommitKeeps ==
  ASSUME Inv, NEW u \in Units, Commit(u) PROVE Inv'
<1>1. TypeOK /\ NothingLeft /\ \A v \in Units : Shaped(hook[v]) /\ hook[v].src <= source
  BY DEF Inv
<1>2. /\ Ends(u) /\ UNCHANGED <<lib, source, requirer, life, lead, budgets>>
      /\ Leads(u) /\ secret.id = hook[u].id /\ hook[u] \in Hooks
  BY <1>1 DEF Commit, TypeOK
<1>3. /\ hook' \in [Units -> Hooks] /\ hook'[u] = NoHook
      /\ \A v \in Units : v # u => hook'[v] = hook[v]
  BY <1>1, <1>2, EndFacts
<1>4. \A v \in Units : Shaped(hook'[v]) /\ hook'[v].src <= source' BY <1>1, <1>2, EndFacts
<1>5. ASSUME ~disturbed, NEW v \in Units
      PROVE  hook'[v].op = "unknown" /\ (hook'[v].kind = "idle" \/ ~Leads(v)')
  BY <1>2, <1>3, <1>5 DEF Inv, Accurate, NoHook
<1>6. ~disturbed => \A v \in Units : Accurate(v)' /\ Newest(v)'
  BY <1>2, <1>5 DEF Accurate, Newest
<1>7. CASE StorePublished(u, hook[u].rels)
  <2> DEFINE id == IF hook[u].id = 0 THEN made + 1 ELSE hook[u].id
             pw == IF hook[u].set THEN hook[u].src ELSE secret.pw
  <2>1. /\ hook[u].op = "publish" /\ hook[u].kind = "sync"
        /\ made' = IF hook[u].id = 0 THEN made + 1 ELSE made
        /\ secret' = [id |-> id, pw |-> pw, top |-> IF pw > secret.top THEN pw ELSE secret.top]
        /\ bag' = [r \in Relations |-> IF r \in hook[u].rels
                                       THEN [id |-> id, db |-> hook[u].src] ELSE bag[r]]
        /\ granted' = granted \cup hook[u].rels
    BY <1>1, <1>7 DEF StorePublished, Shaped
  <2>2. /\ id \in Nat /\ id # 0 /\ pw \in Nat /\ hook[u].rels \subseteq Relations
        /\ hook[u].id # 0 => id = secret.id
        /\ pw <= source
    BY <1>1, <1>2 DEF Hooks, TypeOK, UpTo, Inv
  <2>3. /\ secret' \in [id : Nat, pw : Nat, top : Nat] /\ secret'.id = id /\ secret'.pw = pw
        /\ made' \in Nat /\ granted' \subseteq Relations
    BY <1>1, <2>1, <2>2 DEF TypeOK
  <2>4. /\ bag' \in [Relations -> [id : Nat, db : Nat]]
        /\ \A r \in hook[u].rels : bag'[r].id = id /\ bag'[r].db = hook[u].src
        /\ \A r \in Relations \ hook[u].rels : bag'[r] = bag[r]
    BY <1>1, <1>2, <2>1, <2>2 DEF TypeOK, Hooks
  <2> HIDE DEF id, pw
  <2>5. TypeOK' BY <1>1, <1>2, <2>3, <2>4, EndFacts DEF TypeOK
  <2>6. NothingLeft'
    <3>1. \A r \in hook[u].rels : life[r] # "none" BY <1>1 DEF TypeOK
    <3>2. /\ \A v \in Units : hook'[v].rels \subseteq Listed(v)'
          /\ \A r \in Relations : life[r] # "dying" => heard'[r] = heard[r]
      BY <1>1, <1>2, EndFacts
    <3>3. \A r \in Relations : life[r] = "none" => bag'[r] = NoBag /\ requirer[r] = NoRequirer
      BY <1>1, <2>4, <3>1 DEF NothingLeft
    <3> QED BY <1>1, <1>2, <3>2, <3>3 DEF NothingLeft
  <2>7. UpTo(source)'
    BY <1>1, <1>2, <2>2, <2>3, <2>4 DEF Inv, UpTo
  <2>8. PublishedReadable'
    <3> SUFFICES ASSUME ~disturbed, NEW r \in Relations, life[r] = "up", bag'[r].id # 0
                 PROVE  Readable(r)'
      BY <1>2 DEF PublishedReadable
    <3>1. CASE r \in hook[u].rels
      BY <2>1, <2>3, <2>4, <3>1 DEF Readable
    <3>2. CASE r \notin hook[u].rels
      <4>1. r \in Published BY <2>4, <3>2 DEF Published
      <4> QED BY <1>2, <2>1, <3>2, <4>1 DEF Inv, Accurate
    <3> QED BY <3>1, <3>2
  <2>9. ASSUME ~disturbed PROVE InOrder'
    <3>1. /\ secret.pw <= hook[u].src
          /\ \A r \in Relations : requirer[r].pw <= hook[u].src /\ bag[r].db <= hook[u].src
      BY <1>2, <2>1, <2>9 DEF Inv, Newest, UpTo
    <3>2. /\ \A r \in Relations : bag[r].db \in Nat /\ requirer[r].db \in Nat /\ requirer[r].pw \in Nat
          /\ hook[u].src \in Nat /\ secret.pw \in Nat
      BY <1>1, <1>2 DEF TypeOK, Hooks
    <3>3. \A r \in Relations : requirer[r].db <= bag'[r].db
      BY <2>4, <2>9, <3>1, <3>2 DEF Inv, InOrder
    <3>4. \A r \in Relations : requirer[r].pw <= pw
      <4>1. CASE hook[u].set BY <3>1, <4>1 DEF pw
      <4>2. CASE ~hook[u].set
        BY <1>1, <1>2, <2>1, <2>9, <4>2 DEF Inv, InOrder, Shaped, pw
      <4> QED BY <4>1, <4>2
    <3> QED BY <1>2, <2>3, <3>3, <3>4 DEF InOrder
  <2>10. Tracking' /\ disturbed' = disturbed BY <1>2 DEF Inv, Tracking
  <2> QED BY <1>4, <1>6, <2>5, <2>6, <2>7, <2>8, <2>9, <2>10 DEF Inv
<1>8. CASE StoreWithdrawn(u)
  <2>1. /\ UNCHANGED <<made, bag>>
        /\ \/ /\ hook[u].op = "revoke" /\ granted' = granted \ {hook[u].rel} /\ UNCHANGED secret
           \/ hook[u].op = "remove" /\ granted' = {} /\ secret' = NoSecret
    BY <1>8 DEF StoreWithdrawn
  <2>2. hook[u].kind = "broken" /\ life[hook[u].rel] = "dying"
    BY <1>1, <2>1 DEF Shaped, TypeOK
  <2>a. NoSecret \in [id : Nat, pw : Nat, top : Nat] /\ NoSecret.pw = 0 BY DEF NoSecret
  <2>b. secret' = secret \/ secret' = NoSecret BY <2>1
  <2>c. granted' \subseteq Relations BY <1>1, <2>1 DEF TypeOK
  <2>3. secret' \in [id : Nat, pw : Nat, top : Nat] /\ secret'.pw <= source
    BY <1>1, <2>a, <2>b DEF TypeOK, Inv, UpTo
  <2>4. TypeOK' BY <1>1, <1>2, <2>1, <2>3, <2>c, EndFacts DEF TypeOK
  <2>5. NothingLeft' BY <1>1, <1>2, <2>1, EndFacts DEF NothingLeft
  <2>6. UpTo(source)' BY <1>2, <2>1, <2>3 DEF Inv, UpTo
  <2>7. PublishedReadable'
    BY <1>2, <2>1, <2>2 DEF Inv, PublishedReadable, Readable, Accurate, Published
  <2>8. ~disturbed => InOrder' BY <1>2, <2>1 DEF Inv, InOrder, NoSecret
  <2>9. Tracking' /\ disturbed' = disturbed BY <1>2 DEF Inv, Tracking
  <2> QED BY <1>4, <1>6, <2>4, <2>5, <2>6, <2>7, <2>8, <2>9 DEF Inv
<1> QED BY <1>7, <1>8 DEF Commit

------------------------------------------------------------------------------
(* The requirer and the world.                                               *)

\* What a requirer reads is neither newer than the source nor, unless disturbed,
\* older than what it has.
Fresh(r, content) ==
  /\ content \in Nat /\ content <= source
  /\ ~disturbed /\ bag[r].id # 0 /\ Readable(r) => requirer[r].pw <= content /\ content <= secret.pw

LEMMA ReadKeeps ==
  ASSUME Inv, NEW r \in Relations, life[r] = "up", NEW content, Fresh(r, content),
         GetProviderData(r, content, content),
         UNCHANGED <<lib, source, juju, relation, lead, hook, budgets>>
  PROVE  /\ Inv'
         /\ ~disturbed => requirer'[r].pw >= requirer[r].pw /\ requirer'[r].db >= requirer[r].db
         /\ \A q \in Relations : q # r => requirer'[q] = requirer[q]
<1> DEFINE h == IF bag[r].id # 0 /\ Readable(r)
                THEN [on |-> TRUE, id |-> bag[r].id, rev |-> content, pw |-> content, db |-> bag[r].db]
                ELSE [requirer[r] EXCEPT !.on = FALSE]
<1>1. TypeOK /\ content \in Nat BY DEF Inv, Fresh
<1>2. requirer' = [requirer EXCEPT ![r] = h] BY DEF GetProviderData
<1>3. h \in [on : BOOLEAN, id : Nat, rev : Nat, pw : Nat, db : Nat]
  <2>1. requirer[r] \in [on : BOOLEAN, id : Nat, rev : Nat, pw : Nat, db : Nat] BY <1>1 DEF TypeOK
  <2>2. bag[r].id \in Nat /\ bag[r].db \in Nat BY <1>1 DEF TypeOK
  <2>3. CASE bag[r].id # 0 /\ Readable(r) BY <1>1, <2>2, <2>3
  <2>4. CASE ~(bag[r].id # 0 /\ Readable(r)) BY <2>1, <2>4
  <2> QED BY <2>3, <2>4
<1>4. /\ bag[r].id # 0 /\ Readable(r) => h.rev = content /\ h.pw = content /\ h.db = bag[r].db
      /\ ~(bag[r].id # 0 /\ Readable(r)) =>
           h.rev = requirer[r].rev /\ h.pw = requirer[r].pw /\ h.db = requirer[r].db
  BY <1>1 DEF TypeOK
<1> HIDE DEF h
<1>5. /\ requirer' \in [Relations -> [on : BOOLEAN, id : Nat, rev : Nat, pw : Nat, db : Nat]]
      /\ requirer'[r] = h /\ \A q \in Relations : q # r => requirer'[q] = requirer[q]
  BY <1>1, <1>2, <1>3 DEF TypeOK
<1>6. TypeOK' BY <1>1, <1>5 DEF TypeOK
<1>7. NothingLeft' BY <1>5 DEF Inv, NothingLeft, Listed
<1>8. Tracking' BY <1>4, <1>5 DEF Inv, Tracking
<1>9. UpTo(source)' BY <1>4, <1>5 DEF Inv, UpTo, Fresh
<1>10. ASSUME ~disturbed
       PROVE  h.pw >= requirer[r].pw /\ h.db >= requirer[r].db /\ h.db <= bag[r].db
  <2>1. /\ requirer[r].db \in Nat /\ bag[r].db \in Nat /\ requirer[r].pw \in Nat
        /\ requirer[r].db <= bag[r].db
    BY <1>1, <1>10 DEF Inv, InOrder, TypeOK
  <2> QED BY <1>1, <1>4, <1>10, <2>1 DEF Fresh
<1>11. ASSUME ~disturbed PROVE secret.id # 0 => h.pw <= secret.pw
  BY <1>4, <1>11 DEF Fresh, Inv, InOrder
<1>12. PublishedReadable' /\ (~disturbed => InOrder')
  BY <1>5, <1>10, <1>11 DEF Inv, PublishedReadable, InOrder, Readable
<1>13. ASSUME ~disturbed PROVE \A v \in Units : Accurate(v)' /\ Newest(v)'
  <2>1. \A v \in Units : Accurate(v)' BY <1>13 DEF Inv, Accurate, Published
  <2>2. ASSUME NEW v \in Units, Leads(v), hook[v].kind = "sync" PROVE h.pw <= hook[v].src
    <3>1. secret.pw <= hook[v].src /\ requirer[r].pw <= hook[v].src
      BY <1>13, <2>2 DEF Inv, Newest, UpTo
    <3>2. secret.pw \in Nat /\ hook[v].src \in Nat BY <1>1 DEF TypeOK, Hooks
    <3> QED BY <1>1, <1>4, <1>13, <3>1, <3>2 DEF Fresh
  <2>3. \A v \in Units : Newest(v)'
    BY <1>5, <1>13, <2>2 DEF Inv, Newest, UpTo
  <2> QED BY <2>1, <2>3
<1> QED BY <1>5, <1>6, <1>7, <1>8, <1>9, <1>10, <1>12, <1>13 DEF Inv

LEMMA RequirerHookKeeps ==
  ASSUME Inv, NEW r \in Relations, RequirerHook(r)
  PROVE  /\ Inv'
         /\ ~disturbed => requirer'[r].pw >= requirer[r].pw /\ requirer'[r].db >= requirer[r].db
         /\ \A q \in Relations : q # r => requirer'[q] = requirer[q]
<1> DEFINE content == IF requirer[r].id = bag[r].id THEN requirer[r].rev ELSE secret.pw
<1>1. /\ requirer[r].rev = requirer[r].pw /\ requirer[r].pw <= source /\ secret.pw <= source
      /\ requirer[r].pw \in Nat /\ secret.pw \in Nat
      /\ ~disturbed /\ secret.id # 0 => requirer[r].pw <= secret.pw
  BY DEF Inv, TypeOK, Tracking, UpTo, InOrder
<1>2. Fresh(r, content) BY <1>1 DEF Fresh, Readable
<1>3. /\ life[r] = "up" /\ GetProviderData(r, content, content)
      /\ UNCHANGED <<lib, source, juju, relation, lead, hook, budgets>>
  BY DEF RequirerHook
<1> HIDE DEF content
<1> QED BY <1>2, <1>3, ReadKeeps

LEMMA SecretChangedKeeps ==
  ASSUME Inv, NEW r \in Relations, OnSecretChanged(r)
  PROVE  /\ Inv'
         /\ ~disturbed => requirer'[r].pw >= requirer[r].pw /\ requirer'[r].db >= requirer[r].db
         /\ \A q \in Relations : q # r => requirer'[q] = requirer[q]
<1>1. Fresh(r, secret.pw) BY DEF Inv, TypeOK, UpTo, InOrder, Fresh, Readable
<1>2. /\ life[r] = "up" /\ GetProviderData(r, secret.pw, secret.pw)
      /\ UNCHANGED <<lib, source, juju, relation, lead, hook, budgets>>
  BY DEF OnSecretChanged, SecretChanged
<1> QED BY <1>1, <1>2, ReadKeeps

\* A new credential, a relation made or ended.
LEMMA WorldKeeps ==
  ASSUME Inv, Edit \/ \E r \in Relations : Relate(r) \/ Unrelate(r) PROVE Inv'
<1>1. TypeOK /\ source \in Nat /\ \A u \in Units : hook[u] \in Hooks BY DEF Inv, TypeOK
<1>2. CASE Edit
  <2>1. /\ source' = source + 1 /\ edits' = edits + 1
        /\ UNCHANGED <<lib, juju, requirer, relation, lead, hook, relates, troubles>>
    BY <1>2 DEF Edit
  <2>2. TypeOK' BY <1>1, <2>1 DEF TypeOK
  <2>3. NothingLeft' /\ Tracking' BY <2>1 DEF Inv, NothingLeft, Listed, Tracking
  <2>4. \A u \in Units : Shaped(hook'[u]) /\ hook'[u].src <= source'
    BY <1>1, <2>1 DEF Inv, Hooks
  <2>5. UpTo(source)' BY <1>1, <2>1 DEF Inv, UpTo, TypeOK
  <2>6. PublishedReadable' /\ (~disturbed => InOrder')
    BY <2>1 DEF Inv, PublishedReadable, InOrder, Readable
  <2>7. ~disturbed => \A u \in Units : Accurate(u)' /\ Newest(u)'
    BY <2>1 DEF Inv, Accurate, Newest, UpTo, Published
  <2> QED BY <2>1, <2>2, <2>3, <2>4, <2>5, <2>6, <2>7 DEF Inv
<1>3. ASSUME NEW r \in Relations, Relate(r) \/ Unrelate(r) PROVE Inv'
  <2>1. /\ UNCHANGED <<lib, source, juju, requirer, heard, lead, hook>>
        /\ edits' \in Nat /\ relates' \in Nat /\ troubles' \in Nat
    BY <1>1, <1>3 DEF Relate, Unrelate, TypeOK
  <2>2. /\ life' \in [Relations -> {"none", "up", "dying"}]
        /\ \A q \in Relations : q # r => life'[q] = life[q]
        /\ \/ life[r] = "none" /\ life'[r] = "up"
           \/ life[r] = "up" /\ life'[r] = "dying"
    BY <1>1, <1>3 DEF Relate, Unrelate, TypeOK
  <2>3. TypeOK'
    <3>1. \A u \in Units : \A q \in hook[u].rels : life'[q] # "none"
      BY <1>1, <2>2 DEF TypeOK, Hooks
    <3>2. \A u \in Units : hook[u].kind = "broken" => life'[hook[u].rel] = "dying"
      BY <1>1, <2>2 DEF TypeOK
    <3> QED BY <1>1, <2>1, <2>2, <3>1, <3>2 DEF TypeOK
  <2>4. NothingLeft'
    <3>1. \A u \in Units : Listed(u) \subseteq Listed(u)'
      BY <2>1, <2>2 DEF Inv, NothingLeft, Listed
    <3> QED BY <1>1, <2>1, <2>2, <3>1 DEF Inv, NothingLeft, TypeOK
  <2>5. UpTo(source)' /\ Tracking' BY <2>1 DEF Inv, UpTo, Tracking
  <2>6. Published' \subseteq Published
    <3>1. life'[r] = "up" => bag[r].id = 0
      BY <2>2 DEF Inv, NothingLeft, NoBag
    <3> QED BY <2>1, <2>2, <3>1 DEF Published
  <2>7. PublishedReadable' /\ (~disturbed => InOrder')
    BY <2>1, <2>6 DEF Inv, PublishedReadable, InOrder, Readable, Published
  <2>8. ~disturbed => \A u \in Units : Accurate(u)' /\ Newest(u)'
    BY <2>1, <2>6 DEF Inv, Accurate, Newest, UpTo
  <2> QED BY <2>1, <2>3, <2>4, <2>5, <2>7, <2>8 DEF Inv
<1> QED BY <1>2, <1>3

LEMMA GoneKeeps ==
  ASSUME Inv, NEW r \in Relations, Gone(r) PROVE Inv'
<1>1. TypeOK BY DEF Inv
<1>2. /\ life[r] = "dying" /\ heard[r] = Units
      /\ life' = [life EXCEPT ![r] = "none"] /\ heard' = [heard EXCEPT ![r] = {}]
      /\ bag' = [bag EXCEPT ![r] = NoBag] /\ granted' = granted \ {r}
      /\ requirer' = [requirer EXCEPT ![r] = NoRequirer]
      /\ UNCHANGED <<lib, source, secret, made, lead, hook, budgets>>
  BY DEF Gone
<1>3. /\ life' \in [Relations -> {"none", "up", "dying"}] /\ heard' \in [Relations -> SUBSET Units]
      /\ life'[r] = "none" /\ heard'[r] = {} /\ bag'[r] = NoBag /\ requirer'[r] = NoRequirer
      /\ \A q \in Relations : q # r => /\ life'[q] = life[q] /\ heard'[q] = heard[q]
                                       /\ bag'[q] = bag[q] /\ requirer'[q] = requirer[q]
  BY <1>1, <1>2 DEF TypeOK
<1>4. /\ bag' \in [Relations -> [id : Nat, db : Nat]]
      /\ requirer' \in [Relations -> [on : BOOLEAN, id : Nat, rev : Nat, pw : Nat, db : Nat]]
  BY <1>1, <1>2 DEF TypeOK, NoBag, NoRequirer
<1>5. \A u \in Units : r \notin hook[u].rels /\ (hook[u].kind = "broken" => hook[u].rel # r)
  BY <1>1, <1>2 DEF Inv, NothingLeft, Listed, TypeOK
<1>6. \A u \in Units : hook[u].rels \subseteq Relations BY <1>1 DEF TypeOK, Hooks
<1>7. TypeOK'
  <2>1. ASSUME NEW u \in Units, NEW q \in hook[u].rels PROVE life'[q] # "none"
    <3>1. q \in Relations /\ q # r BY <1>5, <1>6
    <3>2. life'[q] = life[q] BY <1>3, <3>1
    <3>3. life[q] # "none" BY <1>1 DEF TypeOK
    <3> QED BY <3>2, <3>3
  <2>2. \A u \in Units : hook[u].kind = "broken" =>
          life'[hook[u].rel] = "dying" /\ u \notin heard'[hook[u].rel]
    BY <1>1, <1>3, <1>5 DEF TypeOK
  <2>3. granted' \subseteq Relations BY <1>1, <1>2 DEF TypeOK
  <2> QED BY <1>1, <1>2, <1>3, <1>4, <2>1, <2>2, <2>3 DEF TypeOK
<1>8. NothingLeft'
  <2>1. \A u \in Units : Listed(u) \ {r} \subseteq Listed(u)' BY <1>3 DEF Listed
  <2> QED BY <1>2, <1>3, <1>5, <1>6, <2>1 DEF Inv, NothingLeft
<1>9. UpTo(source)' /\ Tracking'
  BY <1>1, <1>2, <1>3 DEF Inv, UpTo, Tracking, NoBag, NoRequirer, TypeOK
<1>10. Published' \subseteq Published BY <1>3 DEF Published
<1>11. PublishedReadable'
  BY <1>2, <1>3 DEF Inv, PublishedReadable, Readable
<1>12. ~disturbed => InOrder'
  BY <1>1, <1>2, <1>3 DEF Inv, InOrder, NoBag, NoRequirer, TypeOK
<1>13. ASSUME ~disturbed PROVE \A u \in Units : Accurate(u)' /\ Newest(u)'
  <2>1. \A u \in Units : Accurate(u)' BY <1>2, <1>10, <1>13 DEF Inv, Accurate
  <2>2. \A u \in Units : Newest(u)'
    BY <1>1, <1>2, <1>3, <1>13 DEF Inv, Newest, UpTo, NoBag, NoRequirer, TypeOK, Hooks
  <2> QED BY <2>1, <2>2
<1> QED BY <1>2, <1>7, <1>8, <1>9, <1>11, <1>12, <1>13 DEF Inv

\* A leader elected while no hook runs finds nothing decided.
LEMMA ElectKeeps ==
  ASSUME Inv, NEW u \in Units, Elect(u) PROVE Inv'
<1>1. disturbed' \in BOOLEAN BY DEF Elect, Inv, TypeOK
<1>a. ~disturbed' => ~disturbed /\ \A v \in Units : hook[v].kind = "idle"
  BY ZenonT(30) DEF Elect
<1>b. /\ leader' = u /\ troubles' \in Nat
      /\ UNCHANGED <<lib, source, juju, requirer, relation, hook, edits, relates>>
  BY DEF Elect, Inv, TypeOK
<1>2. /\ leader' = u /\ troubles' \in Nat
      /\ UNCHANGED <<lib, source, juju, requirer, relation, hook, edits, relates>>
      /\ ~disturbed' => ~disturbed /\ \A v \in Units : hook[v].kind = "idle"
  BY <1>a, <1>b
<1>3. TypeOK' BY <1>1, <1>2 DEF Inv, TypeOK
<1>4. ~disturbed' => \A v \in Units : Accurate(v)' /\ Newest(v)'
  BY <1>2 DEF Inv, Shaped, Accurate, Newest
<1>5. NothingLeft' /\ Tracking' /\ UpTo(source)' BY <1>2 DEF Inv, NothingLeft, Listed, Tracking, UpTo
<1>6. PublishedReadable' /\ (~disturbed' => InOrder')
  BY <1>2 DEF Inv, PublishedReadable, InOrder, Readable
<1> QED BY <1>2, <1>3, <1>4, <1>5, <1>6 DEF Inv

------------------------------------------------------------------------------

\* Every step keeps the invariant, and no requirer goes back.
LEMMA StepKeeps ==
  ASSUME Inv, [Next]_vars
  PROVE  /\ Inv'
         /\ \A r \in Relations : ~disturbed /\ life'[r] # "none" =>
              requirer'[r].pw >= requirer[r].pw /\ requirer'[r].db >= requirer[r].db
<1>0. \A r \in Relations : requirer[r].pw \in Nat /\ requirer[r].db \in Nat
  BY DEF Inv, TypeOK
<1>1. ASSUME NEW u \in Units,
             \/ StartSync(u) \/ (\E r \in Relations : StartBroken(u, r))
             \/ HookStep(u) \/ HookFails(u) \/ Elect(u)
      PROVE  Inv' /\ UNCHANGED requirer
  <2>1. Inv'
    BY <1>1, StartSyncKeeps, StartBrokenKeeps, NothingKeeps, UpdateKeeps, BrokenKeeps, CommitKeeps,
       AgainKeeps, ElectKeeps DEF HookStep
  <2>2. UNCHANGED requirer
    BY <1>1 DEF StartSync, StartBroken, HookStep, Nothing, UpdateRelationsAppData, Update,
                OnRelationBroken, Withdraw, Commit, CommitRefused, HookFails, Elect
  <2> QED BY <2>1, <2>2
<1>2. ASSUME NEW r \in Relations, RequirerHook(r) \/ OnSecretChanged(r)
      PROVE  /\ Inv'
             /\ \A q \in Relations : ~disturbed =>
                  requirer'[q].pw >= requirer[q].pw /\ requirer'[q].db >= requirer[q].db
  BY <1>0, <1>2, RequirerHookKeeps, SecretChangedKeeps
<1>3. ASSUME Edit \/ \E r \in Relations : Relate(r) \/ Unrelate(r)
      PROVE  Inv' /\ UNCHANGED requirer
  <2>1. UNCHANGED requirer BY <1>3 DEF Edit, Relate, Unrelate
  <2> QED BY <1>3, <2>1, WorldKeeps
<1>4. ASSUME NEW r \in Relations, Gone(r)
      PROVE  Inv' /\ \A q \in Relations : life'[q] # "none" => requirer'[q] = requirer[q]
  <2>1. \A q \in Relations : life'[q] # "none" => requirer'[q] = requirer[q]
    BY <1>4 DEF Gone, Inv, TypeOK
  <2> QED BY <1>4, <2>1, GoneKeeps
<1>5. CASE UNCHANGED vars
  <2>1. Inv'
    BY <1>5 DEF vars, Inv, TypeOK, NothingLeft, Listed, Tracking, UpTo, PublishedReadable, InOrder,
                Readable, Accurate, Newest, Published
  <2> QED BY <1>0, <1>5, <2>1 DEF vars
<1> QED BY <1>0, <1>1, <1>2, <1>3, <1>4, <1>5 DEF Next

LEMMA Invariant == Spec => []Inv
<1>1. Inv /\ [Next]_vars => Inv' BY StepKeeps
<1> QED BY Initial, <1>1, PTL DEF Spec

\* Every variable has a value the code can give it, and hooks refer to what exists.
THEOREM TypeCorrect == Spec => []TypeOK
<1>1. Inv => TypeOK BY DEF Inv
<1> QED BY Invariant, <1>1, PTL

\* What a databag names can be read by the application it is for, unless a leader
\* was replaced while a hook ran or a relation was dying.
THEOREM Readability == Spec => []PublishedReadable
<1>1. Inv => PublishedReadable BY DEF Inv
<1> QED BY Invariant, <1>1, PTL

\* No application goes back to an older credential, with the same exception.
THEOREM Monotonicity == Spec => NeverOlder
<1>1. Inv /\ [Next]_vars =>
        [\A r \in Relations : ~disturbed /\ life'[r] # "none" =>
           requirer'[r].pw >= requirer[r].pw /\ requirer'[r].db >= requirer[r].db]_requirer
  BY StepKeeps
<1> QED BY Invariant, <1>1, PTL DEF Spec, NeverOlder
================================================================================
