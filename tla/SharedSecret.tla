----------------------------- MODULE SharedSecret -----------------------------
(***************************************************************************)
(* How the server shares a credential with related applications: the        *)
(* libraries authentik_cluster.py and authentik_server_info.py with the     *)
(* steps of the holistic handler that call them.  The leader keeps the      *)
(* credential in one application-owned Juju secret, grants it to every      *)
(* relation and writes the secret's id into every databag; a requirer reads *)
(* the revision of the secret it tracks.                                    *)
(*                                                                         *)
(* A hook decides with the relations and the credential it started with and *)
(* with the secret as it is when the library looks it up; what it writes    *)
(* reaches Juju when it ends, if the unit leads then.                       *)
(*                                                                         *)
(* The credential is a version number.  The databag's own data (database    *)
(* user, host) changes with it and has the same number.                     *)
(***************************************************************************)
EXTENDS Naturals

CONSTANTS
  Units,      \* of the server
  First,      \* the unit that leads first
  Relations,  \* slots for the relations of one endpoint
  MaxEdits,   \* bound on changes of the credential
  MaxRelates, \* bound on relations made
  MaxTroubles   \* bound on elections, failures and skipped publications

ASSUME SharedAssumption ==
  /\ First \in Units /\ Relations \subseteq Nat \ {0}
  /\ {MaxEdits, MaxRelates, MaxTroubles} \subseteq Nat

VARIABLES
  lib,        \* which of the two libraries
  source,     \* the credential as it is
  secret,     \* the labelled secret: its id, its latest content, the newest it ever had
  made,       \* the last id given to a secret
  granted,    \* the relations the secret is granted to
  bag,        \* relation -> the databag: the published id, and the data beside it
  requirer,   \* relation -> what the application at its other end works with
  life,       \* relation -> none, up, or dying
  heard,      \* relation -> the units that have run its relation-broken hook
  leader,
  disturbed,  \* history: a new leader while a hook ran or a relation was dying
  hook,       \* unit -> its running hook
  edits, relates, troubles   \* budgets spent

juju     == <<secret, made, granted, bag>>
relation == <<life, heard>>
lead     == <<leader, disturbed>>
budgets  == <<edits, relates, troubles>>
vars == <<lib, source, juju, requirer, relation, lead, hook, budgets>>

NoSecret   == [id |-> 0, pw |-> 0, top |-> 0]
NoBag      == [id |-> 0, db |-> 0]
\* on: get_provider_data() returns data;  pw, db: what the application works with;
\* id, rev: the secret it has read and the content it tracks.
NoRequirer == [on |-> FALSE, id |-> 0, rev |-> 0, pw |-> 0, db |-> 0]

\* kind, rel: the event;  src, rels: what the hook started with;  op: what it
\* will write, to the secret id (0: one to be created), with set if its content.
Kinds == {"idle", "sync", "broken"}
Ops   == {"unknown", "publish", "revoke", "remove"}
Hooks == [kind : Kinds, rel : Relations \cup {0}, src : Nat, rels : SUBSET Relations,
          op : Ops, id : Nat, set : BOOLEAN]
NoHook == [kind |-> "idle", rel |-> 0, src |-> 0, rels |-> {},
           op |-> "unknown", id |-> 0, set |-> FALSE]

Leads(u)   == leader = u
Running(u) == hook[u].kind # "idle"

Goes(u, h) == hook' = [hook EXCEPT ![u] = h]

\* model.relations in a hook of u: a relation is listed until u runs its
\* relation-broken hook, and not in that hook.
Listed(u) == {r \in Relations : life[r] = "up" \/ (life[r] = "dying" /\ u \notin heard[r])}

Start(u, kind, r) ==
  Goes(u, [NoHook EXCEPT !.kind = kind, !.rel = r, !.src = IF kind = "sync" THEN source ELSE 0,
                         !.rels = Listed(u) \ {r}])

Ends(u) ==
  /\ Goes(u, NoHook)
  /\ heard' = IF hook[u].kind = "broken"
              THEN [heard EXCEPT ![hook[u].rel] = @ \cup {u}] ELSE heard

Trouble == troubles < MaxTroubles /\ troubles' = troubles + 1 /\ UNCHANGED <<edits, relates>>

------------------------------------------------------------------------------
(* The provider's hooks.                                                     *)

\* relation-created (on.ready), update-status or any event of the charm.  A unit
\* that does not lead, and will not, writes nothing in such a hook.
StartSync(u) ==
  /\ ~Running(u) /\ (Leads(u) \/ troubles < MaxTroubles)
  /\ Start(u, "sync", 0)
  /\ UNCHANGED <<lib, source, juju, requirer, relation, lead, budgets>>

StartBroken(u, r) ==
  /\ ~Running(u) /\ life[r] = "dying" /\ u \notin heard[r]
  /\ Start(u, "broken", r)
  /\ UNCHANGED <<lib, source, juju, requirer, relation, lead, budgets>>

At(u, kind) == hook[u].kind = kind /\ hook[u].op = "unknown"

\* get_secret(label), get_content(): what the unit reads is the revision it tracks,
\* and since nothing refreshes it, that may be any one so far.
Contents == 1 .. secret.top

\* Nothing to write, and the hook is over: the unit does not lead, the database or
\* the API is not ready, no relation is listed, or no secret is there to withdraw.
Nothing(u) ==
  /\ \/ At(u, "sync") /\ hook[u].rels = {} /\ UNCHANGED budgets
     \/ At(u, "broken") /\ secret.id = 0 /\ UNCHANGED budgets
     \/ (At(u, "sync") \/ At(u, "broken")) /\ ~Leads(u) /\ UNCHANGED budgets
     \/ At(u, "sync") /\ Trouble
  /\ Ends(u)
  /\ UNCHANGED <<lib, source, juju, requirer, life, lead>>

\* update_relations_app_data(): the secret is created if there is none and
\* written if what is read of it is not what it should hold.
Update(u, contents) ==
  /\ At(u, "sync") /\ Leads(u) /\ hook[u].rels # {}
  /\ \E set \in IF secret.id = 0 THEN {TRUE} ELSE {c # hook[u].src : c \in contents} :
       Goes(u, [hook[u] EXCEPT !.op = "publish", !.id = secret.id, !.set = set])
  /\ UNCHANGED <<lib, source, juju, requirer, relation, lead, budgets>>

\* No relation is needed.
MutantForNobody(u) ==
  /\ At(u, "sync") /\ Leads(u)
  /\ \E set \in IF secret.id = 0 THEN {TRUE} ELSE {c # hook[u].src : c \in Contents} :
       Goes(u, [hook[u] EXCEPT !.op = "publish", !.id = secret.id, !.set = set])
  /\ UNCHANGED <<lib, source, juju, requirer, relation, lead, budgets>>

\* The content is compared with nothing once the secret exists.
MutantNeverRewritten(u) == Update(u, {hook[u].src})

UpdateRelationsAppData(u) == Update(u, Contents)

\* _on_relation_broken(): the leader revokes the grant while other relations
\* remain and removes the secret when none does.
Withdraw(u, remaining) ==
  /\ At(u, "broken") /\ Leads(u) /\ secret.id # 0
  /\ Goes(u, [hook[u] EXCEPT !.op = IF remaining # {} THEN "revoke" ELSE "remove",
                             !.id = secret.id, !.rels = {}])
  /\ UNCHANGED <<lib, source, juju, requirer, relation, lead, budgets>>

\* The last relation is not told from the others.
MutantAlwaysRemoved(u) == Withdraw(u, {})

\* The broken relation is counted as remaining.
MutantCountsItself(u) == Withdraw(u, hook[u].rels \cup {hook[u].rel})

OnRelationBroken(u) == Withdraw(u, hook[u].rels)

\* What the hook writes can be stored: the unit leads, and the secret is still
\* the one it found (or the label is still free).
Storable(u) == Leads(u) /\ secret.id = hook[u].id

Decided(u) == Running(u) /\ hook[u].op # "unknown"

\* secret-add or secret-set, secret-grant and the databags.
StorePublished(u, grantees) ==
  LET id == IF hook[u].id = 0 THEN made + 1 ELSE hook[u].id
      pw == IF hook[u].set THEN hook[u].src ELSE secret.pw
  IN
  /\ hook[u].op = "publish"
  /\ made' = IF hook[u].id = 0 THEN made + 1 ELSE made
  /\ secret' = [id |-> id, pw |-> pw, top |-> IF pw > secret.top THEN pw ELSE secret.top]
  /\ bag' = [r \in Relations |-> IF r \in hook[u].rels
                                 THEN [id |-> id, db |-> hook[u].src] ELSE bag[r]]
  /\ granted' = granted \cup grantees

StoreWithdrawn(u) ==
  /\ \/ /\ hook[u].op = "revoke"
        /\ granted' = granted \ {hook[u].rel}
        /\ UNCHANGED secret
     \/ /\ hook[u].op = "remove"
        /\ secret' = NoSecret /\ granted' = {}
  /\ UNCHANGED <<made, bag>>

\* The secret is granted when it is created, not in every hook.
MutantGrantedOnce(u) ==
  /\ Decided(u) /\ Storable(u)
  /\ \/ StorePublished(u, IF hook[u].id = 0 THEN hook[u].rels ELSE {})
     \/ StoreWithdrawn(u)
  /\ Ends(u)
  /\ UNCHANGED <<lib, source, requirer, life, lead, budgets>>

Commit(u) ==
  /\ Decided(u) /\ Storable(u)
  /\ StorePublished(u, hook[u].rels) \/ StoreWithdrawn(u)
  /\ Ends(u)
  /\ UNCHANGED <<lib, source, requirer, life, lead, budgets>>

\* The hook is run again, with the state of then.
Again(u) == Start(u, hook[u].kind, hook[u].rel)

CommitRefused(u) ==
  /\ Decided(u) /\ ~Storable(u)
  /\ Again(u)
  /\ UNCHANGED <<lib, source, juju, requirer, relation, lead, budgets>>

HookFails(u) ==
  /\ Running(u) /\ Trouble
  /\ Again(u)
  /\ UNCHANGED <<lib, source, juju, requirer, relation, lead>>

HookStep(u) ==
  Nothing(u) \/ UpdateRelationsAppData(u) \/ OnRelationBroken(u) \/ Commit(u) \/ CommitRefused(u)

------------------------------------------------------------------------------
(* The requirer's hooks.                                                     *)

\* The secret named in the databag can be read at the other end of r.
Readable(r) == bag[r].id = secret.id /\ r \in granted

\* get_provider_data(): the data of the databag with the content read of the
\* secret, or nothing.
GetProviderData(r, tracked, content) ==
  requirer' = [requirer EXCEPT ![r] =
    IF bag[r].id # 0 /\ Readable(r)
    THEN [on |-> TRUE, id |-> bag[r].id, rev |-> tracked, pw |-> content, db |-> bag[r].db]
    ELSE [@ EXCEPT !.on = FALSE]]

\* relation-changed or any later hook of the requirer: it goes on with the content
\* it tracks, which for a secret it has not read before is the latest.
RequirerHook(r) ==
  /\ life[r] = "up" /\ bag[r].id # 0
  /\ LET content == IF requirer[r].id = bag[r].id THEN requirer[r].rev ELSE secret.pw
     IN  GetProviderData(r, content, content)
  /\ UNCHANGED <<lib, source, juju, relation, lead, hook, budgets>>

\* secret-changed comes for a secret with a revision later than the one tracked,
\* and only the cluster library observes it.
SecretChanged(r) ==
  /\ lib = "cluster" /\ life[r] = "up"
  /\ requirer[r].id # 0 /\ requirer[r].id = secret.id /\ r \in granted
  /\ requirer[r].rev # secret.pw
  /\ UNCHANGED <<lib, source, juju, relation, lead, hook, budgets>>

\* The content tracked is read again.
MutantNoRefresh(r) == SecretChanged(r) /\ GetProviderData(r, requirer[r].rev, requirer[r].rev)

\* The latest content is looked at but not tracked.
MutantPeek(r) == SecretChanged(r) /\ GetProviderData(r, requirer[r].rev, secret.pw)

\* _on_secret_changed(), refresh(): the latest content is read and tracked.
OnSecretChanged(r) == SecretChanged(r) /\ GetProviderData(r, secret.pw, secret.pw)

------------------------------------------------------------------------------
(* The world around them.                                                    *)

\* The database gets new credentials.  The API token never changes.
Edit ==
  /\ lib = "cluster" /\ edits < MaxEdits /\ relates > 0
  /\ source' = source + 1 /\ edits' = edits + 1
  /\ UNCHANGED <<lib, juju, requirer, relation, lead, hook, relates, troubles>>

\* The slots are interchangeable: the first free one is taken.
Relate(r) ==
  /\ life[r] = "none" /\ \A q \in Relations : q < r => life[q] # "none"
  /\ relates < MaxRelates
  /\ life' = [life EXCEPT ![r] = "up"] /\ relates' = relates + 1
  /\ UNCHANGED <<lib, source, juju, requirer, heard, lead, hook, edits, troubles>>

Unrelate(r) ==
  /\ life[r] = "up"
  /\ life' = [life EXCEPT ![r] = "dying"]
  /\ UNCHANGED <<lib, source, juju, requirer, heard, lead, hook, budgets>>

\* Every unit has left: the relation goes, with its databag and its grants.
Gone(r) ==
  /\ life[r] = "dying" /\ heard[r] = Units
  /\ life' = [life EXCEPT ![r] = "none"] /\ heard' = [heard EXCEPT ![r] = {}]
  /\ bag' = [bag EXCEPT ![r] = NoBag] /\ granted' = granted \ {r}
  /\ requirer' = [requirer EXCEPT ![r] = NoRequirer]
  /\ UNCHANGED <<lib, source, secret, made, lead, hook, budgets>>

Elect(u) ==
  /\ ~Leads(u) /\ Trouble
  /\ leader' = u
  /\ disturbed' = (disturbed \/ (\E v \in Units : Running(v))
                             \/ (\E r \in Relations : life[r] = "dying"))
  /\ UNCHANGED <<lib, source, juju, requirer, relation, hook>>

------------------------------------------------------------------------------

Init ==
  /\ lib \in {"cluster", "server_info"}
  /\ source = 1
  /\ secret = NoSecret /\ made = 0 /\ granted = {}
  /\ bag = [r \in Relations |-> NoBag]
  /\ requirer = [r \in Relations |-> NoRequirer]
  /\ life = [r \in Relations |-> "none"] /\ heard = [r \in Relations |-> {}]
  /\ leader = First /\ disturbed = FALSE
  /\ hook = [u \in Units |-> NoHook]
  /\ edits = 0 /\ relates = 0 /\ troubles = 0

Next ==
  \/ \E u \in Units :
       \/ StartSync(u) \/ (\E r \in Relations : StartBroken(u, r))
       \/ HookStep(u) \/ HookFails(u) \/ Elect(u)
  \/ \E r \in Relations :
       RequirerHook(r) \/ OnSecretChanged(r) \/ Relate(r) \/ Unrelate(r) \/ Gone(r)
  \/ Edit

Spec == Init /\ [][Next]_vars

RequirerStep == \E r \in Relations : RequirerHook(r) \/ OnSecretChanged(r)

\* update-status comes for ever, hooks end, a dying relation's hooks are run, and
\* Juju delivers relation-changed and secret-changed.
FairSpec ==
  /\ Spec
  /\ \A u \in Units : /\ WF_vars(StartSync(u)) /\ WF_vars(HookStep(u))
                      /\ SF_vars(\E r \in Relations : StartBroken(u, r))
  /\ WF_vars(RequirerStep) /\ WF_vars(\E r \in Relations : Gone(r))

------------------------------------------------------------------------------
(* Properties.                                                               *)

\* Every variable has a value the code can give it; a hook refers to relations that
\* exist, and publishes to at least one.
TypeOK ==
  /\ lib \in {"cluster", "server_info"} /\ source \in Nat
  /\ secret \in [id : Nat, pw : Nat, top : Nat] /\ made \in Nat
  /\ granted \subseteq Relations
  /\ bag \in [Relations -> [id : Nat, db : Nat]]
  /\ requirer \in [Relations -> [on : BOOLEAN, id : Nat, rev : Nat, pw : Nat, db : Nat]]
  /\ life \in [Relations -> {"none", "up", "dying"}]
  /\ heard \in [Relations -> SUBSET Units]
  /\ leader \in Units /\ disturbed \in BOOLEAN
  /\ hook \in [Units -> Hooks]
  /\ edits \in Nat /\ relates \in Nat /\ troubles \in Nat
  /\ \A u \in Units : \A r \in hook[u].rels : life[r] # "none"
  /\ \A u \in Units : hook[u].kind = "sync" => hook[u].rel = 0
  /\ \A u \in Units : hook[u].kind = "broken" =>
       hook[u].rel \in Relations /\ life[hook[u].rel] = "dying" /\ u \notin heard[hook[u].rel]
  /\ \A u \in Units : hook[u].op = "publish" => hook[u].rels # {}

\* What a databag names can be read: the id published to a relation is that of
\* the secret there is, and the secret is granted to the relation ("Grants the
\* secret to each related worker app", update_relations_app_data), unless a new
\* leader was elected while a hook ran or a relation was dying.
PublishedReadable ==
  ~disturbed => \A r \in Relations : life[r] = "up" /\ bag[r].id # 0 => Readable(r)

\* No requirer goes back to an older credential or to older data beside it,
\* whatever hooks run in which order, unless a leader was replaced as above.
NeverOlder ==
  [][\A r \in Relations : ~disturbed /\ life'[r] # "none" =>
       requirer'[r].pw >= requirer[r].pw /\ requirer'[r].db >= requirer[r].db]_requirer

\* "update the existing secret's content" (src/openspec/specs/authentik-cluster-lib):
\* in the end every application works with the credential as it is.
Current(r) == requirer[r].on /\ requirer[r].pw = source /\ requirer[r].db = source

Converges == <>disturbed \/ <>[](\A r \in Relations : life[r] = "up" => Current(r))

\* Also when leaders are replaced at the wrong moment, what the databags name can
\* be read in the end.
ReadableInTheEnd ==
  <>[](\A r \in Relations : life[r] = "up" => bag[r].id # 0 /\ Readable(r))

\* "deleting the secret entirely when no cluster relation remains"
\* (src/openspec/specs/authentik-cluster-lib/spec.md), unless a leader was
\* replaced as above.
RemovedWithLast ==
  <>disturbed \/ <>[]((\A r \in Relations : life[r] = "none") => secret = NoSecret)

\* The same without the exception, which the code does not keep: whoever leads
\* when the last relation-broken hook runs may not be who leads in its own.
RemovedAlways ==
  <>[]((\A r \in Relations : life[r] = "none") => secret = NoSecret)

\* Data and password of one version are used together.  The code does not keep
\* it: the databag is read as it is, the secret at the revision tracked.
Consistent ==
  \A r \in Relations : requirer[r].on => requirer[r].pw = requirer[r].db
================================================================================
