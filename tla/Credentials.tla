------------------------------ MODULE Credentials ------------------------------
(***************************************************************************)
(* The credentials of an Authentik deployment: src/src/secret.py and the    *)
(* steps of the holistic handler that use it.  The leader generates them    *)
(* once and keeps them in one Juju secret; every unit starts Authentik with *)
(* them; Authentik's database takes the token and the password from the     *)
(* first process that starts on it; the token is handed to the consumers of *)
(* server-info.  Four copies, which no transaction spans: what a hook       *)
(* writes to Juju is stored when the hook succeeds, what it does to Pebble  *)
(* and to the database is done at once.                                     *)
(*                                                                         *)
(* A secret key, a bootstrap token and a bootstrap password are generated   *)
(* together and never change separately: the model has one key for three.   *)
(***************************************************************************)
EXTENDS Naturals

CONSTANTS
  Units,
  MaxKeys,       \* bound on the keys generated
  DbStates,      \* the keys the database may have been bootstrapped with
  FailAt,        \* the steps at which a hook may fail
  MaxFaults,     \* bound on failures, refusals and unanswered requests
  MaxElections,  \* bound on changes of leader
  MaxSwaps       \* bound on new databases and restarted containers

NoKey  == 0
OldKey == 1      \* of an earlier deployment on the same database
Keys   == 1 .. MaxKeys

\* The step a hook is at, named for what it does next.
Steps == {"secrets", "create", "token", "reset", "info", "plan", "commit"}

\* What the availability probe has answered in this hook, if it has been sent.
Answers == {"unasked", "accepted", "rejected", "unavailable"}

ASSUME CredentialsAssumption ==
  /\ MaxKeys \in Nat \ {0}
  /\ DbStates \subseteq {NoKey, OldKey} /\ FailAt \subseteq Steps
  /\ {MaxFaults, MaxElections, MaxSwaps} \subseteq Nat

VARIABLES
  secret,    \* the labelled secret: its key, or NoKey
  shared,    \* the key whose token the consumers of server-info have been given
  token,     \* the key whose token the database accepts
  password,  \* the key whose password the admin user has; NoKey: no such user
  env,       \* unit -> the key its Authentik process runs with, NoKey if none
  up,        \* unit -> its process is up and ready
  leader,
  deposed,   \* history: a leader has been replaced during its hook
  hook,      \* unit -> its running hook
  made,      \* the last key generated
  faults, elections, swaps   \* budgets spent

database == <<token, password>>
stored   == <<secret, shared>>
process  == <<env, up>>
leadership == <<leader, deposed>>
budgets  == <<faults, elections, swaps>>
vars     == <<stored, database, process, leadership, hook, made, budgets>>

\* key: what the hook's Secrets object holds;  mine: the hook has generated it;
\* answer: the client's cached availability;  publish: server-info is written.
Hooks == [pc : Steps \cup {"idle"}, key : Keys \cup {NoKey}, mine : BOOLEAN,
          answer : Answers, publish : BOOLEAN]
NoHook == [pc |-> "idle", key |-> NoKey, mine |-> FALSE,
           answer |-> "unasked", publish |-> FALSE]

Leads(u) == leader = u
At(u, s) == hook[u].pc = s

\* The hook of u goes on with the fields f changed.
Goes(u, f) == hook' = [hook EXCEPT ![u] = f]
GoesTo(u, s) == Goes(u, [hook[u] EXCEPT !.pc = s])

Fault == faults < MaxFaults /\ faults' = faults + 1
NoFault == UNCHANGED budgets

------------------------------------------------------------------------------
(* The steps of a hook.                                                      *)

StartHook(u) ==
  /\ At(u, "idle")
  /\ Goes(u, [NoHook EXCEPT !.pc = "secrets"])
  /\ UNCHANGED <<stored, database, process, leadership, made, budgets>>

\* _ensure_secrets(): the secret is looked up once per hook.
SecretFound(u) ==
  /\ At(u, "secrets") /\ secret # NoKey
  /\ Goes(u, [hook[u] EXCEPT !.pc = "token", !.key = secret])
  /\ UNCHANGED <<stored, database, process, leadership, made, budgets>>

\* There is none, or the controller does not answer: the leader creates one, any
\* other unit goes without, and without a plan.
SecretMissing(u) ==
  /\ At(u, "secrets")
  /\ \/ secret = NoKey /\ NoFault
     \/ secret # NoKey /\ Fault /\ UNCHANGED <<elections, swaps>>
  /\ GoesTo(u, IF Leads(u) THEN "create" ELSE "commit")
  /\ UNCHANGED <<stored, database, process, leadership, made>>

\* create(): the label is taken only if the lookup above has failed, and then
\* the secret that has it is adopted.
Created(u, adopted) ==
  /\ At(u, "create") /\ made < MaxKeys
  /\ made' = made + 1
  /\ Goes(u, [hook[u] EXCEPT !.pc = "token", !.key = IF secret = NoKey THEN made' ELSE adopted,
                             !.mine = (secret = NoKey)])

\* The secret that has the label is found but not kept.
MutantAdoptNothing(u) ==
  /\ Created(u, NoKey)
  /\ UNCHANGED <<stored, database, process, leadership, budgets>>

CreateSecret(u) ==
  /\ Created(u, secret)
  /\ UNCHANGED <<stored, database, process, leadership, budgets>>

\* What the API answers a request with this key's token.
Accepts(k) == token = k

\* An earlier step of the handler (cluster, Traefik) or a later one (TLS, oauth)
\* says no, or Pebble does not take the plan.
StepRefused(u) ==
  /\ \E s \in {"token", "plan"} : At(u, s)
  /\ Fault /\ UNCHANGED <<elections, swaps>>
  /\ GoesTo(u, "commit")
  /\ UNCHANGED <<stored, database, process, leadership, made>>

\* _ensure_api_token(): the leader asks whether its token is accepted.
MutantNeverReset(u) ==
  /\ At(u, "token")
  /\ GoesTo(u, "info")
  /\ UNCHANGED <<stored, database, process, leadership, made, budgets>>

EnsureApiToken(u) ==
  /\ At(u, "token")
  /\ \/ /\ ~Leads(u) \/ ~up[u]
        /\ GoesTo(u, "info") /\ NoFault
     \/ /\ Leads(u) /\ up[u] /\ NoFault
        /\ Goes(u, IF Accepts(hook[u].key)
                   THEN [hook[u] EXCEPT !.pc = "info", !.answer = "accepted"]
                   ELSE [hook[u] EXCEPT !.pc = "reset", !.answer = "rejected"])
     \/ /\ Leads(u) /\ up[u] /\ Fault /\ UNCHANGED <<elections, swaps>>
        /\ Goes(u, [hook[u] EXCEPT !.pc = "info", !.answer = "unavailable"])
  /\ UNCHANGED <<stored, database, process, leadership, made>>

\* reset_api_token(): sets the token of the admin user and drops the client with
\* its answer.  Without that user, or if the command fails, the answer stays.
ResetApiToken(u) ==
  /\ At(u, "reset")
  /\ \/ /\ password # NoKey /\ NoFault
        /\ token' = hook[u].key
        /\ Goes(u, [hook[u] EXCEPT !.pc = "info", !.answer = "unasked"])
     \/ /\ \/ password = NoKey /\ NoFault
           \/ Fault /\ UNCHANGED <<elections, swaps>>
        /\ GoesTo(u, "info") /\ UNCHANGED token
  /\ UNCHANGED <<stored, password, process, leadership, made>>

\* The key is known: the token is published without asking the API.
MutantPublishUnasked(u) ==
  /\ At(u, "info")
  /\ Goes(u, [hook[u] EXCEPT !.pc = "plan", !.publish = Leads(u)])
  /\ UNCHANGED <<stored, database, process, leadership, made, budgets>>

\* _ensure_server_info_relation(): the leader publishes the token if the API
\* accepts it, by the answer this hook has or, if it has none, a new one.
Serves(u) ==
  /\ Leads(u) /\ up[u]
  /\ \/ hook[u].answer = "accepted"
     \/ hook[u].answer = "unasked" /\ Accepts(hook[u].key)

EnsureServerInfo(u) ==
  /\ At(u, "info")
  /\ \/ /\ Serves(u) /\ NoFault
        /\ Goes(u, [hook[u] EXCEPT !.pc = "plan", !.publish = TRUE])
     \/ /\ \/ ~Serves(u) /\ NoFault
           \/ /\ Leads(u) /\ up[u] /\ hook[u].answer = "unasked"
              /\ Fault /\ UNCHANGED <<elections, swaps>>
        /\ GoesTo(u, "plan")
  /\ UNCHANGED <<stored, database, process, leadership, made>>

\* plan(): the process is restarted if its environment changes.
Plan(u) ==
  /\ At(u, "plan")
  /\ env' = [env EXCEPT ![u] = hook[u].key]
  /\ up' = [up EXCEPT ![u] = @ /\ env[u] = hook[u].key]
  /\ GoesTo(u, "commit")
  /\ UNCHANGED <<stored, database, leadership, made, budgets>>

\* The hook succeeds and Juju stores what it wrote.  Only the leader may write,
\* and the label must still be free for a new secret.
Storable(u) ==
  /\ hook[u].mine \/ hook[u].publish => Leads(u)
  /\ hook[u].mine => secret = NoKey

Commit(u) ==
  /\ At(u, "commit") /\ Storable(u)
  /\ secret' = IF hook[u].mine THEN hook[u].key ELSE secret
  /\ shared' = IF hook[u].publish THEN hook[u].key ELSE shared
  /\ Goes(u, NoHook)
  /\ UNCHANGED <<database, process, leadership, made, budgets>>

CommitRefused(u) ==
  /\ At(u, "commit") /\ ~Storable(u)
  /\ Goes(u, NoHook)
  /\ UNCHANGED <<stored, database, process, leadership, made, budgets>>

\* The hook fails or is killed: what it wrote to Juju is dropped.
HookFails(u) ==
  /\ hook[u].pc \in FailAt
  /\ Fault /\ UNCHANGED <<elections, swaps>>
  /\ Goes(u, NoHook)
  /\ UNCHANGED <<stored, database, process, leadership, made>>

HookStep(u) ==
  \/ SecretFound(u) \/ SecretMissing(u) \/ CreateSecret(u) \/ StepRefused(u)
  \/ EnsureApiToken(u) \/ ResetApiToken(u) \/ EnsureServerInfo(u)
  \/ Plan(u) \/ Commit(u) \/ CommitRefused(u)

------------------------------------------------------------------------------
(* The world around it.                                                      *)

\* Authentik creates its admin user, with this password and this token, when it
\* starts on an empty database.
Bootstrap(u) ==
  /\ env[u] # NoKey /\ password = NoKey
  /\ password' = env[u] /\ token' = env[u]
  /\ UNCHANGED <<stored, process, leadership, hook, made, budgets>>

Ready(u) ==
  /\ env[u] # NoKey /\ ~up[u]
  /\ up' = [up EXCEPT ![u] = TRUE]
  /\ UNCHANGED <<stored, database, env, leadership, hook, made, budgets>>

\* A hook of the deposed leader may still be running.
Elect(u) ==
  /\ elections < MaxElections /\ ~Leads(u)
  /\ leader' = u /\ elections' = elections + 1
  /\ deposed' = (deposed \/ ~At(leader, "idle"))
  /\ UNCHANGED <<stored, database, process, hook, made, faults, swaps>>

Swap == swaps < MaxSwaps /\ swaps' = swaps + 1 /\ UNCHANGED <<faults, elections>>

\* Kubernetes restarts the workload container: Pebble has no layer.
ContainerRestarts(u) ==
  /\ Swap
  /\ env' = [env EXCEPT ![u] = NoKey] /\ up' = [up EXCEPT ![u] = FALSE]
  /\ UNCHANGED <<stored, database, leadership, hook, made>>

\* The database relation is replaced by one to another database:
\* _on_database_relation_broken() has stopped every process.
NewDatabase(k) ==
  /\ Swap
  /\ token' = k /\ password' = k
  /\ env' = [u \in Units |-> NoKey] /\ up' = [u \in Units |-> FALSE]
  /\ UNCHANGED <<stored, leadership, hook, made>>

------------------------------------------------------------------------------

Init ==
  /\ secret = NoKey /\ shared = NoKey
  /\ token \in DbStates /\ password = token
  /\ env = [u \in Units |-> NoKey] /\ up = [u \in Units |-> FALSE]
  /\ leader \in Units /\ deposed = FALSE
  /\ hook = [u \in Units |-> NoHook]
  /\ made = OldKey
  /\ faults = 0 /\ elections = 0 /\ swaps = 0

Next ==
  \/ \E u \in Units : \/ StartHook(u) \/ HookStep(u) \/ HookFails(u)
                      \/ Bootstrap(u) \/ Ready(u) \/ Elect(u) \/ ContainerRestarts(u)
  \/ NewDatabase(NoKey)

Spec == Init /\ [][Next]_vars

\* Every unit gets update-status for ever and its hooks go on; processes start.
FairSpec ==
  /\ Spec
  /\ \A u \in Units : /\ WF_vars(StartHook(u)) /\ WF_vars(HookStep(u))
                      /\ WF_vars(Bootstrap(u)) /\ WF_vars(Ready(u))

------------------------------------------------------------------------------
(* Properties.                                                               *)

\* Every variable has a value the code can give it.
TypeOK ==
  /\ secret \in Keys \cup {NoKey} /\ shared \in Keys \cup {NoKey}
  /\ token \in Keys \cup {NoKey} /\ password \in Keys \cup {NoKey}
  /\ env \in [Units -> Keys \cup {NoKey}] /\ up \in [Units -> BOOLEAN]
  /\ leader \in Units /\ deposed \in BOOLEAN
  /\ hook \in [Units -> Hooks]
  /\ made \in Keys
  /\ faults \in Nat /\ elections \in Nat /\ swaps \in Nat
  /\ \A u \in Units : hook[u].pc \in {"token", "reset", "info", "plan"} => hook[u].key # NoKey

\* "so consumers are only triggered ... once Authentik can actually serve
\* requests" (_ensure_server_info_relation): the token the consumers have been
\* given is the one the database accepts, if it has been bootstrapped, unless a
\* leader has been replaced during its hook.
PublishedTokenAccepted ==
  ~deposed /\ shared # NoKey /\ token # NoKey => token = shared

\* The credentials meet in the end: one key, stored, running in every unit,
\* accepted by the database and handed to the consumers ("so such a deployment
\* converges", _ensure_api_token), also on the database of an earlier deployment.
Agreed ==
  /\ secret # NoKey /\ token = secret /\ shared = secret
  /\ \A u \in Units : env[u] = secret /\ up[u]

Converges == <>[]Agreed

\* get-bootstrap-admin-credentials "SHALL return the correct username, password,
\* token" (src/openspec/specs/admin-management/spec.md): the password in the
\* secret is the admin user's, on a database of this deployment.
PasswordKnown ==
  secret # NoKey /\ password \notin {NoKey, OldKey} => password = secret
================================================================================
