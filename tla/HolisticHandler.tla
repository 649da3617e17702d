---------------------------- MODULE HolisticHandler ----------------------------
(***************************************************************************)
(* _holistic_handler() of src/src/charm.py on one unit: what has to be      *)
(* there before Authentik is started or given a new environment, what stops *)
(* it, and what the unit reports.                                           *)
(*                                                                         *)
(* A hook sees the relations, the configuration and the secret as they were *)
(* when it started; Pebble it sees as it is, and what it does there is done *)
(* even if the hook fails.  The steps between the Traefik route and the     *)
(* plan (token, server-info, TLS, oauth) are modules of their own: here     *)
(* they succeed or say no.                                                  *)
(***************************************************************************)
EXTENDS Naturals

CONSTANTS
  Confs,         \* the values of whatever else the environment is made from
  Conflicts,     \* those of them that get_config_conflicts() objects to
  Down,          \* no process, no layer, no hook
  MaxEdits,      \* bound on changes of relations and configuration
  MaxFaults,     \* bound on hooks and steps that fail
  MaxElections,  \* bound on changes of leadership
  MaxRestarts    \* bound on restarts of the workload container

\* The pg-database relation: absent, there, without endpoints, with everything.
Databases == {"none", "related", "partial", "ready"}
\* The traefik-route relation: absent, there, with an external host.
Routes    == {"none", "waiting", "insecure", "secure"}

Inputs == [db : Databases, route : Routes, cluster : BOOLEAN, secret : BOOLEAN, conf : Confs]

\* The environment of the Pebble layer, from whatever data there is.
EnvOf(in) == [db   |-> in.db = "ready",
              url  |-> IF in.route \in {"insecure", "secure"} THEN in.route ELSE "none",
              conf |-> in.conf]
Envs == [db : BOOLEAN, url : {"none", "insecure", "secure"}, conf : Confs]

\* The step a hook is at, named for what it does next.
Steps == {"gate", "stop", "rest", "layer", "restart", "report"}

ASSUME HandlerAssumption ==
  /\ Conflicts \subseteq Confs /\ Down \notin Envs \cup Inputs
  /\ {MaxEdits, MaxFaults, MaxElections, MaxRestarts} \subseteq Nat

VARIABLES
  given,    \* what Juju has for the unit
  dying,    \* the database relation is being removed
  leads,    \* the unit leads
  reach,    \* Pebble can be reached
  layer,    \* the environment of the service in Pebble's plan
  running,  \* the environment of the running process
  step,     \* the step the running hook is at
  broken,   \* it is that of the database's relation-broken
  saw,      \* what the hook has of Juju, Down between hooks
  created,  \* the hook has created the secret
  short,    \* history: the hook runs no handler, or a step has failed or found no Pebble
  planned,  \* history: what the last plan that succeeded started the process with
  missed,   \* history: the process was not stopped with its database
  status,   \* the unit's status
  edits, faults, elections, restarts   \* budgets spent

workload == <<reach, layer, running>>
world    == <<given, dying, leads>>
inHook   == <<broken, saw, created, short>>
history  == <<planned, missed>>
budgets  == <<edits, faults, elections, restarts>>
vars     == <<world, workload, step, inHook, history, status, budgets>>

Fault == faults < MaxFaults /\ faults' = faults + 1 /\ UNCHANGED <<edits, elections, restarts>>

Goes(s) == step' = s

\* A hook ends, and what it remembers with it.
Over == Goes("idle") /\ saw' = Down /\ broken' = FALSE /\ created' = FALSE /\ short' = FALSE

------------------------------------------------------------------------------
(* The hooks.                                                                *)

Starts(s) ==
  /\ step = "idle"
  /\ Goes(s) /\ broken' = (s = "stop")
  /\ saw' = given /\ created' = FALSE /\ short' = (s = "report")
  /\ UNCHANGED <<world, workload, history, status, budgets>>

StartHook   == Starts("gate")
StartBroken == dying /\ Starts("stop")

\* The events nothing but the status is done for: relation-broken of SMTP, the events
\* of the cluster's and most other relations, upgrade-charm, a failed check, actions.
StartUnhandled == Starts("report")

\* NOOP_CONDITIONS.
Operable(in) == reach /\ in.db \in {"partial", "ready"} /\ in.route # "none"

\* _ensure_secrets(), _ensure_cluster_relation() and _ensure_traefik_route():
\* the leader needs all of the database and a secure route, the others do not.
LeaderWants(in) == in.db = "ready" /\ in.route = "secure"
Admits(in) == (in.secret \/ leads) /\ in.cluster /\ (leads => LeaderWants(in))

\* The first steps read what the hook has and write what Juju stores later.
Gated(admitted) ==
  /\ step = "gate"
  /\ created' = (Operable(saw) /\ leads /\ ~saw.secret)
  /\ Goes(IF admitted THEN "rest" ELSE "report")
  /\ short' = ~reach
  /\ UNCHANGED <<world, workload, broken, saw, history, status, budgets>>

\* The existence of the relation is taken for that of the database.
MutantGateEarly == Gated(reach /\ saw.db # "none" /\ saw.route # "none" /\ Admits(saw))
Gate            == Gated(Operable(saw) /\ Admits(saw))

\* A later step of the handler, or submitting the route: it succeeds, or the
\* handler stops without a plan.
Rest ==
  /\ step = "rest"
  /\ \/ Goes("layer") /\ UNCHANGED <<short, budgets>>
     \/ Goes("report") /\ short' = TRUE /\ Fault
  /\ UNCHANGED <<world, workload, broken, saw, created, history, status>>

\* add_layer(): if Pebble cannot be reached, its error fails the hook.
LayerAdded(after) ==
  /\ step = "layer"
  /\ \/ reach /\ layer' = EnvOf(saw) /\ planned' = Down /\ Goes("restart") /\ UNCHANGED inHook
     \/ ~reach /\ UNCHANGED <<layer, planned>> /\ after
  /\ UNCHANGED <<world, reach, running, missed, status, budgets>>

\* Its error is caught with those of the restart.
MutantLayerErrorCaught == LayerAdded(Goes("restart") /\ UNCHANGED inHook)
AddLayer               == LayerAdded(Over)

\* _restart_service(): restart, start, or replan, which restarts a service whose
\* layer has changed.  An error is logged, whatever it has left behind.
Restarted(env) ==
  /\ step = "restart"
  /\ \/ reach /\ running' = env /\ planned' = env /\ UNCHANGED <<short, budgets>>
     \/ ~reach /\ short' = TRUE /\ UNCHANGED <<running, planned, budgets>>
     \/ reach /\ running' \in {running, Down} /\ short' = TRUE /\ UNCHANGED planned /\ Fault
  /\ Goes("report")
  /\ UNCHANGED <<world, reach, layer, broken, saw, created, missed, status>>

\* A service that is running is left alone.
MutantStartOnly == Restarted(IF running = Down THEN layer ELSE running)
Restart         == Restarted(layer)

\* _on_database_relation_broken(): the only attempt to stop the process.
Stopped(env) ==
  /\ step = "stop"
  /\ \/ reach /\ running' = env /\ UNCHANGED budgets
     \/ ~reach /\ UNCHANGED <<running, budgets>>
     \/ reach /\ UNCHANGED running /\ Fault
  /\ missed' = (running' # env)
  /\ Goes("report")
  /\ UNCHANGED <<world, reach, layer, inHook, planned, status>>

Stop == Stopped(Down)

\* _on_collect_status(): what has to be there for the unit to be active.  The
\* health check may say no for reasons of its own.
Presentable ==
  /\ reach /\ saw.conf \notin Conflicts
  /\ saw.db \in {"partial", "ready"} /\ ~broken /\ saw.route = "secure"
  /\ saw.secret \/ created
  /\ saw.cluster /\ running # Down

\* The hook succeeds: its status and the secret are stored, and the relation it
\* was about is gone.
Storable == created => leads /\ ~given.secret

Report ==
  /\ step = "report" /\ Storable
  /\ status' \in IF Presentable THEN {"active", "waiting"} ELSE {"waiting"}
  /\ given' = [given EXCEPT !.secret = @ \/ created, !.db = IF broken THEN "none" ELSE @]
  /\ dying' = (dying /\ ~broken)
  /\ Over
  /\ UNCHANGED <<leads, workload, history, budgets>>

\* Juju refuses the secret, or the hook fails or is killed at any step.
Ends == Over /\ UNCHANGED <<world, workload, history, status>>

ReportRefused == step = "report" /\ ~Storable /\ Ends /\ UNCHANGED budgets
HookFails     == step # "idle" /\ Ends /\ Fault

HookStep == Gate \/ Rest \/ AddLayer \/ Restart \/ Stop \/ Report \/ ReportRefused

------------------------------------------------------------------------------
(* The world around it.                                                      *)

Edit == edits < MaxEdits /\ edits' = edits + 1 /\ UNCHANGED <<faults, elections, restarts>>

\* What the database relation may become, short of being removed.
DbAfter == [none |-> {"related"}, related |-> {"partial", "ready"},
            partial |-> {"ready"}, ready |-> {"partial"}]

InputChanges ==
  /\ Edit
  /\ \/ \E d \in DbAfter[given.db] : ~dying /\ given' = [given EXCEPT !.db = d]
     \/ \E r \in Routes \ {given.route} : given' = [given EXCEPT !.route = r]
     \/ \E c \in Confs \ {given.conf} : given' = [given EXCEPT !.conf = c]
     \/ given' = [given EXCEPT !.cluster = ~@]
     \/ ~leads /\ ~given.secret /\ given' = [given EXCEPT !.secret = TRUE]
  /\ UNCHANGED <<dying, leads, workload, step, inHook, history, status>>

DatabaseRemoved ==
  /\ Edit /\ given.db # "none" /\ ~dying
  /\ dying' = TRUE
  /\ UNCHANGED <<given, leads, workload, step, inHook, history, status>>

Elect ==
  /\ elections < MaxElections /\ elections' = elections + 1
  /\ leads' = ~leads
  /\ UNCHANGED <<given, dying, workload, step, inHook, history, status, edits, faults, restarts>>

\* Pebble restarts a process that has exited.
ServiceRestarts ==
  /\ running # Down
  /\ running' \in {running, layer}
  /\ UNCHANGED <<world, reach, layer, step, inHook, history, status, budgets>>

\* Kubernetes restarts the container: Pebble forgets the layer.
ContainerRestarts ==
  /\ restarts < MaxRestarts /\ restarts' = restarts + 1
  /\ reach' = FALSE /\ layer' = Down /\ running' = Down /\ missed' = FALSE
  /\ UNCHANGED <<world, step, inHook, planned, status, edits, faults, elections>>

\* Pebble does not answer for a while, without any harm to its service.
PebbleStalls ==
  /\ reach /\ reach' = FALSE /\ Fault
  /\ UNCHANGED <<world, layer, running, step, inHook, history, status>>

PebbleReady ==
  /\ ~reach /\ reach' = TRUE
  /\ UNCHANGED <<world, layer, running, step, inHook, history, status, budgets>>

Environment ==
  \/ InputChanges \/ DatabaseRemoved \/ Elect
  \/ ServiceRestarts \/ ContainerRestarts \/ PebbleStalls \/ PebbleReady

------------------------------------------------------------------------------

\* A new unit of a deployment in any state.
Init ==
  /\ given \in Inputs
  /\ dying = FALSE /\ leads \in BOOLEAN
  /\ reach = FALSE /\ layer = Down /\ running = Down
  /\ step = "idle" /\ broken = FALSE /\ saw = Down /\ created = FALSE /\ short = FALSE
  /\ planned = Down /\ missed = FALSE /\ status = "waiting"
  /\ edits = 0 /\ faults = 0 /\ elections = 0 /\ restarts = 0

Next == StartHook \/ StartBroken \/ StartUnhandled \/ HookStep \/ HookFails \/ Environment

Spec == Init /\ [][Next]_vars

\* Juju dispatches update-status for ever, whatever hooks come in between; a hook
\* goes on, and Pebble comes back.
FairSpec == Spec /\ SF_vars(StartHook) /\ WF_vars(HookStep) /\ WF_vars(PebbleReady)

------------------------------------------------------------------------------
(* Properties.                                                               *)

\* Every variable has a value the code can give it; no step after the gate is
\* reached without a relation to each of the three applications.
TypeOK ==
  /\ given \in Inputs /\ saw \in IF step = "idle" THEN {Down} ELSE Inputs
  /\ {dying, leads, reach, broken, created, short, missed} \subseteq BOOLEAN
  /\ {layer, running, planned} \subseteq Envs \cup {Down}
  /\ step \in Steps \cup {"idle"} /\ status \in {"active", "waiting"}
  /\ {edits, faults, elections, restarts} \subseteq Nat
  /\ step \in {"rest", "layer", "restart"} =>
       saw.cluster /\ saw.route # "none" /\ saw.db \in {"partial", "ready"}
  /\ step = "restart" => layer \in {EnvOf(saw), Down}

\* _on_database_relation_broken() stops the workload and nothing may start it
\* before there is a database again: without one no process runs, unless the
\* one attempt to stop it has failed, or Pebble could not be reached.
StoppedWithoutDatabase ==
  given.db \in {"none", "related"} /\ ~missed => running = Down

\* The handler repairs what its earlier hooks have left undone: whatever fails, once
\* the inputs stay as they are the process runs with them, if they admit one
\* (_holistic_handler, PebbleService.plan).
Wanted  == Operable(given) /\ Admits(given)
Settles == <>[](Wanted => running = EnvOf(given))

\* A hook that reports active leaves a process with the environment the hook has seen,
\* if it has run the handler and none of its steps has failed or found no Pebble, or if
\* that environment is the one the last plan has started the process with
\* (_on_collect_status after _holistic_handler and PebbleService.plan).  A database
\* without endpoints is left out, as the status leaves it out.
ActiveMeansCurrent ==
  [][ Report /\ status' = "active" /\ saw.db = "ready" /\ (~short \/ planned = EnvOf(saw))
        => running = EnvOf(saw) ]_vars

\* README: "Once the charms settle into an `active` and `idle` status, the
\* Authentik Server is ready to use": the same of every hook.  The code does not keep
\* it: a hook that runs no handler reports active over an environment that is yet to be
\* planned, since _on_collect_status compares nothing with what runs.
ActiveAlwaysCurrent ==
  [][ Report /\ status' = "active" /\ saw.db = "ready" => running = EnvOf(saw) ]_vars

\* "so the charm blocks rather than starting a workload that misbehaves"
\* (get_config_conflicts, src/src/configs.py): no process runs with a
\* configuration in conflict with itself.  The code does not keep it: the conflicts
\* reach the status only.
NoConflictRuns == running # Down => running.conf \notin Conflicts
================================================================================
