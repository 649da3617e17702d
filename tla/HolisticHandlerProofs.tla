------------------------- MODULE HolisticHandlerProofs -------------------------
(***************************************************************************)
(* Without a database no process runs, unless the attempt to stop it has    *)
(* failed; and a unit that reports active runs what it has seen, if that    *)
(* has been planned.                                                        *)
(*                                                                         *)
(* The argument for the first is about the hook between its steps: a hook   *)
(* that may start the process has seen a database, and the database it has  *)
(* seen is still there, because the only hook that could have taken it away *)
(* is another one and hooks of a unit do not overlap; and the hook that     *)
(* takes it away has stopped the process and is past every step that could  *)
(* start it.                                                                *)
(***************************************************************************)
EXTENDS HolisticHandler, TLAPS

HasDatabase(in) == in.db \in {"partial", "ready"}

\* What a hook may start, it has seen a database for, and Juju has it still.
SeenStays ==
  /\ step \in {"rest", "layer", "restart"} => HasDatabase(saw)
  /\ step # "idle" /\ HasDatabase(saw) => HasDatabase(given)

\* The hook of the removal does nothing but stop the process and report.
RemovalStops ==
  /\ broken => step \in {"stop", "report"}
  /\ step = "stop" => broken
  /\ broken /\ step = "report" /\ ~missed => running = Down

Inv == TypeOK /\ SeenStays /\ RemovalStops /\ StoppedWithoutDatabase

USE DEF world, workload, inHook, history, budgets, Goes, Fault, Edit

\* The environment rendered from whatever data there is, is one the layer can have.
LEMMA EnvTyped == \A in \in Inputs : EnvOf(in) \in Envs
BY DEF Inputs, Databases, Routes, EnvOf, Envs

\* The initial states satisfy the invariant.
LEMMA Initial == Init => Inv
<1> SUFFICES ASSUME Init PROVE Inv
  OBVIOUS
<1>1. {dying, leads, reach, broken, created, short, missed} \subseteq BOOLEAN
  BY DEF Init
<1>2. {edits, faults, elections, restarts} \subseteq Nat
  BY DEF Init
<1>3. TypeOK
  BY <1>1, <1>2 DEF Init, TypeOK
<1> QED
  BY <1>3 DEF Init, Inv, SeenStays, RemovalStops, StoppedWithoutDatabase

\* A hook that ends leaves nothing to keep but the process and the database.
LEMMA OverKeeps ==
  ASSUME Inv, Over, StoppedWithoutDatabase', given' \in Inputs, dying' \in BOOLEAN,
         UNCHANGED <<leads, workload, history>>, status' \in {"active", "waiting"},
         {edits, faults, elections, restarts}' \subseteq Nat
  PROVE  Inv'
<1>1. TypeOK'
  <2>1. {dying, leads, reach, broken, created, short, missed}' \subseteq BOOLEAN
    BY DEF Inv, TypeOK, Over
  <2> QED BY <2>1 DEF Inv, TypeOK, Over, Steps
<1> QED BY <1>1 DEF Inv, Over, SeenStays, RemovalStops

\* Every step of the specification keeps the invariant.
LEMMA Preserved == Inv /\ [Next]_vars => Inv'
<1> SUFFICES ASSUME Inv, [Next]_vars PROVE Inv'
  OBVIOUS
<1> USE HandlerAssumption
<1>b. {dying, leads, reach, broken, created, short, missed} \subseteq BOOLEAN
  BY DEF Inv, TypeOK
<1>n. {edits, faults, elections, restarts} \subseteq Nat
  BY DEF Inv, TypeOK
<1>1. ASSUME NEW s \in {"gate", "stop", "report"}, Starts(s) PROVE Inv'
  <2>1. {dying, leads, reach, broken, created, short, missed}' \subseteq BOOLEAN
    BY <1>1, <1>b DEF Starts
  <2>2. TypeOK' BY <1>1, <1>n, <2>1 DEF Inv, TypeOK, Starts, Steps
  <2> QED
    BY <1>1, <2>2
       DEF Inv, Starts, SeenStays, RemovalStops, StoppedWithoutDatabase, HasDatabase
<1>2. CASE Gate
  <2>0. step = "gate" /\ step' \in {"rest", "report"} /\ ~broken
        /\ UNCHANGED <<world, workload, broken, saw, history, status, budgets>>
        /\ created' \in BOOLEAN /\ short' \in BOOLEAN
        /\ (step' = "rest" => Operable(saw) /\ Admits(saw))
    BY <1>2, <1>b DEF Gate, Gated, Inv, RemovalStops
  <2>1. {dying, leads, reach, broken, created, short, missed}' \subseteq BOOLEAN
    BY <2>0, <1>b
  <2>2. TypeOK' BY <2>0, <1>n, <2>1 DEF Inv, TypeOK, Steps, Operable, Admits
  <2> QED
    BY <2>0, <2>2
       DEF Inv, SeenStays, RemovalStops, StoppedWithoutDatabase, HasDatabase, Operable
<1>3. CASE Rest
  <2>1. {dying, leads, reach, broken, created, short, missed}' \subseteq BOOLEAN
    BY <1>3, <1>b DEF Rest
  <2>2. {edits, faults, elections, restarts}' \subseteq Nat
    BY <1>3, <1>n DEF Rest
  <2>3. TypeOK' BY <1>3, <2>1, <2>2 DEF Inv, TypeOK, Rest, Steps
  <2> QED
    BY <1>3, <2>3 DEF Inv, Rest, SeenStays, RemovalStops, StoppedWithoutDatabase, HasDatabase
<1>4. CASE AddLayer
  <2>1. CASE reach
    <3>0. /\ step = "layer" /\ step' = "restart" /\ layer' = EnvOf(saw) /\ saw \in Inputs
          /\ planned' = Down /\ UNCHANGED <<world, reach, running, inHook, missed, status, budgets>>
      BY <1>4, <2>1 DEF AddLayer, LayerAdded, Inv, TypeOK
    <3>1. {dying, leads, reach, broken, created, short, missed}' \subseteq BOOLEAN
      BY <3>0, <1>b
    <3>2. TypeOK' BY <3>0, <3>1, <1>n, EnvTyped DEF Inv, TypeOK, Steps
    <3> QED
      BY <3>0, <3>2 DEF Inv, SeenStays, RemovalStops, StoppedWithoutDatabase, HasDatabase
  <2>2. CASE ~reach
    <3>1. Over /\ UNCHANGED <<world, workload, history, status, budgets>>
      BY <1>4, <2>2 DEF AddLayer, LayerAdded
    <3> QED
      BY <3>1, <1>b, <1>n, OverKeeps DEF Inv, TypeOK, StoppedWithoutDatabase
  <2> QED BY <2>1, <2>2
<1>5. CASE Restart
  <2>0. /\ step = "restart" /\ step' = "report" /\ running' \in {layer, running, Down}
        /\ short' \in BOOLEAN /\ planned' \in {layer, planned}
        /\ UNCHANGED <<world, reach, layer, broken, saw, created, missed, status>>
    BY <1>5, <1>b DEF Restart, Restarted
  <2>1. {dying, leads, reach, broken, created, short, missed}' \subseteq BOOLEAN
    BY <2>0, <1>b
  <2>2. {edits, faults, elections, restarts}' \subseteq Nat
    BY <1>5, <1>n DEF Restart, Restarted
  <2>3. TypeOK' BY <2>0, <2>1, <2>2 DEF Inv, TypeOK, Steps
  <2>4. ~broken /\ HasDatabase(given)
    BY <2>0 DEF Inv, SeenStays, RemovalStops
  <2> QED
    BY <2>0, <2>3, <2>4
       DEF Inv, SeenStays, RemovalStops, StoppedWithoutDatabase, HasDatabase
<1>6. CASE Stop
  <2>0. /\ step = "stop" /\ step' = "report" /\ running' \in {running, Down}
        /\ missed' = (running' # Down)
        /\ UNCHANGED <<world, reach, layer, inHook, planned, status>>
    BY <1>6 DEF Stop, Stopped
  <2>1. {dying, leads, reach, broken, created, short, missed}' \subseteq BOOLEAN
    BY <2>0, <1>b
  <2>2. {edits, faults, elections, restarts}' \subseteq Nat
    BY <1>6, <1>n DEF Stop, Stopped
  <2>3. TypeOK' BY <2>0, <2>1, <2>2 DEF Inv, TypeOK, Steps
  <2> QED
    BY <2>0, <2>3 DEF Inv, SeenStays, RemovalStops, StoppedWithoutDatabase, HasDatabase
<1>7. CASE Report
  <2>1. given' \in Inputs /\ status' \in {"active", "waiting"} /\ dying' \in BOOLEAN
    BY <1>7, <1>b DEF Report, Inv, TypeOK, Inputs, Databases
  <2>2. StoppedWithoutDatabase'
    BY <1>7 DEF Report, Inv, TypeOK, Inputs, RemovalStops, StoppedWithoutDatabase
  <2> QED BY <1>7, <1>n, <2>1, <2>2, OverKeeps DEF Report
<1>8. CASE ReportRefused \/ HookFails
  <2>1. Over /\ UNCHANGED <<world, workload, history, status>>
    BY <1>8 DEF ReportRefused, HookFails, Ends
  <2>2. {edits, faults, elections, restarts}' \subseteq Nat
    BY <1>8, <1>n DEF ReportRefused, HookFails
  <2> QED BY <2>1, <2>2, <1>b, OverKeeps DEF Inv, TypeOK, StoppedWithoutDatabase
<1>9. CASE InputChanges
  <2>0. UNCHANGED <<dying, leads, workload, step, inHook, history, status>>
    BY <1>9 DEF InputChanges
  <2>1. /\ given' \in Inputs
        /\ HasDatabase(given) => HasDatabase(given')
        /\ given'.db \in {"none", "related"} => given.db \in {"none", "related"}
    <3>0. given \in Inputs
      BY DEF Inv, TypeOK
    <3>1. ASSUME NEW d \in DbAfter[given.db], given' = [given EXCEPT !.db = d]
          PROVE  <2>1!1 /\ <2>1!2 /\ <2>1!3
      BY <3>0, <3>1 DEF Inputs, Databases, DbAfter, HasDatabase
    <3>2. ASSUME NEW r \in Routes, given' = [given EXCEPT !.route = r]
          PROVE  <2>1!1 /\ <2>1!2 /\ <2>1!3
      BY <3>0, <3>2 DEF Inputs, HasDatabase
    <3>3. ASSUME NEW c \in Confs, given' = [given EXCEPT !.conf = c]
          PROVE  <2>1!1 /\ <2>1!2 /\ <2>1!3
      BY <3>0, <3>3 DEF Inputs, HasDatabase
    <3>4. ASSUME given' = [given EXCEPT !.cluster = ~@]
          PROVE  <2>1!1 /\ <2>1!2 /\ <2>1!3
      BY <3>0, <3>4 DEF Inputs, HasDatabase
    <3>5. ASSUME given' = [given EXCEPT !.secret = TRUE]
          PROVE  <2>1!1 /\ <2>1!2 /\ <2>1!3
      BY <3>0, <3>5 DEF Inputs, HasDatabase
    <3> QED
      BY <1>9, <3>1, <3>2, <3>3, <3>4, <3>5 DEF InputChanges
  <2>2. {dying, leads, reach, broken, created, short, missed}' \subseteq BOOLEAN
    BY <2>0, <1>b
  <2>3. {edits, faults, elections, restarts}' \subseteq Nat
    BY <1>9, <1>n DEF InputChanges
  <2>4. TypeOK' BY <2>0, <2>1, <2>2, <2>3 DEF Inv, TypeOK
  <2> QED
    BY <2>0, <2>1, <2>4 DEF Inv, SeenStays, RemovalStops, StoppedWithoutDatabase
<1>10. CASE DatabaseRemoved \/ Elect
  <2>0. /\ dying' \in BOOLEAN /\ leads' \in BOOLEAN
        /\ UNCHANGED <<given, workload, step, inHook, history, status>>
    BY <1>10, <1>b DEF DatabaseRemoved, Elect
  <2>1. {dying, leads, reach, broken, created, short, missed}' \subseteq BOOLEAN
    BY <2>0, <1>b
  <2>2. {edits, faults, elections, restarts}' \subseteq Nat
    BY <1>10, <1>n DEF DatabaseRemoved, Elect
  <2>3. TypeOK' BY <2>0, <2>1, <2>2 DEF Inv, TypeOK
  <2> QED BY <2>0, <2>3 DEF Inv, SeenStays, RemovalStops, StoppedWithoutDatabase
<1>11. CASE ServiceRestarts
  <2>1. TypeOK' BY <1>11, <1>b, <1>n DEF ServiceRestarts, Inv, TypeOK
  <2> QED
    BY <1>11, <2>1
       DEF ServiceRestarts, Inv, SeenStays, RemovalStops, StoppedWithoutDatabase
<1>12. CASE ContainerRestarts \/ PebbleStalls \/ PebbleReady
  <2>0. /\ UNCHANGED <<world, step, inHook, status>> /\ reach' \in BOOLEAN
        /\ \/ UNCHANGED <<layer, running, history>>
           \/ layer' = Down /\ running' = Down /\ planned' = planned /\ missed' = FALSE
    BY <1>12 DEF ContainerRestarts, PebbleStalls, PebbleReady
  <2>1. {dying, leads, reach, broken, created, short, missed}' \subseteq BOOLEAN
    BY <2>0, <1>b
  <2>2. {edits, faults, elections, restarts}' \subseteq Nat
    BY <1>12, <1>n DEF ContainerRestarts, PebbleStalls, PebbleReady
  <2>3. TypeOK' BY <2>0, <2>1, <2>2 DEF Inv, TypeOK
  <2> QED BY <2>0, <2>3 DEF Inv, SeenStays, RemovalStops, StoppedWithoutDatabase
<1>13. CASE UNCHANGED vars
  <2>1. TypeOK' BY <1>13, <1>b, <1>n DEF Inv, TypeOK, vars
  <2> QED
    BY <1>13, <2>1 DEF vars, Inv, SeenStays, RemovalStops, StoppedWithoutDatabase
<1> QED
  BY <1>1, <1>2, <1>3, <1>4, <1>5, <1>6, <1>7, <1>8, <1>9, <1>10, <1>11, <1>12, <1>13
     DEF Next, StartHook, StartBroken, StartUnhandled, HookStep, Environment

\* The invariant holds in every reachable state.
LEMMA Inductive == Spec => []Inv
BY Initial, Preserved, PTL DEF Spec

\* Every variable has a value the code can give it, and no step after the gate is
\* reached without the relations it needs, whatever the bounds and the values of
\* the configuration (NOOP_CONDITIONS and the first steps of _holistic_handler).
THEOREM TypeCorrect == Spec => []TypeOK
<1>1. Inv => TypeOK BY DEF Inv
<1> QED BY <1>1, Inductive, PTL

\* No process runs without a database, unless the attempt of
\* _on_database_relation_broken() to stop it has failed.
THEOREM NothingRunsWithoutDatabase == Spec => []StoppedWithoutDatabase
<1>1. Inv => StoppedWithoutDatabase BY DEF Inv
<1> QED BY <1>1, Inductive, PTL

------------------------------------------------------------------------------
(* What the unit reports.                                                    *)

\* The hook runs the handler, nothing has gone wrong in it, and it has all it needs
\* for the status.
Smooth ==
  /\ ~short /\ ~broken
  /\ saw.db = "ready" /\ saw.route = "secure" /\ saw.cluster /\ (saw.secret \/ created)

\* A hook that has come to report smoothly has planned what it has seen, and the
\* process, if there is still one, has it.
ReportedCurrent ==
  step = "report" /\ Smooth => {layer, running} \subseteq {EnvOf(saw), Down}

\* What the last plan has started the process with, it has still, if there is one: as
\* has the layer it is restarted from, until the next plan.
PlannedRuns == planned # Down => {layer, running} \subseteq {planned, Down}

StatusInv == Inv /\ ReportedCurrent /\ PlannedRuns

LEMMA ReportedKept == ASSUME StatusInv, [Next]_vars PROVE ReportedCurrent'
<1> USE HandlerAssumption DEF StatusInv, ReportedCurrent, Smooth
<1>1. CASE StartHook \/ StartBroken \/ StartUnhandled
  BY <1>1 DEF StartHook, StartBroken, StartUnhandled, Starts
<1>2. CASE Gate
  <2>1. CASE Operable(saw) /\ Admits(saw) BY <1>2, <2>1 DEF Gate, Gated
  <2>2. CASE ~(Operable(saw) /\ Admits(saw))
    <3>1. /\ saw' = saw /\ broken' = broken /\ short' = ~reach
          /\ created' = (Operable(saw) /\ leads /\ ~saw.secret)
      BY <1>2 DEF Gate, Gated
    <3>2. ~Smooth' BY <2>2, <3>1 DEF Operable, Admits, LeaderWants
    <3> QED BY <3>2
  <2> QED BY <2>1, <2>2
<1>3. CASE Rest BY <1>3 DEF Rest
<1>4. CASE AddLayer BY <1>4 DEF AddLayer, LayerAdded, Over
<1>5. CASE Restart
  <2>1. layer \in {EnvOf(saw), Down} BY <1>5 DEF Restart, Restarted, Inv, TypeOK
  <2> QED BY <1>5, <2>1 DEF Restart, Restarted
<1>6. CASE Stop
  <2>1. broken' = TRUE BY <1>6 DEF Stop, Stopped, Inv, RemovalStops, TypeOK
  <2> QED BY <2>1
<1>7. CASE Report \/ ReportRefused \/ HookFails
  <2>1. step' = "idle" BY <1>7 DEF Report, ReportRefused, HookFails, Ends, Over
  <2> QED BY <2>1
<1>8. CASE InputChanges \/ DatabaseRemoved \/ Elect
  BY <1>8 DEF InputChanges, DatabaseRemoved, Elect
<1>9. CASE ServiceRestarts BY <1>9 DEF ServiceRestarts
<1>10. CASE ContainerRestarts \/ PebbleStalls \/ PebbleReady
  BY <1>10 DEF ContainerRestarts, PebbleStalls, PebbleReady
<1>11. CASE UNCHANGED vars BY <1>11 DEF vars
<1> QED
  BY <1>1, <1>2, <1>3, <1>4, <1>5, <1>6, <1>7, <1>8, <1>9, <1>10, <1>11
     DEF Next, HookStep, Environment

LEMMA PlannedKept == ASSUME StatusInv, [Next]_vars PROVE PlannedRuns'
<1> USE DEF StatusInv, PlannedRuns
<1>1. CASE AddLayer BY <1>1 DEF AddLayer, LayerAdded
<1>2. CASE Restart BY <1>2 DEF Restart, Restarted
<1>3. CASE Stop BY <1>3 DEF Stop, Stopped
<1>4. CASE ServiceRestarts BY <1>4 DEF ServiceRestarts
<1>5. CASE ContainerRestarts BY <1>5 DEF ContainerRestarts
<1>6. CASE UNCHANGED <<layer, running, planned>> BY <1>6
<1> QED
  BY <1>1, <1>2, <1>3, <1>4, <1>5, <1>6
     DEF Next, StartHook, StartBroken, StartUnhandled, Starts, HookStep, Gate, Gated, Rest,
         Report, ReportRefused, HookFails, Ends, Environment, InputChanges, DatabaseRemoved,
         Elect, PebbleStalls, PebbleReady, vars

\* A hook that has run the handler and reports active leaves a process with the
\* environment the hook has seen, whatever happens to Pebble, the leadership or the
\* inputs while it runs, unless one of its steps has failed or found no Pebble; any
\* other hook that reports active does if that environment is the one of the last
\* plan: but for a database without endpoints (_on_collect_status against
\* _holistic_handler and PebbleService.plan).
THEOREM ActiveIsCurrent == Spec => ActiveMeansCurrent
<1>1. Init => StatusInv BY Initial DEF StatusInv, ReportedCurrent, PlannedRuns, Init
<1>2. StatusInv /\ [Next]_vars => StatusInv'
  BY Preserved, ReportedKept, PlannedKept DEF StatusInv
<1>3. ASSUME StatusInv, Report, status' = "active", saw.db = "ready",
             ~short \/ planned = EnvOf(saw)
      PROVE  running = EnvOf(saw)
  <2>1. Presentable /\ step = "report" BY <1>3 DEF Report
  <2>2. CASE ~short
    BY <1>3, <2>1, <2>2 DEF Presentable, StatusInv, ReportedCurrent, Smooth
  <2>3. CASE planned = EnvOf(saw)
    <3>1. saw \in Inputs BY <1>3, <2>1 DEF StatusInv, Inv, TypeOK
    <3>2. planned # Down BY <2>3, <3>1, EnvTyped, HandlerAssumption
    <3> QED BY <1>3, <2>1, <2>3, <3>2 DEF Presentable, StatusInv, PlannedRuns
  <2> QED BY <1>3, <2>2, <2>3
<1>4. StatusInv =>
        (Report /\ status' = "active" /\ saw.db = "ready" /\ (~short \/ planned = EnvOf(saw))
           => running = EnvOf(saw))
  BY <1>3
<1> QED BY <1>1, <1>2, <1>4, PTL DEF Spec, ActiveMeansCurrent

================================================================================
