------------------------ MODULE AuthentikRequestProofs ------------------------
(***************************************************************************)
(* For any number of clients, providers, payloads, outstanding requests and *)
(* attempts: the API client keeps the promise of RequestPromise, and a      *)
(* create that is not crossed makes neither a duplicate nor a provider      *)
(* other than the one asked for.                                            *)
(*                                                                         *)
(* The first needs only that a create is sent once, which the counter of    *)
(* attempts says.  The second needs that a caller which has found no        *)
(* provider is the only one to have looked, so that none exists until its   *)
(* own POST is carried out.                                                 *)
(***************************************************************************)
EXTENDS AuthentikRequest, TLAPS

Counted ==
  \A c \in Clients :
    /\ phase[c] = "idle" <=> call[c] = NoCall
    /\ phase[c] # "idle" => tries[c] >= 1
    /\ absent[c] => call[c] = NoCall
    /\ phase[c] # "idle" => ~result[c].ok

\* A create that has not been carried out: nobody else's has either.
Pending(c) == absent[c] \/ (call[c].kind = "create" /\ phase[c] = "request")

Alone ==
  /\ \A s \in Slots : late[s].kind # "create"
  /\ \A c, d \in Clients : Engaged(c) /\ Engaged(d) => c = d
  /\ \A c \in Clients : Pending(c) => \A p \in Pks : ~Exists(p)
  /\ \A c \in Clients : call[c].kind = "create"
       => \A p \in Pks : Exists(p) => provider[p] = call[c].conf

Inv ==
  /\ TypeOK /\ Counted
  /\ NoDuplicates
  /\ ~crossed => Alone

------------------------------------------------------------------------------

USE ObjectsAssumption, AttemptsAssumption

LEMMA CallFacts ==
  /\ NoCall.kind = "none" /\ NoCall.pk = NoPk /\ NoCall \notin Calls
  /\ \A op \in Calls : op.pk \in Keys
  /\ \A op \in Calls : op.kind \in {"create", "update"} => op.conf \in Confs
  /\ \A op \in Calls : op.kind \in {"update", "delete", "attach", "patch"} => op.pk \in Pks
  /\ \A op \in Calls : op.kind \in {"create", "detach"} => op.pk = NoPk
  /\ \A op \in Calls : op.kind \in {"create", "update", "delete", "attach", "patch", "detach"}
  /\ ~Creates(NoCall)
  /\ \A p \in Keys : Done(p) \in Results
  /\ Failed \in Results /\ ~Failed.ok
  /\ \A p \in Keys : Done(p).pk = p
<1>1. NoCall.kind = "none" /\ NoCall.pk = NoPk BY DEF NoCall, OnPk
<1>2. ASSUME NEW op \in Calls
      PROVE  /\ op.pk \in Keys
             /\ op.kind \in {"create", "update"} => op.conf \in Confs
             /\ op.kind \in {"update", "delete", "attach", "patch"} => op.pk \in Pks
             /\ op.kind \in {"create", "detach"} => op.pk = NoPk
             /\ op.kind \in {"create", "update", "delete", "attach", "patch", "detach"}
  <2>1. CASE \E conf \in Confs : op = Create(conf) BY <2>1 DEF Create, Keys
  <2>2. CASE \E p \in Pks, conf \in Confs : op = Update(p, conf) BY <2>2 DEF Update, Keys
  <2>3. CASE \E kind \in {"delete", "attach", "patch"}, p \in Pks : op = OnPk(kind, p)
    BY <2>3 DEF OnPk, Keys
  <2>4. CASE op = OnPk("detach", NoPk) BY <2>4 DEF OnPk, Keys
  <2> QED BY <2>1, <2>2, <2>3, <2>4 DEF Calls
<1>3. NoCall \notin Calls BY <1>1, <1>2
<1>4. ~Creates(NoCall) BY <1>1 DEF Creates
<1>5. \A p \in Keys : Done(p) \in Results BY DEF Done, Results
<1>6. Failed \in Results /\ ~Failed.ok BY DEF Failed, Results, Keys
<1>7. \A p \in Keys : Done(p).pk = p BY DEF Done
<1> QED BY <1>1, <1>2, <1>3, <1>4, <1>5, <1>6, <1>7

LEMMA Initial == Init => Inv
<1> SUFFICES ASSUME Init PROVE Inv
  OBVIOUS
<1>1. TypeOK
  <2>1. 0 \in 0 .. MaxAttempts OBVIOUS
  <2> QED BY <2>1, CallFacts DEF Init, TypeOK, Phases
<1> QED BY <1>1, CallFacts DEF Init, Inv, Counted, NoDuplicates, Alone, Pending, Engaged, Exists

------------------------------------------------------------------------------
(* What a request does, whoever sends it.                                    *)

\* Authentik's objects keep their types.
LEMMA AppliedTypes ==
  ASSUME provider \in [Pks -> Confs \cup {NoConf}], app \in Keys \cup {NoApp},
         NEW op \in Calls, NEW p \in Keys, Applied(op, p)
  PROVE  provider' \in [Pks -> Confs \cup {NoConf}] /\ app' \in Keys \cup {NoApp}
BY CallFacts DEF Applied, Exists, Keys

\* Only the creation of a provider brings one about, and only an update changes one.
LEMMA AppliedProviders ==
  ASSUME provider \in [Pks -> Confs \cup {NoConf}],
         NEW op \in Calls, NEW p \in Keys, Applied(op, p)
  PROVE  \A q \in Pks : Exists(q)' =>
           \/ Exists(q) /\ (op.kind # "update" => provider'[q] = provider[q])
           \/ op.kind = "create" /\ q = p /\ provider'[q] = op.conf
BY CallFacts DEF Applied, Exists

\* What is carried out is what was asked for.
LEMMA AppliedReaches ==
  ASSUME provider \in [Pks -> Confs \cup {NoConf}],
         NEW op \in Calls, NEW p \in Keys, Applied(op, p)
  PROVE  Reached(op, p)'
BY CallFacts DEF Applied, Exists, Reached, Keys

------------------------------------------------------------------------------
(* What a step makes of its client.                                          *)

Typed ==
  /\ call \in [Clients -> Calls \cup {NoCall}]
  /\ result \in [Clients -> Results]
  /\ phase \in [Clients -> Phases]
  /\ tries \in [Clients -> 0 .. MaxAttempts]
  /\ absent \in [Clients -> BOOLEAN]
  /\ \A c \in Clients : phase[c] = "recover" => Creates(call[c])

\* c, in the middle of a call, goes on or ends it, and waits for no create of its own.
Moved(c) ==
  /\ Typed' /\ Counted'
  /\ \A d \in Clients : call'[d] = call[d] \/ call'[d] = NoCall
  /\ \A d \in Clients : Engaged(d)' => Engaged(d)
  /\ \A d \in Clients : Pending(d)' => Pending(d) /\ d # c

LEMMA ReturnMoves ==
  ASSUME TypeOK, Counted, NEW c \in Clients, phase[c] # "idle",
         NEW r \in Results, Return(c, r)
  PROVE  Moved(c)
<1>1. /\ call' = [call EXCEPT ![c] = NoCall] /\ phase' = [phase EXCEPT ![c] = "idle"]
      /\ tries' = [tries EXCEPT ![c] = 0] /\ result' = [result EXCEPT ![c] = r]
      /\ absent' = absent
  BY DEF Return
<1>2. 0 \in 0 .. MaxAttempts OBVIOUS
<1>3. Typed' BY <1>1, <1>2 DEF TypeOK, Typed, Phases
<1>4. ~absent[c] BY DEF Counted
<1>5. Counted' BY <1>1, <1>4 DEF TypeOK, Counted
<1>6. \A d \in Clients : call'[d] = call[d] \/ call'[d] = NoCall BY <1>1 DEF TypeOK
<1>7. \A d \in Clients : Engaged(d)' => Engaged(d)
  BY <1>1, CallFacts DEF TypeOK, Engaged
<1>8. \A d \in Clients : Pending(d)' => Pending(d) /\ d # c
  BY <1>1, <1>4, CallFacts DEF TypeOK, Pending
<1> QED BY <1>3, <1>5, <1>6, <1>7, <1>8 DEF Moved

LEMMA RecoverMoves ==
  ASSUME TypeOK, Counted, NEW c \in Clients, phase[c] = "request", Creates(call[c]), Recover(c)
  PROVE  Moved(c)
<1>1. /\ phase' = [phase EXCEPT ![c] = "recover"] /\ tries' = [tries EXCEPT ![c] = 1]
      /\ call' = call /\ result' = result /\ absent' = absent
  BY DEF Recover
<1>2. 1 \in 0 .. MaxAttempts OBVIOUS
<1>3. Typed' BY <1>1, <1>2 DEF TypeOK, Typed, Phases
<1>4. ~absent[c] /\ call[c] # NoCall BY DEF Counted
<1>5. Counted' BY <1>1, <1>4 DEF TypeOK, Counted
<1>6. \A d \in Clients : Engaged(d)' => Engaged(d) BY <1>1 DEF Engaged
<1>7. \A d \in Clients : Pending(d)' => Pending(d) /\ d # c
  BY <1>1, <1>4 DEF TypeOK, Pending
<1> QED BY <1>1, <1>3, <1>5, <1>6, <1>7 DEF Moved

\* A create is not sent again.
LEMMA AgainMoves ==
  ASSUME TypeOK, Counted, NEW c \in Clients, phase[c] # "idle", Again(c)
  PROVE  Moved(c) /\ (phase[c] = "request" => ~Creates(call[c]))
<1>1. /\ tries[c] < Attempts(c) /\ tries' = [tries EXCEPT ![c] = @ + 1]
      /\ call' = call /\ result' = result /\ phase' = phase /\ absent' = absent
  BY DEF Again
<1>2. tries[c] \in 0 .. MaxAttempts /\ tries[c] >= 1 BY DEF TypeOK, Counted
<1>3. Attempts(c) <= MaxAttempts BY DEF Attempts
<1>4. tries[c] + 1 \in 0 .. MaxAttempts
  <2>1. Attempts(c) \in Nat BY DEF Attempts
  <2> QED BY <1>1, <1>2, <1>3, <2>1
<1>5. Typed' BY <1>1, <1>4 DEF TypeOK, Typed
<1>6. ~absent[c] BY DEF Counted
<1>7. Counted' BY <1>1, <1>2, <1>4 DEF TypeOK, Counted
<1>8. phase[c] = "request" => ~Creates(call[c])
  BY <1>1, <1>2 DEF Attempts
<1>9. \A d \in Clients : Engaged(d)' => Engaged(d) BY <1>1 DEF Engaged
<1>10. \A d \in Clients : Pending(d)' => Pending(d) /\ d # c
  BY <1>1, <1>6, <1>8 DEF Pending, Creates
<1> QED BY <1>1, <1>5, <1>7, <1>8, <1>9, <1>10 DEF Moved

LEMMA TransientMoves ==
  ASSUME TypeOK, Counted, NEW c \in Clients, phase[c] # "idle", Transient(c)
  PROVE  Moved(c)
<1>1. CASE Again(c) BY <1>1, AgainMoves
<1>2. CASE GivesUp(c)
  <2>1. CASE Creates(call[c]) /\ phase[c] = "request"
    BY <1>2, <2>1, RecoverMoves DEF GivesUp
  <2>2. CASE ~(Creates(call[c]) /\ phase[c] = "request")
    BY <1>2, <2>2, ReturnMoves, CallFacts DEF GivesUp
  <2> QED BY <2>1, <2>2
<1> QED BY <1>1, <1>2 DEF Transient

------------------------------------------------------------------------------
(* The invariant, for a step of a client.                                    *)

\* Nothing is carried out, and no create is left under way unnoticed.
LEMMA UntouchedKeeps ==
  ASSUME Inv, NEW c \in Clients, Moved(c), Untouched,
         late' \in [Slots -> Calls \cup {NoCall}], crossed' \in BOOLEAN,
         ~crossed' => ~crossed /\ \A s \in Slots : late'[s].kind # "create"
  PROVE  Inv'
<1>1. TypeOK' BY DEF Inv, TypeOK, Moved, Typed, Untouched
<1>2. provider' = provider /\ app' = app BY DEF Untouched
<1>3. NoDuplicates' BY <1>2 DEF Inv, NoDuplicates, Exists
<1>4. ASSUME ~crossed' PROVE Alone'
  <2>1. Alone BY <1>4 DEF Inv
  <2> QED BY <1>2, <1>4, <2>1, CallFacts DEF Alone, Moved, Exists
<1> QED BY <1>1, <1>3, <1>4 DEF Inv, Moved

\* A client's request is carried out.
LEMMA ExecutedKeeps ==
  ASSUME Inv, NEW c \in Clients, phase[c] = "request", Moved(c), late' = late,
         NEW p \in Keys, Executed(call[c], p), crossed' \in BOOLEAN,
         ~crossed' => ~crossed /\ (call[c].kind = "update" => ~OthersEngaged(c))
  PROVE  Inv'
<1>1. TypeOK /\ Counted BY DEF Inv
<1>2. call[c] \in Calls BY <1>1 DEF TypeOK, Counted
<1>3. Applied(call[c], p) BY DEF Executed
<1>4. TypeOK' BY <1>1, <1>2, <1>3, AppliedTypes DEF TypeOK, Moved, Typed
<1>5. \A q \in Pks : Exists(q)' =>
        \/ Exists(q) /\ (call[c].kind # "update" => provider'[q] = provider[q])
        \/ call[c].kind = "create" /\ q = p /\ provider'[q] = call[c].conf
  BY <1>1, <1>2, <1>3, AppliedProviders DEF TypeOK
<1>6. ASSUME ~crossed' PROVE Alone' /\ \A q, r \in Pks : Exists(q)' /\ Exists(r)' => q = r
  <2>1. Alone /\ \A q, r \in Pks : Exists(q) /\ Exists(r) => q = r
    BY <1>6 DEF Inv, NoDuplicates
  <2>2. \A d \in Clients : Pending(d) => Engaged(d) BY DEF Pending, Engaged
  <2>3. \A s \in Slots : late'[s].kind # "create" BY <2>1 DEF Alone
  <2>4. \A d, e \in Clients : Engaged(d)' /\ Engaged(e)' => d = e BY <2>1 DEF Alone, Moved
  <2>5. CASE call[c].kind = "create"
    <3>1. Pending(c) /\ Engaged(c) BY <2>5 DEF Pending, Engaged
    <3>2. \A q \in Pks : Exists(q)' => q = p /\ provider'[q] = call[c].conf
      BY <1>5, <2>1, <3>1 DEF Alone
    <3>3. \A d \in Clients : ~Pending(d)'
      BY <2>1, <2>2, <3>1 DEF Alone, Moved
    <3>4. \A d \in Clients : call'[d].kind = "create" => d = c /\ call'[d] = call[c]
      BY <2>1, <3>1, CallFacts DEF Alone, Moved, Engaged
    <3> QED BY <2>3, <2>4, <3>2, <3>3, <3>4 DEF Alone
  <2>6. CASE call[c].kind = "update"
    <3>1. ~Engaged(c) BY <1>1, <2>6 DEF Engaged, Counted, TypeOK
    <3>2. \A d \in Clients : ~Engaged(d) BY <1>6, <2>6, <3>1 DEF OthersEngaged
    <3>3. \A d \in Clients : ~Pending(d)' BY <2>2, <3>2 DEF Moved
    <3>4. \A d \in Clients : call'[d].kind # "create" BY <3>2, CallFacts DEF Moved, Engaged
    <3> QED BY <1>5, <2>1, <2>3, <2>4, <2>6, <3>3, <3>4 DEF Alone
  <2>7. CASE call[c].kind \notin {"create", "update"}
    <3>1. \A q \in Pks : Exists(q)' => Exists(q) /\ provider'[q] = provider[q]
      BY <1>5, <2>7
    <3> QED BY <2>1, <2>3, <2>4, <3>1, CallFacts DEF Alone, Moved
  <2> QED BY <2>5, <2>6, <2>7
<1> QED BY <1>4, <1>6 DEF Inv, Moved, NoDuplicates

\* find_oauth_provider(): what it finds holds for as long as the caller is alone.
LEMMA LookupKeeps == ASSUME Inv, NEW c \in Clients, Lookup(c) PROVE Inv'
<1> USE DEF Lookup, Untouched
<1>1. TypeOK /\ Counted BY DEF Inv
<1> DEFINE found == \A p \in Pks : ~Exists(p)
<1>2. found \in BOOLEAN OBVIOUS
<1>3. absent' = [absent EXCEPT ![c] = found] OBVIOUS
<1>4. (absent'[c] <=> found) /\ \A d \in Clients : d # c => absent'[d] = absent[d]
  BY <1>1, <1>3 DEF TypeOK
<1> HIDE DEF found
<1>5. absent' \in [Clients -> BOOLEAN] BY <1>1, <1>2, <1>3 DEF TypeOK
<1>6. crossed' \in BOOLEAN BY <1>1 DEF TypeOK
<1>7. TypeOK' BY <1>1, <1>5, <1>6 DEF TypeOK
<1>8. Counted' BY <1>1, <1>4 DEF Counted
<1>9. NoDuplicates' BY DEF Inv, NoDuplicates, Exists
<1>10. ASSUME ~crossed' PROVE Alone'
  <2>1. Alone /\ \A d \in Clients : d # c => ~Engaged(d)
    BY <1>1, <1>10 DEF Inv, OthersEngaged, TypeOK
  <2>2. call[c].kind # "create" BY CallFacts
  <2>3. \A d \in Clients : Engaged(d)' => d = c BY <2>1, <1>4 DEF Engaged
  <2>4. \A d \in Clients : Pending(d)' => d = c BY <2>3 DEF Pending, Engaged
  <2>5. Pending(c)' => found BY <1>4, <2>2 DEF Pending
  <2> QED BY <2>1, <2>3, <2>4, <2>5 DEF Alone, Exists, found
<1> QED BY <1>7, <1>8, <1>9, <1>10 DEF Inv

LEMMA BeginKeeps == ASSUME Inv, NEW c \in Clients, NEW op \in Calls, Begin(c, op) PROVE Inv'
<1> USE DEF Begin, Untouched
<1>1. TypeOK /\ Counted BY DEF Inv
<1>2. call' = [call EXCEPT ![c] = op] /\ absent' = [absent EXCEPT ![c] = FALSE] OBVIOUS
<1>3. 1 \in 0 .. MaxAttempts OBVIOUS
<1>4. phase[c] = "idle" BY <1>1 DEF Counted
<1>5. TypeOK' BY <1>1, <1>3, CallFacts DEF TypeOK, Phases
<1>6. Counted' BY <1>1, CallFacts DEF TypeOK, Counted
<1>7. NoDuplicates' BY DEF Inv, NoDuplicates, Exists
<1>8. ASSUME ~crossed' PROVE Alone'
  <2>1. Alone BY <1>8 DEF Inv
  <2>2. op.kind = "create" => Pending(c) /\ Engaged(c) BY DEF Pending, Engaged
  <2>3. \A d \in Clients : Engaged(d)' => Engaged(d) BY <1>1, <2>2 DEF TypeOK, Engaged
  <2>4. \A d \in Clients : Pending(d)' => Pending(d) BY <1>1, <2>2 DEF TypeOK, Pending
  <2>5. ASSUME NEW d \in Clients, call'[d].kind = "create", NEW p \in Pks, Exists(p)
        PROVE  provider[p] = call'[d].conf
    BY <1>1, <2>1, <2>2, <2>5 DEF TypeOK, Alone
  <2> QED BY <2>1, <2>3, <2>4, <2>5 DEF Alone, Exists
<1> QED BY <1>5, <1>6, <1>7, <1>8 DEF Inv

\* A request without a caller is no create, unless creates crossed.
LEMMA StragglesKeeps == ASSUME Inv, NEW s \in Slots, Straggles(s) PROVE Inv'
<1>1. TypeOK /\ Counted BY DEF Inv
<1>2. /\ late[s] # NoCall /\ late' = [late EXCEPT ![s] = NoCall]
      /\ crossed' = (crossed \/ (late[s].kind = "update" /\ \E c \in Clients : Engaged(c)))
      /\ call' = call /\ result' = result /\ phase' = phase /\ tries' = tries /\ absent' = absent
  BY DEF Straggles, client
<1>3. late[s] \in Calls BY <1>1, <1>2 DEF TypeOK
<1>4. provider' \in [Pks -> Confs \cup {NoConf}] /\ app' \in Keys \cup {NoApp}
  <2>1. CASE Untouched BY <1>1, <2>1 DEF Untouched, TypeOK
  <2>2. ASSUME NEW p \in Keys, Executed(late[s], p)
        PROVE  provider' \in [Pks -> Confs \cup {NoConf}] /\ app' \in Keys \cup {NoApp}
    BY <1>1, <1>3, <2>2, AppliedTypes DEF Executed, TypeOK
  <2> QED BY <2>1, <2>2 DEF Straggles
<1>5. TypeOK'
  <2>1. late' \in [Slots -> Calls \cup {NoCall}] BY <1>1, <1>2 DEF TypeOK
  <2>2. crossed' \in BOOLEAN BY <1>1, <1>2 DEF TypeOK
  <2> QED BY <1>1, <1>2, <1>4, <2>1, <2>2 DEF TypeOK
<1>6. Counted' BY <1>1, <1>2 DEF Counted
<1>7. ASSUME ~crossed' PROVE Alone' /\ NoDuplicates'
  <2>1. ~crossed /\ Alone /\ NoDuplicates BY <1>2, <1>7 DEF Inv
  <2>2. late[s].kind # "create" BY <2>1 DEF Alone
  <2>3. \A r \in Slots : late'[r].kind # "create" BY <1>1, <1>2, <2>1, CallFacts DEF Alone, TypeOK
  <2>4. \A q \in Pks : Exists(q)' =>
          Exists(q) /\ (late[s].kind # "update" => provider'[q] = provider[q])
    <3>1. CASE Untouched BY <3>1 DEF Untouched, Exists
    <3>2. ASSUME NEW p \in Keys, Executed(late[s], p)
          PROVE  \A q \in Pks : Exists(q)' =>
                   Exists(q) /\ (late[s].kind # "update" => provider'[q] = provider[q])
      BY <1>1, <1>3, <2>2, <3>2, AppliedProviders DEF Executed, TypeOK
    <3> QED BY <3>1, <3>2 DEF Straggles
  <2>5. late[s].kind = "update" => \A c \in Clients : ~Engaged(c) BY <1>2, <1>7
  <2>6. Alone' BY <1>2, <2>1, <2>3, <2>4, <2>5 DEF Alone, Pending, Engaged
  <2> QED BY <2>1, <2>4, <2>6 DEF NoDuplicates
<1> QED BY <1>5, <1>6, <1>7 DEF Inv, NoDuplicates

LEMMA AttemptKeeps == ASSUME Inv, NEW c \in Clients, Attempt(c) PROVE Inv'
<1>1. TypeOK /\ Counted BY DEF Inv
<1>2. /\ \A r \in Results : phase[c] # "idle" /\ Return(c, r) => Moved(c)
      /\ phase[c] # "idle" /\ Transient(c) => Moved(c)
  BY <1>1, ReturnMoves, TransientMoves
<1>3. /\ late \in [Slots -> Calls \cup {NoCall}] /\ crossed \in BOOLEAN
      /\ ~crossed => \A s \in Slots : late[s].kind # "create"
  BY <1>1 DEF TypeOK, Inv, Alone
<1>4. call[c].kind \in {"delete", "detach"} => call[c].pk \in Keys
  BY <1>1, CallFacts DEF TypeOK
<1>5. CASE Answered(c)
  <2>1. PICK p \in Keys : Executed(call[c], p) /\ Return(c, Done(p)) BY <1>5 DEF Answered
  <2> QED BY <1>2, <1>3, <1>5, <2>1, CallFacts, ExecutedKeeps DEF Answered, Sending, Crosses
<1>6. CASE Unusable(c)
  <2>1. PICK p \in Keys : Executed(call[c], p) BY <1>6 DEF Unusable
  <2> QED BY <1>2, <1>3, <1>6, <2>1, CallFacts, ExecutedKeeps DEF Unusable, Sending
<1>7. CASE AlreadyGone(c)
  BY <1>2, <1>3, <1>4, <1>7, CallFacts, UntouchedKeeps DEF AlreadyGone, Sending
<1>8. CASE Conflict(c)
  <2>1. phase[c] = "request" /\ Creates(call[c]) /\ Recover(c)
    BY <1>8 DEF Conflict, Sending, Taken, Creates
  <2> QED BY <1>1, <1>3, <1>8, <2>1, RecoverMoves, UntouchedKeeps DEF Conflict
<1>9. CASE Refused(c)
  BY <1>2, <1>3, <1>9, CallFacts, UntouchedKeeps DEF Refused, Sending
<1>10. CASE Unreached(c)
  BY <1>2, <1>3, <1>10, UntouchedKeeps DEF Unreached, Sending
<1>11. CASE AnswerLost(c)
  <2>1. PICK p \in Keys : Executed(call[c], p) BY <1>11 DEF AnswerLost
  <2> QED BY <1>2, <1>3, <1>11, <2>1, ExecutedKeeps DEF AnswerLost, Sending, Crosses
<1>12. CASE TimedOut(c)
  <2>1. PICK s \in Slots : late[s] = NoCall /\ late' = [late EXCEPT ![s] = call[c]]
    BY <1>12 DEF TimedOut
  <2>2. crossed' = (crossed \/ call[c].kind = "create") BY <1>12 DEF TimedOut
  <2>3. late' \in [Slots -> Calls \cup {NoCall}] BY <1>1, <2>1 DEF TypeOK
  <2>4. ~crossed' => ~crossed /\ \A r \in Slots : late'[r].kind # "create"
    BY <1>3, <2>1, <2>2
  <2>5. crossed' \in BOOLEAN BY <1>3, <2>2
  <2> QED BY <1>2, <1>12, <2>3, <2>4, <2>5, UntouchedKeeps DEF TimedOut, Sending
<1>13. CASE Found(c)
  BY <1>2, <1>3, <1>13, CallFacts, UntouchedKeeps DEF Found
<1>14. CASE NotFound(c)
  BY <1>2, <1>3, <1>14, CallFacts, UntouchedKeeps DEF NotFound
<1>15. CASE LookupFails(c)
  BY <1>2, <1>3, <1>15, CallFacts, UntouchedKeeps DEF LookupFails
<1> QED BY <1>5, <1>6, <1>7, <1>8, <1>9, <1>10, <1>11, <1>12, <1>13, <1>14, <1>15 DEF Attempt

LEMMA Step == Inv /\ [Next]_vars => Inv'
<1> SUFFICES ASSUME Inv, [Next]_vars PROVE Inv'
  OBVIOUS
<1>1. ASSUME NEW c \in Clients, Lookup(c) PROVE Inv' BY <1>1, LookupKeeps
<1>2. ASSUME NEW c \in Clients, Attempt(c) PROVE Inv' BY <1>2, AttemptKeeps
<1>3. ASSUME NEW c \in Clients, NEW op \in Calls, Begin(c, op) PROVE Inv' BY <1>3, BeginKeeps
<1>4. ASSUME NEW s \in Slots, Straggles(s) PROVE Inv' BY <1>4, StragglesKeeps
<1>5. CASE UNCHANGED vars
  BY <1>5 DEF vars, client, Inv, TypeOK, Counted, NoDuplicates, Alone, Pending, Engaged, Exists
<1> QED BY <1>1, <1>2, <1>3, <1>4, <1>5 DEF Next

\* The variables keep their types, and only a create is looked into.
THEOREM TypeCorrect == Spec => []TypeOK
<1>1. Inv => TypeOK BY DEF Inv
<1> QED BY <1>1, Initial, Step, PTL DEF Spec

\* src/openspec/specs/authentik-api-resilience/spec.md:44: a lost POST never ends in a
\* second provider of the name, unless creates crossed.
THEOREM Uniqueness == Spec => []NoDuplicates
<1>1. Inv => NoDuplicates BY DEF Inv
<1> QED BY <1>1, Initial, Step, PTL DEF Spec

------------------------------------------------------------------------------
(* A create that is not crossed gives the provider that was asked for.       *)

\* A create ends well in two ways.
LEMMA CreateSucceeds ==
  ASSUME Inv, Next, NEW c \in Clients, call[c].kind = "create", result'[c].ok
  PROVE  \/ \E p \in Keys : Executed(call[c], p) /\ result'[c] = Done(p)
         \/ \E p \in Keys : Recovered(c, p) /\ result'[c] = Done(p) /\ Untouched
<1>1. TypeOK /\ Counted BY DEF Inv
<1>2. phase[c] # "idle" /\ call[c] # NoCall /\ ~result[c].ok
  BY <1>1, CallFacts DEF Counted
<1>3. \A r \in Results : Return(c, r) => result'[c] = r BY <1>1 DEF Return, TypeOK
<1>4. ~Return(c, Failed) /\ ~Recover(c) /\ ~Again(c)
  BY <1>2, <1>3, CallFacts DEF Recover, Again
<1>5. ~Transient(c) BY <1>4 DEF Transient, GivesUp
<1>6. ASSUME NEW d \in Clients, Attempt(d) PROVE d = c
  <2>1. result' = result \/ \E r \in Results \cup {Failed} : result' = [result EXCEPT ![d] = r]
    <3>1. (\E r \in Results : Return(d, r)) => \E r \in Results : result' = [result EXCEPT ![d] = r]
      BY DEF Return
    <3>2. Recover(d) \/ Again(d) => result' = result BY DEF Recover, Again
    <3>3. Transient(d) => \/ result' = result
                          \/ \E r \in Results : result' = [result EXCEPT ![d] = r]
      BY <3>1, <3>2, CallFacts DEF Transient, GivesUp
    <3>4. AlreadyGone(d) => \E r \in Results : Return(d, r)
      BY <1>1, CallFacts DEF AlreadyGone, TypeOK
    <3>5. Answered(d) \/ Found(d) \/ Unusable(d) \/ Refused(d) \/ NotFound(d)
            => \E r \in Results : Return(d, r)
      BY CallFacts DEF Answered, Found, Unusable, Refused, NotFound
    <3> QED BY <1>6, <3>1, <3>2, <3>3, <3>4, <3>5, CallFacts
            DEF Attempt, Conflict, Unreached, AnswerLost, TimedOut, LookupFails
  <2> QED BY <1>1, <1>2, <2>1 DEF TypeOK
<1>7. \A d \in Clients, op \in Calls : Begin(d, op) => d # c /\ result'[c] = result[c]
  BY <1>1, <1>2 DEF Begin, TypeOK
<1>8. \A d \in Clients : Lookup(d) => result'[c] = result[c] BY DEF Lookup
<1>9. \A s \in Slots : Straggles(s) => result'[c] = result[c] BY DEF Straggles, client
<1>10. Attempt(c) BY <1>2, <1>6, <1>7, <1>8, <1>9 DEF Next
<1>11. Answered(c) \/ AlreadyGone(c) \/ Found(c)
  BY <1>4, <1>5, <1>10
     DEF Attempt, Unusable, Conflict, Refused, Unreached, AnswerLost, TimedOut, NotFound, LookupFails
<1>12. ~AlreadyGone(c) BY DEF AlreadyGone
<1>13. CASE Answered(c) BY <1>3, <1>13, CallFacts DEF Answered
<1>14. CASE Found(c) BY <1>3, <1>14, CallFacts DEF Found
<1> QED BY <1>11, <1>12, <1>13, <1>14

LEMMA CreatedStep ==
  ASSUME Inv, Inv', Next, NEW c \in Clients,
         call[c].kind = "create", result'[c].ok, ~crossed'
  PROVE  provider'[result'[c].pk] = call[c].conf
<1>1. TypeOK /\ Counted BY DEF Inv
<1>2. CASE \E p \in Keys : Executed(call[c], p) /\ result'[c] = Done(p)
  BY <1>1, <1>2, CallFacts DEF Executed, Applied, TypeOK
<1>3. CASE \E p \in Keys : Recovered(c, p) /\ result'[c] = Done(p) /\ Untouched
  <2>1. ~crossed
    BY DEF Next, Lookup, Begin, Attempt, Answered, Unusable, AlreadyGone, Conflict, Refused, Unreached,
           AnswerLost, TimedOut, Found, NotFound, LookupFails, Straggles, Crosses
  <2>2. Alone BY <2>1 DEF Inv
  <2>3. PICK p \in Keys : Recovered(c, p) /\ result'[c] = Done(p) /\ Untouched BY <1>3
  <2>4. p \in Pks /\ Exists(p) BY <2>3 DEF Recovered, Exists
  <2>5. provider[p] = call[c].conf BY <2>2, <2>4 DEF Alone
  <2>6. result'[c].pk = p BY <2>3, CallFacts
  <2> QED BY <2>3, <2>5, <2>6 DEF Untouched
<1> QED BY <1>2, <1>3, CreateSucceeds

\* src/src/oauth.py:311: the provider a create returns has the payload it was asked to
\* have, found again or not, unless creates crossed.
THEOREM Faithful == Spec => CreatedAsAsked
<1>1. Inv /\ Inv' /\ [Next]_vars =>
        [\A c \in Clients :
           call[c].kind = "create" /\ result'[c].ok /\ ~crossed'
             => provider'[result'[c].pk] = call[c].conf]_vars
  BY CreatedStep
<1> QED BY <1>1, Initial, Step, PTL DEF Spec, CreatedAsAsked

------------------------------------------------------------------------------
(* The client's steps are steps the promise allows.                          *)

Spent == [c \in Clients |-> phase[c] = "recover"]

LEMMA SpentFacts ==
  ASSUME TypeOK, Counted, NEW c \in Clients
  PROVE  /\ \A r \in Results : Return(c, r) => Spent' = [Spent EXCEPT ![c] = FALSE]
         /\ Recover(c) => Spent' = [Spent EXCEPT ![c] = TRUE]
         /\ phase[c] = "request" => ~Spent[c]
         /\ Spent[c] => Creates(call[c])
<1>1. ASSUME NEW d \in Clients PROVE Spent[d] = (phase[d] = "recover") BY DEF Spent
<1>2. ASSUME NEW d \in Clients PROVE Spent'[d] = (phase'[d] = "recover") BY DEF Spent
<1>3. ASSUME NEW r \in Results, Return(c, r) PROVE Spent' = [Spent EXCEPT ![c] = FALSE]
  <2>1. phase' = [phase EXCEPT ![c] = "idle"] BY <1>3 DEF Return
  <2>2. \A d \in Clients : phase'[d] = IF d = c THEN "idle" ELSE phase[d] BY <2>1 DEF TypeOK
  <2>3. \A d \in Clients : (phase'[d] = "recover") = (IF d = c THEN FALSE ELSE phase[d] = "recover")
    BY <2>2
  <2> QED BY <2>3 DEF Spent
<1>4. ASSUME Recover(c) PROVE Spent' = [Spent EXCEPT ![c] = TRUE]
  <2>1. phase' = [phase EXCEPT ![c] = "recover"] BY <1>4 DEF Recover
  <2>2. \A d \in Clients : phase'[d] = IF d = c THEN "recover" ELSE phase[d] BY <2>1 DEF TypeOK
  <2>3. \A d \in Clients : (phase'[d] = "recover") = (IF d = c THEN TRUE ELSE phase[d] = "recover")
    BY <2>2
  <2> QED BY <2>3 DEF Spent
<1>5. phase[c] = "request" => ~Spent[c] BY <1>1
<1>6. Spent[c] => Creates(call[c]) BY <1>1 DEF TypeOK
<1> QED BY <1>3, <1>4, <1>5, <1>6

\* The same formulas, in the names of the promise.
USE DEF Promise!Untouched, Promise!Keys, Promise!NoPk, Promise!NoCall, Promise!OnPk,
        Promise!Exists, Promise!Creates, Promise!Done, Promise!Failed

LEMMA SameObjects ==
  /\ Promise!Calls = Calls /\ Promise!NoCall = NoCall /\ Promise!Failed = Failed
  /\ Promise!Keys = Keys
  /\ \A p \in Keys : Promise!Done(p) = Done(p)
  /\ \A op : Promise!Creates(op) <=> Creates(op)
  /\ \A op : \A p : Promise!Applied(op, p) <=> Applied(op, p)
  /\ \A op : \A p : Promise!Reached(op, p)' <=> Reached(op, p)'
  /\ Promise!Untouched <=> Untouched
BY DEF Promise!Calls, Promise!Create, Promise!Update, Promise!Applied, Promise!Reached,
       Calls, Create, Update, OnPk, NoCall, Failed, Keys, Done, Creates, Applied, Reached, Exists,
       Untouched, NoPk

LEMMA PromiseInitial == Init => Promise!PromiseInit
<1> SUFFICES ASSUME Init PROVE Promise!PromiseInit
  OBVIOUS
<1>1. provider \in [Pks -> Confs \cup {NoConf}] BY DEF Init
<1>2. Spent = [c \in Clients |-> FALSE]
  <2>1. \A c \in Clients : (phase[c] = "recover") = FALSE BY DEF Init
  <2> QED BY <2>1 DEF Spent
<1> QED BY <1>1, <1>2, SameObjects DEF Init, Promise!PromiseInit, Spent

\* A call that ends, and what has become of its request.
LEMMA EndsPromised ==
  ASSUME TypeOK, Counted, NEW c \in Clients, phase[c] # "idle", NEW r \in Results, Return(c, r)
  PROVE  Promise!Ends(c, r)
<1>1. call[c] # NoCall BY DEF Counted
<1>2. Spent' = [Spent EXCEPT ![c] = FALSE] BY SpentFacts
<1> QED BY <1>1, <1>2, SameObjects DEF Return, Promise!Ends, Spent

\* After an attempt of unknown outcome: the request was Carried, Left, or Nothing.
LEMMA TransientPromised ==
  ASSUME TypeOK, Counted, NEW c \in Clients, phase[c] = "request", Transient(c),
         Promise!Carried(c) \/ Promise!Left(c) \/ Promise!Nothing
  PROVE  Promise!Try(c) \/ Promise!Fail(c)
<1>1. call[c] # NoCall /\ ~Spent[c] /\ call[c] \in Calls
  BY SpentFacts, CallFacts DEF Counted, TypeOK
<1>2. CASE Again(c)
  <2>1. ~Creates(call[c]) BY <1>2, AgainMoves
  <2>2. Spent' = Spent BY <1>2 DEF Again, Spent
  <2>3. Spent = [Spent EXCEPT ![c] = Creates(call[c])]
    <3>1. Creates(call[c]) = FALSE BY <2>1 DEF Creates
    <3>2. Spent[c] = FALSE BY <1>1 DEF Spent
    <3>3. Spent = [Spent EXCEPT ![c] = Spent[c]] BY DEF Spent
    <3> QED BY <3>1, <3>2, <3>3
  <2>4. Spent' = [Spent EXCEPT ![c] = Creates(call[c])] BY <2>2, <2>3
  <2> QED BY <1>1, <1>2, <2>4, SameObjects DEF Again, Promise!Try, Spent, Creates
<1>3. CASE GivesUp(c) /\ Creates(call[c])
  <2>1. Recover(c) BY <1>3 DEF GivesUp
  <2>2. Creates(call[c]) = TRUE BY <1>3 DEF Creates
  <2>3. Spent' = [Spent EXCEPT ![c] = Creates(call[c])]
    <3>1. Spent' = [Spent EXCEPT ![c] = TRUE] BY <2>1, SpentFacts
    <3> QED BY <2>2, <3>1
  <2> QED BY <1>1, <2>1, <2>3, SameObjects DEF Recover, Promise!Try, Spent, Creates
<1>4. CASE GivesUp(c) /\ ~Creates(call[c])
  <2>1. Return(c, Failed) BY <1>4 DEF GivesUp
  <2>2. Promise!Ends(c, Failed) BY <2>1, EndsPromised, CallFacts
  <2> QED BY <2>2, SameObjects DEF Promise!Fail
<1> QED BY <1>2, <1>3, <1>4 DEF Transient

LEMMA AttemptPromised ==
  ASSUME Inv, NEW c \in Clients, Attempt(c)
  PROVE  \/ Promise!Try(c) \/ Promise!Fail(c) \/ Promise!Succeed(c)
         \/ UNCHANGED Promise!pvars
<1>1. TypeOK /\ Counted BY DEF Inv
<1>2. \A r \in Results : phase[c] # "idle" /\ Return(c, r) => Promise!Ends(c, r)
  BY <1>1, EndsPromised
<1>3. phase[c] = "request" => Promise!MayApply(c)
  BY <1>1, SpentFacts DEF Promise!MayApply, Spent
<1>4. phase[c] # "idle" => call[c] \in Calls BY <1>1 DEF TypeOK, Counted
<1>5. Untouched /\ late' = late => Promise!Nothing BY SameObjects DEF Promise!Nothing
<1>6. ASSUME phase[c] # "idle", Return(c, Failed), Untouched, late' = late PROVE Promise!Fail(c)
  BY <1>2, <1>5, <1>6, CallFacts, SameObjects DEF Promise!Fail
<1>7. ASSUME phase[c] # "idle", NEW p \in Keys, Return(c, Done(p)), Reached(call[c], p),
             Untouched, late' = late
      PROVE  Promise!Succeed(c)
  <2>1. PICK op \in Calls : op = call[c] BY <1>4, <1>7
  <2>2. Reached(op, p)' BY <1>7, <2>1 DEF Reached, Untouched, Exists
  <2>3. Promise!Ends(c, Done(p)) BY <1>2, <1>7, CallFacts
  <2> QED BY <1>7, <2>1, <2>2, <2>3, SameObjects DEF Promise!Succeed
<1>8. ASSUME phase[c] = "request", NEW p \in Keys, Executed(call[c], p), late' = late
      PROVE  Promise!Carried(c)
  BY <1>3, <1>8, SameObjects DEF Promise!Carried, Executed
<1>9. CASE Answered(c)
  <2>1. PICK p \in Keys : Executed(call[c], p) /\ Return(c, Done(p)) BY <1>9 DEF Answered
  <2>2. phase[c] = "request" /\ late' = late BY <1>9 DEF Answered, Sending
  <2>3. PICK op \in Calls : op = call[c] BY <1>4, <2>2
  <2>4. Applied(op, p) BY <2>1, <2>3 DEF Executed
  <2>5. Reached(op, p)' BY <1>1, <2>4, AppliedReaches DEF TypeOK
  <2>6. Promise!Ends(c, Done(p)) BY <1>2, <2>1, <2>2, CallFacts
  <2> QED BY <1>3, <2>2, <2>3, <2>4, <2>5, <2>6, SameObjects DEF Promise!Succeed
<1>10. CASE Unusable(c)
  <2>1. Promise!Carried(c) BY <1>8, <1>10 DEF Unusable, Sending
  <2>2. Promise!Ends(c, Failed) BY <1>2, <1>10, CallFacts DEF Unusable, Sending
  <2> QED BY <2>1, <2>2, SameObjects DEF Promise!Fail
<1>11. CASE AlreadyGone(c)
  <2>1. call[c].pk \in Keys /\ Reached(call[c], call[c].pk) /\ phase[c] # "idle"
    BY <1>1, <1>4, <1>11, CallFacts DEF AlreadyGone, Sending, Missing, Reached
  <2> QED BY <1>7, <1>11, <2>1 DEF AlreadyGone
<1>12. CASE Conflict(c)
  <2>1. phase[c] = "request" /\ Creates(call[c]) /\ Recover(c)
    BY <1>12 DEF Conflict, Sending, Taken, Creates
  <2>2. Promise!Nothing BY <1>5, <1>12 DEF Conflict
  <2>3. call[c] # NoCall BY <1>1, <2>1 DEF Counted
  <2>4. Spent' = [Spent EXCEPT ![c] = Creates(call[c])]
    <3>1. Spent' = [Spent EXCEPT ![c] = TRUE] BY <1>1, <2>1, SpentFacts
    <3>2. Creates(call[c]) = TRUE BY <2>1 DEF Creates
    <3> QED BY <3>1, <3>2
  <2> QED BY <2>1, <2>2, <2>3, <2>4, SameObjects DEF Recover, Promise!Try, Spent, Creates
<1>13. CASE Refused(c) BY <1>6, <1>13 DEF Refused, Sending
<1>14. CASE Unreached(c)
  BY <1>1, <1>5, <1>14, TransientPromised DEF Unreached, Sending
<1>15. CASE AnswerLost(c)
  <2>1. Promise!Carried(c) BY <1>8, <1>15 DEF AnswerLost, Sending
  <2> QED BY <1>1, <1>15, <2>1, TransientPromised DEF AnswerLost, Sending
<1>16. CASE TimedOut(c)
  <2>1. Promise!Left(c) BY <1>3, <1>16, SameObjects DEF TimedOut, Sending, Promise!Left
  <2> QED BY <1>1, <1>16, <2>1, TransientPromised DEF TimedOut, Sending
<1>17. CASE Found(c)
  <2>1. PICK p \in Keys : Recovered(c, p) /\ Return(c, Done(p)) BY <1>17 DEF Found
  <2>2. Reached(call[c], p) BY <2>1 DEF Recovered, Reached
  <2> QED BY <1>7, <1>17, <2>1, <2>2 DEF Found
<1>18. CASE NotFound(c) BY <1>6, <1>18 DEF NotFound
<1>19. CASE LookupFails(c)
  <2>1. CASE Return(c, Failed) BY <1>6, <1>19, <2>1 DEF LookupFails
  <2>2. CASE Again(c)
    <3>1. UNCHANGED <<provider, app, late, call, result, phase>>
      BY <1>19, <2>2 DEF LookupFails, Again, Untouched
    <3> QED BY <3>1 DEF Promise!pvars
  <2> QED BY <1>19, <2>1, <2>2 DEF LookupFails, Transient, GivesUp
<1> QED BY <1>9, <1>10, <1>11, <1>12, <1>13, <1>14, <1>15, <1>16, <1>17, <1>18, <1>19 DEF Attempt

LEMMA PromiseStep == Inv /\ [Next]_vars => [Promise!PromiseNext]_(Promise!pvars)
<1> SUFFICES ASSUME Inv, [Next]_vars
             PROVE  Promise!PromiseNext \/ UNCHANGED Promise!pvars
  OBVIOUS
<1>1. TypeOK /\ Counted BY DEF Inv
<1>2. ASSUME NEW c \in Clients, Lookup(c) PROVE UNCHANGED Promise!pvars
  BY <1>2 DEF Lookup, Untouched, Promise!pvars
<1>3. ASSUME NEW c \in Clients, NEW op \in Calls, Begin(c, op) PROVE Promise!Ask(c)
  <2>1. phase[c] = "idle" BY <1>1, <1>3 DEF Begin, Counted
  <2>2. Spent' = Spent
    <3>1. \A d \in Clients : (phase'[d] = "recover") = (phase[d] = "recover")
      BY <1>1, <1>3, <2>1 DEF Begin, TypeOK
    <3> QED BY <3>1 DEF Spent
  <2> QED BY <1>3, <2>2, SameObjects DEF Begin, Promise!Ask, Spent
<1>4. ASSUME NEW s \in Slots, Straggles(s) PROVE Promise!Straggle(s)
  <2>1. Untouched \/ \E p \in Keys : Applied(late[s], p) BY <1>4 DEF Straggles, Executed
  <2>2. UNCHANGED <<call, result, phase>> BY <1>4 DEF Straggles, client
  <2> QED BY <1>4, <2>1, <2>2, SameObjects DEF Straggles, Promise!Straggle
<1>5. CASE UNCHANGED vars BY <1>5 DEF vars, client, Promise!pvars
<1>6. ASSUME NEW c \in Clients, Attempt(c)
      PROVE  \/ Promise!Try(c) \/ Promise!Fail(c) \/ Promise!Succeed(c) \/ UNCHANGED Promise!pvars
  BY <1>6, AttemptPromised
<1> QED BY <1>2, <1>3, <1>4, <1>5, <1>6 DEF Next, Promise!PromiseNext

\* The API client implements the promise: a call that succeeds has left Authentik as
\* it was asked to, whoever did it, and creates are never carried out twice.
THEOREM Refinement == Spec => KeepsPromise
<1>1. Init => Promise!PromiseInit BY PromiseInitial
<1>2. Inv /\ [Next]_vars => [Promise!PromiseNext]_(Promise!pvars) BY PromiseStep
<1> QED BY <1>1, <1>2, Initial, Step, PTL DEF Spec, KeepsPromise, Promise!PromiseSpec
===============================================================================
