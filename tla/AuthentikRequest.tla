--------------------------- MODULE AuthentikRequest ---------------------------
(***************************************************************************)
(* The API client (src/src/authentik_api.py): one call of AuthentikAPI is   *)
(* one or more HTTP requests, each of which Authentik may carry out, refuse, *)
(* not receive, carry out without its answer arriving, or carry out after    *)
(* the client has stopped waiting.  Clients are the hooks of several units.  *)
(*                                                                         *)
(* A request and its answer are one step: between them nothing the client   *)
(* does depends on what it does not know yet.  Any call may be made at any  *)
(* time, except that a provider is created only by a caller that has looked *)
(* for it and found none, as src/src/oauth.py does (lines 294-309).          *)
(***************************************************************************)
EXTENDS AuthentikObjects

CONSTANT MaxAttempts   \* REQUEST_MAX_ATTEMPTS

ASSUME AttemptsAssumption == MaxAttempts \in Nat \ {0}

VARIABLES
  call, late, result,   \* as in RequestPromise
  phase,    \* client -> it sends the call's request, or looks for what that created
  tries,    \* client -> how often it has sent the current request, counting this time
  absent,   \* client -> its caller has found that there is no provider
  crossed   \* history: a create was left under way, or a caller looked for the
            \* provider or wrote it while another was about to create it

client == <<call, result, phase, tries, absent>>
vars   == <<provider, app, late, client, crossed>>

Phases == {"idle", "request", "recover"}

Fresh(p) == /\ ~Exists(p) /\ app # p /\ \A s \in Slots : late[s].pk # p
            /\ \A c \in Clients : call[c].pk # p /\ result[c].pk # p

\* What Authentik makes of op: a new provider has a key nothing refers to.
Executed(op, p) == Applied(op, p) /\ (op.kind = "create" => Fresh(p))

------------------------------------------------------------------------------

Engaged(c) == absent[c] \/ call[c].kind = "create"
OthersEngaged(c) == \E d \in Clients \ {c} : Engaged(d)

\* find_oauth_provider() by the caller.
Lookup(c) ==
  /\ call[c] = NoCall
  /\ absent' = [absent EXCEPT ![c] = \A p \in Pks : ~Exists(p)]
  /\ crossed' = (crossed \/ OthersEngaged(c))
  /\ Untouched /\ UNCHANGED <<late, call, result, phase, tries>>

\* The provider is created without looking for it.
MutantUnlooked(c, op) ==
  /\ call[c] = NoCall
  /\ call' = [call EXCEPT ![c] = op]
  /\ phase' = [phase EXCEPT ![c] = "request"]
  /\ tries' = [tries EXCEPT ![c] = 1]
  /\ absent' = [absent EXCEPT ![c] = FALSE]
  /\ result' = [result EXCEPT ![c] = Failed]
  /\ Untouched /\ UNCHANGED <<late, crossed>>

Begin(c, op) ==
  /\ call[c] = NoCall
  /\ op.kind = "create" => absent[c]
  /\ call' = [call EXCEPT ![c] = op]
  /\ phase' = [phase EXCEPT ![c] = "request"]
  /\ tries' = [tries EXCEPT ![c] = 1]
  /\ absent' = [absent EXCEPT ![c] = FALSE]
  /\ result' = [result EXCEPT ![c] = Failed]
  /\ Untouched /\ UNCHANGED <<late, crossed>>

Return(c, r) ==
  /\ call' = [call EXCEPT ![c] = NoCall]
  /\ phase' = [phase EXCEPT ![c] = "idle"]
  /\ tries' = [tries EXCEPT ![c] = 0]
  /\ result' = [result EXCEPT ![c] = r]
  /\ UNCHANGED absent

\* A create is repeated like any other request.
MutantAlwaysRetried(c) == MaxAttempts

\* _request(): the attempts the current request is given (retry).
Attempts(c) == IF Creates(call[c]) /\ phase[c] = "request" THEN 1 ELSE MaxAttempts

\* The client looks for what its POST may have created.
Recover(c) ==
  /\ phase' = [phase EXCEPT ![c] = "recover"]
  /\ tries' = [tries EXCEPT ![c] = 1]
  /\ UNCHANGED <<call, result, absent>>

\* One attempt more.
MutantOneMore(c) ==
  /\ tries[c] <= Attempts(c)
  /\ tries' = [tries EXCEPT ![c] = @ + 1]
  /\ UNCHANGED <<call, result, phase, absent>>

\* An AuthentikTransientError: retried until the attempts are used up.
Again(c) ==
  /\ tries[c] < Attempts(c)
  /\ tries' = [tries EXCEPT ![c] = @ + 1]
  /\ UNCHANGED <<call, result, phase, absent>>

GivesUp(c) ==
  /\ tries[c] >= Attempts(c)
  /\ IF Creates(call[c]) /\ phase[c] = "request" THEN Recover(c) ELSE Return(c, Failed)

Transient(c) == Again(c) \/ GivesUp(c)

------------------------------------------------------------------------------
(* One attempt of the call's request.                                        *)

Sending(c) == phase[c] = "request"

Crosses(c) == crossed' = (crossed \/ (call[c].kind = "update" /\ OthersEngaged(c)))

\* The request is carried out and answered.
Answered(c) ==
  /\ Sending(c)
  /\ \E p \in Keys : Executed(call[c], p) /\ Return(c, Done(p))
  /\ Crosses(c) /\ UNCHANGED late

\* The answer to a POST of a provider has no primary key.
Unusable(c) ==
  /\ Sending(c) /\ call[c].kind = "create"
  /\ \E p \in Keys : Executed(call[c], p)
  /\ Return(c, Failed)
  /\ UNCHANGED <<late, crossed>>

\* HTTP 404: what was to be deleted is not there, which is what was wanted.
AlreadyGone(c) ==
  /\ Sending(c) /\ call[c].kind \in {"delete", "detach"} /\ Missing(call[c])
  /\ Return(c, Done(call[c].pk))
  /\ Untouched /\ UNCHANGED <<late, crossed>>

\* HTTP 409 on a create: whose object is it?
Conflict(c) ==
  /\ Sending(c) /\ Taken(call[c])
  /\ Recover(c)
  /\ Untouched /\ UNCHANGED <<late, crossed>>

\* Any other terminal status: HTTP 401 or 403, which need no reason here, 404 or 400.
Refused(c) ==
  /\ Sending(c)
  /\ Return(c, Failed)
  /\ Untouched /\ UNCHANGED <<late, crossed>>

\* No connection, HTTP 429 or 5xx, and the request was not carried out.
Unreached(c) ==
  /\ Sending(c) /\ Transient(c)
  /\ Untouched /\ UNCHANGED <<late, crossed>>

\* A timeout, or HTTP 5xx, and it was.
AnswerLost(c) ==
  /\ Sending(c)
  /\ \E p \in Keys : Executed(call[c], p)
  /\ Transient(c)
  /\ Crosses(c) /\ UNCHANGED late

\* A timeout, and it still may be.
TimedOut(c) ==
  /\ Sending(c) /\ Transient(c)
  /\ \E s \in Slots : late[s] = NoCall /\ late' = [late EXCEPT ![s] = call[c]]
  /\ crossed' = (crossed \/ call[c].kind = "create")
  /\ Untouched

------------------------------------------------------------------------------
(* The lookup after a create of unknown outcome.                             *)

\* An application of any provider will do.
MutantAnyProvider(c, p) ==
  \/ call[c].kind = "create" /\ Exists(p) /\ \A q \in Pks : Exists(q) => q = p
  \/ call[c].kind = "attach" /\ p = call[c].pk /\ app # NoApp

\* find_oauth_provider() has found exactly one, get_application() one that refers
\* to the provider.
Recovered(c, p) ==
  \/ call[c].kind = "create" /\ Exists(p) /\ \A q \in Pks : Exists(q) => q = p
  \/ call[c].kind = "attach" /\ p = call[c].pk /\ app = p

Found(c) ==
  /\ phase[c] = "recover"
  /\ \E p \in Keys : Recovered(c, p) /\ Return(c, Done(p))
  /\ Untouched /\ UNCHANGED <<late, crossed>>

\* None, or several: the error is raised.
NotFound(c) ==
  /\ phase[c] = "recover" /\ \A p \in Keys : ~Recovered(c, p)
  /\ Return(c, Failed)
  /\ Untouched /\ UNCHANGED <<late, crossed>>

\* The lookup fails itself: for now, or for good.
LookupFails(c) ==
  /\ phase[c] = "recover" /\ (Transient(c) \/ Return(c, Failed))
  /\ Untouched /\ UNCHANGED <<late, crossed>>

------------------------------------------------------------------------------

\* A request nobody waits for any more reaches Authentik, or is lost.
Straggles(s) ==
  /\ late[s] # NoCall /\ late' = [late EXCEPT ![s] = NoCall]
  /\ Untouched \/ \E p \in Keys : Executed(late[s], p)
  /\ crossed' = (crossed \/ (late[s].kind = "update" /\ \E c \in Clients : Engaged(c)))
  /\ UNCHANGED client

Init ==
  /\ provider = [p \in Pks |-> NoConf]
  /\ app = NoApp
  /\ call = [c \in Clients |-> NoCall]
  /\ late = [s \in Slots |-> NoCall]
  /\ result = [c \in Clients |-> Failed]
  /\ phase = [c \in Clients |-> "idle"]
  /\ tries = [c \in Clients |-> 0]
  /\ absent = [c \in Clients |-> FALSE]
  /\ crossed = FALSE

Attempt(c) == \/ Answered(c) \/ Unusable(c) \/ AlreadyGone(c) \/ Conflict(c) \/ Refused(c)
              \/ Unreached(c) \/ AnswerLost(c) \/ TimedOut(c)
              \/ Found(c) \/ NotFound(c) \/ LookupFails(c)

Next ==
  \/ \E c \in Clients : Lookup(c) \/ Attempt(c)
  \/ \E c \in Clients, op \in Calls : Begin(c, op)
  \/ \E s \in Slots : Straggles(s)

Spec == Init /\ [][Next]_vars

------------------------------------------------------------------------------

TypeOK ==
  /\ provider \in [Pks -> Confs \cup {NoConf}]
  /\ app \in Keys \cup {NoApp}
  /\ call \in [Clients -> Calls \cup {NoCall}]
  /\ late \in [Slots -> Calls \cup {NoCall}]
  /\ result \in [Clients -> Results]
  /\ phase \in [Clients -> Phases]
  /\ tries \in [Clients -> 0 .. MaxAttempts]
  /\ absent \in [Clients -> BOOLEAN]
  /\ crossed \in BOOLEAN
  /\ \A c \in Clients : phase[c] = "recover" => Creates(call[c])

Promise == INSTANCE RequestPromise WITH spent <- [c \in Clients |-> phase[c] = "recover"]

\* The calls keep the promise of RequestPromise: success means that the objects are
\* as asked for at that moment, whoever made them so, and no call creates twice.
KeepsPromise == Promise!PromiseSpec

\* src/openspec/specs/authentik-api-resilience/spec.md:44: a provider whose POST was
\* lost is found "instead of creating a duplicate".  Authentik need not keep names
\* unique for that, as long as no two hooks look for the provider at the same time
\* and no POST is carried out after its timeout.
NoDuplicates == ~crossed => \A p, q \in Pks : Exists(p) /\ Exists(q) => p = q

\* The reconciler does not write a provider it has just created: "A freshly created
\* provider already persisted every field this update would set" (src/src/oauth.py:311).
\* A provider found again after a lost answer is the one asked for too, as long as
\* no other hook and no late POST came in between.
CreatedAsAsked ==
  [][\A c \in Clients :
       call[c].kind = "create" /\ result'[c].ok /\ ~crossed'
         => provider'[result'[c].pk] = call[c].conf]_vars
===============================================================================
