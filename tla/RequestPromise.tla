---------------------------- MODULE RequestPromise ----------------------------
(***************************************************************************)
(* What a call of the API client promises its caller, with attempts,        *)
(* answers, retries and lookups left out.  A call that succeeds leaves      *)
(* Authentik as it was asked to, at that very moment; a create is carried   *)
(* out at most once; and a request that was given up may still be carried   *)
(* out, once, at any later time.                                            *)
(***************************************************************************)
EXTENDS AuthentikObjects

VARIABLES
  call,    \* client -> the call it is making
  spent,   \* client -> its call has used up its only create
  late,    \* slot -> a request under way without a caller
  result   \* client -> what its last call returned

pvars == <<provider, app, call, spent, late, result>>

PromiseInit ==
  /\ provider \in [Pks -> Confs \cup {NoConf}]
  /\ app = NoApp
  /\ call = [c \in Clients |-> NoCall]
  /\ spent = [c \in Clients |-> FALSE]
  /\ late = [s \in Slots |-> NoCall]
  /\ result = [c \in Clients |-> Failed]

Ask(c) ==
  /\ call[c] = NoCall
  /\ \E op \in Calls : call' = [call EXCEPT ![c] = op]
  /\ result' = [result EXCEPT ![c] = Failed]
  /\ Untouched /\ UNCHANGED <<spent, late>>

MayApply(c) == Creates(call[c]) => ~spent[c]

\* A request is carried out without the caller learning it, is left under way, or
\* has no effect.
Carried(c) == MayApply(c) /\ (\E p \in Keys : Applied(call[c], p)) /\ late' = late
Left(c) == /\ MayApply(c) /\ Untouched
           /\ \E s \in Slots : late[s] = NoCall /\ late' = [late EXCEPT ![s] = call[c]]
Nothing == Untouched /\ late' = late

Try(c) ==
  /\ call[c] # NoCall /\ (Carried(c) \/ Left(c) \/ Nothing)
  /\ spent' = [spent EXCEPT ![c] = Creates(call[c])]
  /\ UNCHANGED <<call, result>>

Ends(c, r) ==
  /\ call[c] # NoCall /\ call' = [call EXCEPT ![c] = NoCall]
  /\ spent' = [spent EXCEPT ![c] = FALSE]
  /\ result' = [result EXCEPT ![c] = r]

Fail(c) == Ends(c, Failed) /\ (Carried(c) \/ Left(c) \/ Nothing)

Succeed(c) ==
  \E p \in Keys, op \in Calls :
    /\ op = call[c] /\ Ends(c, Done(p))
    /\ Untouched \/ (MayApply(c) /\ Applied(op, p))
    /\ Reached(op, p)'
    /\ late' = late

\* A request without a caller is carried out, or lost.
Straggle(s) ==
  /\ late[s] # NoCall /\ late' = [late EXCEPT ![s] = NoCall]
  /\ Untouched \/ \E p \in Keys : Applied(late[s], p)
  /\ UNCHANGED <<call, spent, result>>

PromiseNext ==
  \/ \E c \in Clients : Ask(c) \/ Try(c) \/ Fail(c) \/ Succeed(c)
  \/ \E s \in Slots : Straggle(s)

PromiseSpec == PromiseInit /\ [][PromiseNext]_pvars
===============================================================================
