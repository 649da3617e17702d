--------------------------- MODULE AuthentikObjects ---------------------------
(***************************************************************************)
(* What one relation's API calls are about: the providers of its name and   *)
(* the application of its slug, with the requests that write them.  The     *)
(* requests are the ones of src/src/authentik_api.py; what Authentik does    *)
(* with one is what that file relies on.                                    *)
(***************************************************************************)
EXTENDS Naturals

CONSTANTS
  Clients,  \* one AuthentikAPI object per running hook
  Pks,      \* primary keys of the providers
  Confs,    \* the payloads a provider is given
  NoConf,   \* of a primary key without provider
  NoApp,    \* no application has the slug
  Slots     \* the requests that may be under way without a caller

NoPk == 0   \* an application whose provider was deleted; the key of no provider

ASSUME ObjectsAssumption ==
  /\ Pks \subseteq Nat \ {NoPk}
  /\ NoConf \notin Confs
  /\ NoApp \notin Pks \cup {NoPk}

VARIABLES
  provider,   \* Pks -> its configuration
  app         \* the provider the application refers to

Keys == Pks \cup {NoPk}

\* POST, PUT and DELETE of a provider; POST, PATCH and DELETE of the application.
Create(conf)    == [kind |-> "create", pk |-> NoPk, conf |-> conf]
Update(p, conf) == [kind |-> "update", pk |-> p, conf |-> conf]
OnPk(kind, p)   == [kind |-> kind, pk |-> p, conf |-> NoConf]
Calls == {Create(conf) : conf \in Confs}
         \cup {Update(p, conf) : p \in Pks, conf \in Confs}
         \cup {OnPk(kind, p) : kind \in {"delete", "attach", "patch"}, p \in Pks}
         \cup {OnPk("detach", NoPk)}
NoCall == OnPk("none", NoPk)

\* The calls whose request is not repeated.
Creates(op) == op.kind \in {"create", "attach"}

Exists(p) == p \in Pks /\ provider[p] # NoConf
Untouched == UNCHANGED <<provider, app>>

\* Authentik carries out op; p is the provider it is about, or the one it creates.
Applied(op, p) ==
  \/ /\ op.kind = "create" /\ p \in Pks /\ ~Exists(p)
     /\ provider' = [provider EXCEPT ![p] = op.conf] /\ app' = app
  \/ /\ op.kind = "update" /\ p = op.pk /\ Exists(p)
     /\ provider' = [provider EXCEPT ![p] = op.conf] /\ app' = app
  \/ /\ op.kind = "delete" /\ p = op.pk /\ Exists(p)
     /\ provider' = [provider EXCEPT ![p] = NoConf]
     /\ app' = IF app = p THEN NoPk ELSE app
  \/ /\ op.kind = "attach" /\ p = op.pk /\ Exists(p) /\ app = NoApp
     /\ app' = p /\ provider' = provider
  \/ /\ op.kind = "patch" /\ p = op.pk /\ Exists(p) /\ app # NoApp
     /\ app' = p /\ provider' = provider
  \/ /\ op.kind = "detach" /\ p = NoPk /\ app # NoApp
     /\ app' = NoApp /\ provider' = provider

\* HTTP 404 and 409; a name need not be unique for Authentik to refuse a second one.
Missing(op) == \/ op.kind \in {"update", "delete"} /\ ~Exists(op.pk)
               \/ op.kind \in {"patch", "detach"} /\ app = NoApp
Taken(op)   == \/ op.kind = "create" /\ \E p \in Pks : Exists(p)
               \/ op.kind = "attach" /\ app # NoApp

\* What op was asked for is the case, with p for the provider.
Reached(op, p) ==
  \/ op.kind = "create" /\ Exists(p)
  \/ op.kind = "update" /\ p = op.pk /\ provider[p] = op.conf
  \/ op.kind = "delete" /\ p = op.pk /\ ~Exists(p)
  \/ op.kind \in {"attach", "patch"} /\ p = op.pk /\ app = p
  \/ op.kind = "detach" /\ p = NoPk /\ app = NoApp

\* What a call returns: it raised an error, or returned (with a provider's key).
Results == [ok : BOOLEAN, pk : Keys]
Failed  == [ok |-> FALSE, pk |-> NoPk]
Done(p) == [ok |-> TRUE, pk |-> p]
===============================================================================
