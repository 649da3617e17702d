---------------------------- MODULE AuthentikStore ----------------------------
(***************************************************************************)
(* The part of Authentik's database the charm drives through the REST API:  *)
(* OAuth providers and applications.  Authentik is not in the repository;   *)
(* every operator below is what src/src/authentik_api.py and                *)
(* src/src/oauth.py rely on:                                                *)
(*   - a provider has a primary key, a unique name, a client id / secret    *)
(*     pair and the client's configuration (find_oauth_provider treats two  *)
(*     providers of one name as a conflict);                                *)
(*   - an application is found by its slug and references a provider, or    *)
(*     none once that provider is deleted.                                  *)
(*                                                                         *)
(* A provider's configuration is the pair the reconciler hashes: the        *)
(* requirer's client configuration and the two flow UUIDs.                  *)
(***************************************************************************)
EXTENDS Integers

CONSTANTS
  Relations,  \* ids of the oauth relations (positive integers, as in Juju)
  Confs,      \* the client configurations a requirer can publish
  NoConf,     \* no (valid) client configuration in the databag
  MaxPk,      \* bound on the provider primary keys alive at one time
  MaxCred,    \* bound on the credential pairs alive at one time
  MaxFlow     \* bound on how often a flow is recreated, plus one

ASSUME StoreAssumption ==
  /\ Relations \subseteq Nat \ {0}
  /\ NoConf \notin Confs
  /\ MaxPk \in Nat /\ MaxCred \in Nat /\ MaxFlow \in Nat \ {0}

Pks   == 1..MaxPk
NoPk  == 0                 \* JSON null, an absent dictionary key
Creds == 1..MaxCred        \* one element stands for a (client_id, secret) pair
NoCred == 0

FlowKeys  == {"auth", "inval"}
FlowUuids == 1..MaxFlow
NoFlow    == 0             \* the empty string

\* What config_hash is the digest of.  SHA-256 is taken to be injective.
Hashes == [conf : Confs, flow : [FlowKeys -> FlowUuids]]
NoHash == [conf |-> NoConf, flow |-> [k \in FlowKeys |-> NoFlow]]

Kinds   == {"managed", "legacy"}
Names   == (Kinds \X Relations) \cup {<<"foreign", 0>>}
NoName  == <<"none", 0>>
Foreign == <<"foreign", 0>>

Providers  == [name : Names, creds : Creds, hash : Hashes]
NoProvider == [name |-> NoName, creds |-> NoCred, hash |-> NoHash]

Slugs     == Kinds \X Relations
AppAbsent == -1
AppStates == Pks \cup {NoPk, AppAbsent}   \* NoPk: the application lost its provider

------------------------------------------------------------------------------

ProviderExists(ps, p) == p \in Pks /\ ps[p] # NoProvider

\* GET /providers/oauth2/?name=..., filtered by exact name.
PksNamed(ps, name) == {p \in Pks : ps[p].name = name}

NameFree(ps, name) == PksNamed(ps, name) = {}

\* POST and PUT of a provider: the whole record is replaced.
WithProvider(ps, p, rec) == [ps EXCEPT ![p] = rec]

\* DELETE of a provider sets the application's reference to null.
WithoutProvider(ps, p) == [ps EXCEPT ![p] = NoProvider]

Detach(as, p) == [s \in Slugs |-> IF as[s] = p THEN NoPk ELSE as[s]]

\* POST and PATCH of an application.
WithApp(as, s, p) == [as EXCEPT ![s] = p]

WithoutApp(as, s) == [as EXCEPT ![s] = AppAbsent]
===============================================================================
