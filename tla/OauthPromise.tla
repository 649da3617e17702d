----------------------------- MODULE OauthPromise -----------------------------
(***************************************************************************)
(* What the oauth integration promises the client of each relation, with    *)
(* REST calls, caches and hooks left out: the credentials it is given are   *)
(* accepted by Authentik for as long as the relation lasts.                 *)
(***************************************************************************)
CONSTANTS
  Clients,      \* the relations
  Credentials,  \* what a client can be given
  Nothing       \* no credentials yet

VARIABLES
  accepts,  \* the credentials Authentik accepts for each client
  given,    \* the credentials each client has been given
  member    \* the clients whose relation is established

pvars == <<accepts, given, member>>

Kept(r) == given[r] # Nothing => accepts[r] = {given[r]}

PromiseInit ==
  /\ accepts \in [Clients -> SUBSET Credentials]
  /\ given \in [Clients -> Credentials \cup {Nothing}]
  /\ member \subseteq Clients
  /\ \A r \in Clients : Kept(r)

\* Authentik is told to accept credentials: any until some were handed out,
\* only those afterwards.
Accept(r) ==
  /\ \E c \in Credentials : accepts' = [accepts EXCEPT ![r] = {c}] /\ given[r] \in {Nothing, c}
  /\ UNCHANGED <<given, member>>

\* The end of a hook hands credentials out to some clients, accepted ones.
HandOut ==
  /\ given' \in [Clients -> Credentials \cup {Nothing}]
  /\ \A r \in Clients : given'[r] # given[r] => given[r] = Nothing /\ accepts[r] = {given'[r]}
  /\ UNCHANGED accepts
  /\ member' \subseteq member

\* Authentik is told to forget a client, whose relation must have ended.
Withdraw(r) ==
  /\ r \notin member
  /\ accepts' = [accepts EXCEPT ![r] = {}]
  /\ UNCHANGED <<given, member>>

\* A new relation starts with nothing.
Join(r)  == given[r] = Nothing /\ member' = member \cup {r} /\ UNCHANGED <<accepts, given>>
Leave(r) == member' = member \ {r} /\ UNCHANGED <<accepts, given>>

PromiseNext ==
  \/ HandOut
  \/ \E r \in Clients : Accept(r) \/ Withdraw(r) \/ Join(r) \/ Leave(r)

PromiseSpec == PromiseInit /\ [][PromiseNext]_pvars

\* What a client can count on.
PromiseKept == \A r \in member : Kept(r)
===============================================================================
