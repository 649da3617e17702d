--------------------------- MODULE CredentialsProofs ---------------------------
(***************************************************************************)
(* If no leader is replaced during its hook, the token handed out is the    *)
(* one the database accepts.                                                *)
(*                                                                         *)
(* The invariant PublishedTokenAccepted says nothing of a hook that has had *)
(* its token accepted and will publish it, nor of an empty database that    *)
(* the next process to start fills with its own key.  A key is Settled if   *)
(* neither can go wrong: the database has it, or has nothing yet and no     *)
(* process runs with another one.                                           *)
(***************************************************************************)
EXTENDS Credentials, TLAPS

\* What a hook has in hand at each step.
Shape(h) ==
  /\ h.pc \in {"idle", "secrets", "create"} =>
       h.key = NoKey /\ ~h.mine /\ h.answer = "unasked" /\ ~h.publish
  /\ h.pc \in {"token", "reset", "info"} => ~h.publish
  /\ h.pc = "token" => h.answer = "unasked"
  /\ h.pc = "reset" => h.answer = "rejected"
  /\ h.pc \in {"token", "reset", "info", "plan"} \/ h.mine \/ h.publish => h.key # NoKey

\* The hook has seen its token accepted.
Vouches(h) == h.answer = "accepted" \/ h.publish

\* Only the leader's hook creates, resets or vouches.
LeadersOnly ==
  \A u \in Units : hook[u].mine \/ Vouches(hook[u]) \/ hook[u].pc \in {"create", "reset"}
                     => Leads(u)

\* A hook's key is the stored one, unless nothing is stored and it is its own.
KeysKnown ==
  \A u \in Units : hook[u].key # NoKey =>
    secret = IF hook[u].mine THEN NoKey ELSE hook[u].key

Settled(k, t, e) == t = k \/ (t = NoKey /\ \A v \in Units : e[v] \in {NoKey, k})

VouchedSettled ==
  \A u \in Units : Vouches(hook[u]) => hook[u].key # NoKey /\ Settled(hook[u].key, token, env)

SharedSettled ==
  shared # NoKey => shared = secret /\ Settled(shared, token, env)

Inv ==
  /\ TypeOK
  /\ \A u \in Units : Shape(hook[u])
  /\ token = NoKey <=> password = NoKey
  /\ LeadersOnly /\ KeysKnown /\ VouchedSettled /\ SharedSettled

USE DEF Leads, At, Goes, GoesTo, NoFault, Fault, Swap, budgets, database, stored, process, leadership

\* The initial states satisfy the invariant.
LEMMA Initial == Init => Inv
<1> SUFFICES ASSUME Init PROVE Inv
  OBVIOUS
<1>1. deposed \in BOOLEAN BY DEF Init
<1> QED
  BY <1>1, CredentialsAssumption
     DEF Init, Inv, TypeOK, Shape, LeadersOnly, KeysKnown, VouchedSettled, SharedSettled,
         Vouches, NoHook, Hooks, Steps, Answers, Keys, NoKey, OldKey

\* The hook of one unit goes on.
LEMMA HookGoes ==
  ASSUME TypeOK, NEW u \in Units, NEW g \in Hooks, Goes(u, g)
  PROVE  /\ hook' \in [Units -> Hooks] /\ hook'[u] = g
         /\ \A v \in Units : v # u => hook'[v] = hook[v]
BY DEF TypeOK

\* What the invariant asks of a new state g of u's hook, if the rest stays.
Sound(u, g) ==
  /\ Shape(g)
  /\ g.pc \in {"token", "reset", "info", "plan"} => g.key # NoKey
  /\ g.mine \/ Vouches(g) \/ g.pc \in {"create", "reset"} => Leads(u)
  /\ g.key # NoKey => secret = IF g.mine THEN NoKey ELSE g.key
  /\ Vouches(g) => g.key # NoKey /\ Settled(g.key, token, env)

\* A step of u's hook that changes nothing else keeps the invariant.
LEMMA HookKeepsInv ==
  ASSUME Inv, NEW u \in Units, NEW g \in Hooks, Goes(u, g), Sound(u, g),
         UNCHANGED <<stored, database, process, leadership>>,
         made' \in Keys, faults' \in Nat, elections' \in Nat, swaps' \in Nat
  PROVE  Inv'
<1> USE DEF Sound
<1>1. /\ hook' \in [Units -> Hooks] /\ hook'[u] = g
      /\ \A v \in Units : v # u => hook'[v] = hook[v]
  BY HookGoes DEF Inv
<1>2. TypeOK' BY <1>1 DEF Inv, TypeOK
<1>3. \A v \in Units : Shape(hook'[v]) BY <1>1 DEF Inv
<1>4. LeadersOnly' BY <1>1 DEF Inv, LeadersOnly
<1>5. KeysKnown' BY <1>1 DEF Inv, KeysKnown
<1>6. VouchedSettled' BY <1>1 DEF Inv, VouchedSettled
<1> QED BY <1>2, <1>3, <1>4, <1>5, <1>6 DEF Inv, SharedSettled

------------------------------------------------------------------------------
(* The steps that change the hook and what Juju keeps for it.                *)

\* A hook starts with nothing in hand.
LEMMA StartHookKeeps ==
  ASSUME Inv, NEW u \in Units, StartHook(u) PROVE Inv'
<1> DEFINE g == [NoHook EXCEPT !.pc = "secrets"]
<1>0. /\ hook[u] \in Hooks /\ Shape(hook[u]) /\ made' \in Keys /\ made' # NoKey
      /\ hook[u].pc \in {"token", "reset", "info", "plan"} => hook[u].key # NoKey
      /\ hook[u].pc = "idle"
  BY CredentialsAssumption DEF StartHook, Inv, TypeOK, Keys, NoKey
<1>1. /\ g \in Hooks
      /\ g.pc = "secrets" /\ g.key = NoKey /\ ~g.mine
        /\ g.answer = "unasked" /\ ~g.publish
  BY <1>0, CredentialsAssumption
     DEF Hooks, NoHook, Steps, Answers, Shape, Inv, TypeOK, Keys, NoKey
<1>2. Goes(u, g) /\ UNCHANGED <<stored, database, process, leadership>>
  BY DEF StartHook
<1>3. made' \in Keys /\ faults' \in Nat /\ elections' \in Nat /\ swaps' \in Nat
  BY <1>0 DEF StartHook, Inv, TypeOK
<1> HIDE DEF g
<1>4. Sound(u, g)
  BY <1>0, <1>1
     DEF Sound, Shape, Vouches, Settled, Serves, Accepts,
         Inv, LeadersOnly, KeysKnown, VouchedSettled
<1> QED
  BY <1>1, <1>2, <1>3, <1>4, HookKeepsInv

\* A hook that finds the secret has its key.
LEMMA SecretFoundKeeps ==
  ASSUME Inv, NEW u \in Units, SecretFound(u) PROVE Inv'
<1> DEFINE g == [hook[u] EXCEPT !.pc = "token", !.key = secret]
<1>0. /\ hook[u] \in Hooks /\ Shape(hook[u]) /\ made' \in Keys /\ made' # NoKey
      /\ hook[u].pc \in {"token", "reset", "info", "plan"} => hook[u].key # NoKey
      /\ hook[u].pc = "secrets" /\ secret # NoKey
  BY CredentialsAssumption DEF SecretFound, Inv, TypeOK, Keys, NoKey
<1>1. /\ g \in Hooks
      /\ g.pc = "token" /\ g.key = secret /\ secret # NoKey /\ ~g.mine
        /\ g.answer = "unasked" /\ ~g.publish
  BY <1>0, CredentialsAssumption
     DEF Hooks, NoHook, Steps, Answers, Shape, Inv, TypeOK, Keys, NoKey
<1>2. Goes(u, g) /\ UNCHANGED <<stored, database, process, leadership>>
  BY DEF SecretFound
<1>3. made' \in Keys /\ faults' \in Nat /\ elections' \in Nat /\ swaps' \in Nat
  BY <1>0 DEF SecretFound, Inv, TypeOK
<1> HIDE DEF g
<1>4. Sound(u, g)
  BY <1>0, <1>1
     DEF Sound, Shape, Vouches, Settled, Serves, Accepts,
         Inv, LeadersOnly, KeysKnown, VouchedSettled
<1> QED
  BY <1>1, <1>2, <1>3, <1>4, HookKeepsInv

\* A hook without a secret goes on without a key.
LEMMA SecretMissingKeeps ==
  ASSUME Inv, NEW u \in Units, SecretMissing(u) PROVE Inv'
<1>1. CASE Leads(u)
  <2> DEFINE g == [hook[u] EXCEPT !.pc = "create"]
  <2>0. /\ hook[u] \in Hooks /\ Shape(hook[u]) /\ made' \in Keys /\ made' # NoKey
        /\ hook[u].pc \in {"token", "reset", "info", "plan"} => hook[u].key # NoKey
        /\ hook[u].pc = "secrets"
    BY <1>1, CredentialsAssumption DEF SecretMissing, Inv, TypeOK, Keys, NoKey
  <2>1. /\ g \in Hooks
        /\ g.pc = "create" /\ g.key = NoKey /\ ~g.mine
        /\ g.answer = "unasked" /\ ~g.publish
    BY <1>1, <2>0, CredentialsAssumption
       DEF Hooks, NoHook, Steps, Answers, Shape, Inv, TypeOK, Keys, NoKey
  <2>2. Goes(u, g) /\ UNCHANGED <<stored, database, process, leadership>>
    BY <1>1 DEF SecretMissing
  <2>3. made' \in Keys /\ faults' \in Nat /\ elections' \in Nat /\ swaps' \in Nat
    BY <1>1, <2>0 DEF SecretMissing, Inv, TypeOK
  <2> HIDE DEF g
  <2>4. Sound(u, g)
    BY <1>1, <2>0, <2>1
       DEF Sound, Shape, Vouches, Settled, Serves, Accepts,
           Inv, LeadersOnly, KeysKnown, VouchedSettled
  <2> QED
    BY <2>1, <2>2, <2>3, <2>4, HookKeepsInv
<1>2. CASE ~Leads(u)
  <2> DEFINE g == [hook[u] EXCEPT !.pc = "commit"]
  <2>0. /\ hook[u] \in Hooks /\ Shape(hook[u]) /\ made' \in Keys /\ made' # NoKey
        /\ hook[u].pc \in {"token", "reset", "info", "plan"} => hook[u].key # NoKey
        /\ hook[u].pc = "secrets"
    BY <1>2, CredentialsAssumption DEF SecretMissing, Inv, TypeOK, Keys, NoKey
  <2>1. /\ g \in Hooks
        /\ g.pc = "commit" /\ g.key = NoKey /\ ~g.mine
        /\ g.answer = "unasked" /\ ~g.publish
    BY <1>2, <2>0, CredentialsAssumption
       DEF Hooks, NoHook, Steps, Answers, Shape, Inv, TypeOK, Keys, NoKey
  <2>2. Goes(u, g) /\ UNCHANGED <<stored, database, process, leadership>>
    BY <1>2 DEF SecretMissing
  <2>3. made' \in Keys /\ faults' \in Nat /\ elections' \in Nat /\ swaps' \in Nat
    BY <1>2, <2>0 DEF SecretMissing, Inv, TypeOK
  <2> HIDE DEF g
  <2>4. Sound(u, g)
    BY <1>2, <2>0, <2>1
       DEF Sound, Shape, Vouches, Settled, Serves, Accepts,
           Inv, LeadersOnly, KeysKnown, VouchedSettled
  <2> QED
    BY <2>1, <2>2, <2>3, <2>4, HookKeepsInv
<1> QED BY <1>1, <1>2 DEF SecretMissing

\* A key is created only if none is stored, else the stored one adopted.
LEMMA CreateSecretKeeps ==
  ASSUME Inv, NEW u \in Units, CreateSecret(u) PROVE Inv'
<1>1. CASE secret = NoKey
  <2> DEFINE g == [hook[u] EXCEPT !.pc = "token", !.key = made', !.mine = TRUE]
  <2>0. /\ hook[u] \in Hooks /\ Shape(hook[u]) /\ made' \in Keys /\ made' # NoKey
        /\ hook[u].pc \in {"token", "reset", "info", "plan"} => hook[u].key # NoKey
        /\ hook[u].pc = "create"
    BY <1>1, CredentialsAssumption DEF CreateSecret, Inv, TypeOK, Keys, NoKey, Created
  <2>1. /\ g \in Hooks
        /\ g.pc = "token" /\ g.key # NoKey /\ g.mine
        /\ g.answer = "unasked" /\ ~g.publish
    BY <1>1, <2>0, CredentialsAssumption
       DEF Hooks, NoHook, Steps, Answers, Shape, Inv, TypeOK, Keys, NoKey
  <2>2. Goes(u, g) /\ UNCHANGED <<stored, database, process, leadership>>
    BY <1>1 DEF CreateSecret, Created
  <2>3. made' \in Keys /\ faults' \in Nat /\ elections' \in Nat /\ swaps' \in Nat
    BY <1>1, <2>0 DEF CreateSecret, Inv, TypeOK, Created
  <2> HIDE DEF g
  <2>4. Sound(u, g)
    BY <1>1, <2>0, <2>1
       DEF Sound, Shape, Vouches, Settled, Serves, Accepts,
           Inv, LeadersOnly, KeysKnown, VouchedSettled
  <2> QED
    BY <2>1, <2>2, <2>3, <2>4, HookKeepsInv
<1>2. CASE secret # NoKey
  <2> DEFINE g == [hook[u] EXCEPT !.pc = "token", !.key = secret, !.mine = FALSE]
  <2>0. /\ hook[u] \in Hooks /\ Shape(hook[u]) /\ made' \in Keys /\ made' # NoKey
        /\ hook[u].pc \in {"token", "reset", "info", "plan"} => hook[u].key # NoKey
        /\ hook[u].pc = "create"
    BY <1>2, CredentialsAssumption DEF CreateSecret, Inv, TypeOK, Keys, NoKey, Created
  <2>1. /\ g \in Hooks
        /\ g.pc = "token" /\ g.key = secret /\ g.key # NoKey /\ ~g.mine
        /\ g.answer = "unasked" /\ ~g.publish
    BY <1>2, <2>0, CredentialsAssumption
       DEF Hooks, NoHook, Steps, Answers, Shape, Inv, TypeOK, Keys, NoKey
  <2>2. Goes(u, g) /\ UNCHANGED <<stored, database, process, leadership>>
    BY <1>2 DEF CreateSecret, Created
  <2>3. made' \in Keys /\ faults' \in Nat /\ elections' \in Nat /\ swaps' \in Nat
    BY <1>2, <2>0 DEF CreateSecret, Inv, TypeOK, Created
  <2> HIDE DEF g
  <2>4. Sound(u, g)
    BY <1>2, <2>0, <2>1
       DEF Sound, Shape, Vouches, Settled, Serves, Accepts,
           Inv, LeadersOnly, KeysKnown, VouchedSettled
  <2> QED
    BY <2>1, <2>2, <2>3, <2>4, HookKeepsInv
<1> QED BY <1>1, <1>2 DEF CreateSecret

\* A refused step keeps what the hook has in hand.
LEMMA StepRefusedKeeps ==
  ASSUME Inv, NEW u \in Units, StepRefused(u) PROVE Inv'
<1> DEFINE g == [hook[u] EXCEPT !.pc = "commit"]
<1>0. /\ hook[u] \in Hooks /\ Shape(hook[u]) /\ made' \in Keys /\ made' # NoKey
      /\ hook[u].pc \in {"token", "reset", "info", "plan"} => hook[u].key # NoKey
      /\ hook[u].pc \in {"token", "plan"}
  BY CredentialsAssumption DEF StepRefused, Inv, TypeOK, Keys, NoKey
<1>1. /\ g \in Hooks
      /\ g.pc = "commit" /\ g.key = hook[u].key /\ g.mine = hook[u].mine
        /\ g.answer = hook[u].answer /\ g.publish = hook[u].publish
        /\ hook[u].key # NoKey
  BY <1>0, CredentialsAssumption
     DEF Hooks, NoHook, Steps, Answers, Shape, Inv, TypeOK, Keys, NoKey
<1>2. Goes(u, g) /\ UNCHANGED <<stored, database, process, leadership>>
  BY DEF StepRefused
<1>3. made' \in Keys /\ faults' \in Nat /\ elections' \in Nat /\ swaps' \in Nat
  BY <1>0 DEF StepRefused, Inv, TypeOK
<1> HIDE DEF g
<1>4. Sound(u, g)
  BY <1>0, <1>1
     DEF Sound, Shape, Vouches, Settled, Serves, Accepts,
         Inv, LeadersOnly, KeysKnown, VouchedSettled
<1> QED
  BY <1>1, <1>2, <1>3, <1>4, HookKeepsInv

\* An accepted token is the database's.
LEMMA EnsureApiTokenKeeps ==
  ASSUME Inv, NEW u \in Units, EnsureApiToken(u) PROVE Inv'
<1>1. CASE Goes(u, [hook[u] EXCEPT !.pc = "info"])
  <2> DEFINE g == [hook[u] EXCEPT !.pc = "info"]
  <2>0. /\ hook[u] \in Hooks /\ Shape(hook[u]) /\ made' \in Keys /\ made' # NoKey
        /\ hook[u].pc \in {"token", "reset", "info", "plan"} => hook[u].key # NoKey
        /\ hook[u].pc = "token"
    BY <1>1, CredentialsAssumption DEF EnsureApiToken, Inv, TypeOK, Keys, NoKey
  <2>1. /\ g \in Hooks
        /\ g.pc = "info" /\ g.key = hook[u].key /\ g.mine = hook[u].mine
        /\ g.answer = "unasked" /\ ~g.publish
        /\ hook[u].key # NoKey
    BY <1>1, <2>0, CredentialsAssumption
       DEF Hooks, NoHook, Steps, Answers, Shape, Inv, TypeOK, Keys, NoKey
  <2>2. Goes(u, g) /\ UNCHANGED <<stored, database, process, leadership>>
    BY <1>1 DEF EnsureApiToken
  <2>3. made' \in Keys /\ faults' \in Nat /\ elections' \in Nat /\ swaps' \in Nat
    BY <1>1, <2>0 DEF EnsureApiToken, Inv, TypeOK
  <2> HIDE DEF g
  <2>4. Sound(u, g)
    BY <1>1, <2>0, <2>1
       DEF Sound, Shape, Vouches, Settled, Serves, Accepts,
           Inv, LeadersOnly, KeysKnown, VouchedSettled
  <2> QED
    BY <2>1, <2>2, <2>3, <2>4, HookKeepsInv
<1>2. CASE Leads(u) /\ Accepts(hook[u].key) /\ Goes(u, [hook[u] EXCEPT !.pc = "info", !.answer = "accepted"])
  <2> DEFINE g == [hook[u] EXCEPT !.pc = "info", !.answer = "accepted"]
  <2>0. /\ hook[u] \in Hooks /\ Shape(hook[u]) /\ made' \in Keys /\ made' # NoKey
        /\ hook[u].pc \in {"token", "reset", "info", "plan"} => hook[u].key # NoKey
        /\ hook[u].pc = "token"
    BY <1>2, CredentialsAssumption DEF EnsureApiToken, Inv, TypeOK, Keys, NoKey
  <2>1. /\ g \in Hooks
        /\ g.pc = "info" /\ g.key = hook[u].key /\ g.mine = hook[u].mine
        /\ g.answer = "accepted" /\ ~g.publish
        /\ hook[u].key # NoKey
    BY <1>2, <2>0, CredentialsAssumption
       DEF Hooks, NoHook, Steps, Answers, Shape, Inv, TypeOK, Keys, NoKey
  <2>2. Goes(u, g) /\ UNCHANGED <<stored, database, process, leadership>>
    BY <1>2 DEF EnsureApiToken
  <2>3. made' \in Keys /\ faults' \in Nat /\ elections' \in Nat /\ swaps' \in Nat
    BY <1>2, <2>0 DEF EnsureApiToken, Inv, TypeOK
  <2> HIDE DEF g
  <2>4. Sound(u, g)
    BY <1>2, <2>0, <2>1
       DEF Sound, Shape, Vouches, Settled, Serves, Accepts,
           Inv, LeadersOnly, KeysKnown, VouchedSettled
  <2> QED
    BY <2>1, <2>2, <2>3, <2>4, HookKeepsInv
<1>3. CASE Leads(u) /\ Goes(u, [hook[u] EXCEPT !.pc = "reset", !.answer = "rejected"])
  <2> DEFINE g == [hook[u] EXCEPT !.pc = "reset", !.answer = "rejected"]
  <2>0. /\ hook[u] \in Hooks /\ Shape(hook[u]) /\ made' \in Keys /\ made' # NoKey
        /\ hook[u].pc \in {"token", "reset", "info", "plan"} => hook[u].key # NoKey
        /\ hook[u].pc = "token"
    BY <1>3, CredentialsAssumption DEF EnsureApiToken, Inv, TypeOK, Keys, NoKey
  <2>1. /\ g \in Hooks
        /\ g.pc = "reset" /\ g.key = hook[u].key /\ g.mine = hook[u].mine
        /\ g.answer = "rejected" /\ ~g.publish
        /\ hook[u].key # NoKey
    BY <1>3, <2>0, CredentialsAssumption
       DEF Hooks, NoHook, Steps, Answers, Shape, Inv, TypeOK, Keys, NoKey
  <2>2. Goes(u, g) /\ UNCHANGED <<stored, database, process, leadership>>
    BY <1>3 DEF EnsureApiToken
  <2>3. made' \in Keys /\ faults' \in Nat /\ elections' \in Nat /\ swaps' \in Nat
    BY <1>3, <2>0 DEF EnsureApiToken, Inv, TypeOK
  <2> HIDE DEF g
  <2>4. Sound(u, g)
    BY <1>3, <2>0, <2>1
       DEF Sound, Shape, Vouches, Settled, Serves, Accepts,
           Inv, LeadersOnly, KeysKnown, VouchedSettled
  <2> QED
    BY <2>1, <2>2, <2>3, <2>4, HookKeepsInv
<1>4. CASE Leads(u) /\ Goes(u, [hook[u] EXCEPT !.pc = "info", !.answer = "unavailable"])
  <2> DEFINE g == [hook[u] EXCEPT !.pc = "info", !.answer = "unavailable"]
  <2>0. /\ hook[u] \in Hooks /\ Shape(hook[u]) /\ made' \in Keys /\ made' # NoKey
        /\ hook[u].pc \in {"token", "reset", "info", "plan"} => hook[u].key # NoKey
        /\ hook[u].pc = "token"
    BY <1>4, CredentialsAssumption DEF EnsureApiToken, Inv, TypeOK, Keys, NoKey
  <2>1. /\ g \in Hooks
        /\ g.pc = "info" /\ g.key = hook[u].key /\ g.mine = hook[u].mine
        /\ g.answer = "unavailable" /\ ~g.publish
        /\ hook[u].key # NoKey
    BY <1>4, <2>0, CredentialsAssumption
       DEF Hooks, NoHook, Steps, Answers, Shape, Inv, TypeOK, Keys, NoKey
  <2>2. Goes(u, g) /\ UNCHANGED <<stored, database, process, leadership>>
    BY <1>4 DEF EnsureApiToken
  <2>3. made' \in Keys /\ faults' \in Nat /\ elections' \in Nat /\ swaps' \in Nat
    BY <1>4, <2>0 DEF EnsureApiToken, Inv, TypeOK
  <2> HIDE DEF g
  <2>4. Sound(u, g)
    BY <1>4, <2>0, <2>1
       DEF Sound, Shape, Vouches, Settled, Serves, Accepts,
           Inv, LeadersOnly, KeysKnown, VouchedSettled
  <2> QED
    BY <2>1, <2>2, <2>3, <2>4, HookKeepsInv
<1> QED BY <1>1, <1>2, <1>3, <1>4 DEF EnsureApiToken

\* A hook publishes a token it has seen accepted.
LEMMA EnsureServerInfoKeeps ==
  ASSUME Inv, NEW u \in Units, EnsureServerInfo(u) PROVE Inv'
<1>1. CASE Serves(u) /\ Goes(u, [hook[u] EXCEPT !.pc = "plan", !.publish = TRUE])
  <2> DEFINE g == [hook[u] EXCEPT !.pc = "plan", !.publish = TRUE]
  <2>0. /\ hook[u] \in Hooks /\ Shape(hook[u]) /\ made' \in Keys /\ made' # NoKey
        /\ hook[u].pc \in {"token", "reset", "info", "plan"} => hook[u].key # NoKey
        /\ hook[u].pc = "info"
    BY <1>1, CredentialsAssumption DEF EnsureServerInfo, Inv, TypeOK, Keys, NoKey
  <2>1. /\ g \in Hooks
        /\ g.pc = "plan" /\ g.key = hook[u].key /\ g.mine = hook[u].mine
        /\ g.answer = hook[u].answer /\ g.publish
        /\ hook[u].key # NoKey
    BY <1>1, <2>0, CredentialsAssumption
       DEF Hooks, NoHook, Steps, Answers, Shape, Inv, TypeOK, Keys, NoKey
  <2>2. Goes(u, g) /\ UNCHANGED <<stored, database, process, leadership>>
    BY <1>1 DEF EnsureServerInfo
  <2>3. made' \in Keys /\ faults' \in Nat /\ elections' \in Nat /\ swaps' \in Nat
    BY <1>1, <2>0 DEF EnsureServerInfo, Inv, TypeOK
  <2> HIDE DEF g
  <2>4. Sound(u, g)
    BY <1>1, <2>0, <2>1
       DEF Sound, Shape, Vouches, Settled, Serves, Accepts,
           Inv, LeadersOnly, KeysKnown, VouchedSettled
  <2> QED
    BY <2>1, <2>2, <2>3, <2>4, HookKeepsInv
<1>2. CASE GoesTo(u, "plan")
  <2> DEFINE g == [hook[u] EXCEPT !.pc = "plan"]
  <2>0. /\ hook[u] \in Hooks /\ Shape(hook[u]) /\ made' \in Keys /\ made' # NoKey
        /\ hook[u].pc \in {"token", "reset", "info", "plan"} => hook[u].key # NoKey
        /\ hook[u].pc = "info"
    BY <1>2, CredentialsAssumption DEF EnsureServerInfo, Inv, TypeOK, Keys, NoKey
  <2>1. /\ g \in Hooks
        /\ g.pc = "plan" /\ g.key = hook[u].key /\ g.mine = hook[u].mine
        /\ g.answer = hook[u].answer /\ ~g.publish /\ ~hook[u].publish
        /\ hook[u].key # NoKey
    BY <1>2, <2>0, CredentialsAssumption
       DEF Hooks, NoHook, Steps, Answers, Shape, Inv, TypeOK, Keys, NoKey
  <2>2. Goes(u, g) /\ UNCHANGED <<stored, database, process, leadership>>
    BY <1>2 DEF EnsureServerInfo
  <2>3. made' \in Keys /\ faults' \in Nat /\ elections' \in Nat /\ swaps' \in Nat
    BY <1>2, <2>0 DEF EnsureServerInfo, Inv, TypeOK
  <2> HIDE DEF g
  <2>4. Sound(u, g)
    BY <1>2, <2>0, <2>1
       DEF Sound, Shape, Vouches, Settled, Serves, Accepts,
           Inv, LeadersOnly, KeysKnown, VouchedSettled
  <2> QED
    BY <2>1, <2>2, <2>3, <2>4, HookKeepsInv
<1> QED BY <1>1, <1>2 DEF EnsureServerInfo

\* A hook whose writes are refused leaves nothing.
LEMMA CommitRefusedKeeps ==
  ASSUME Inv, NEW u \in Units, CommitRefused(u) PROVE Inv'
<1> DEFINE g == NoHook
<1>0. /\ hook[u] \in Hooks /\ Shape(hook[u]) /\ made' \in Keys /\ made' # NoKey
      /\ hook[u].pc \in {"token", "reset", "info", "plan"} => hook[u].key # NoKey
      /\ hook[u].pc = "commit"
  BY CredentialsAssumption DEF CommitRefused, Inv, TypeOK, Keys, NoKey
<1>1. /\ g \in Hooks
      /\ g.pc = "idle" /\ g.key = NoKey /\ ~g.mine
        /\ g.answer = "unasked" /\ ~g.publish
  BY <1>0, CredentialsAssumption
     DEF Hooks, NoHook, Steps, Answers, Shape, Inv, TypeOK, Keys, NoKey
<1>2. Goes(u, g) /\ UNCHANGED <<stored, database, process, leadership>>
  BY DEF CommitRefused
<1>3. made' \in Keys /\ faults' \in Nat /\ elections' \in Nat /\ swaps' \in Nat
  BY <1>0 DEF CommitRefused, Inv, TypeOK
<1> HIDE DEF g
<1>4. Sound(u, g)
  BY <1>0, <1>1
     DEF Sound, Shape, Vouches, Settled, Serves, Accepts,
         Inv, LeadersOnly, KeysKnown, VouchedSettled
<1> QED
  BY <1>1, <1>2, <1>3, <1>4, HookKeepsInv

\* A hook that fails leaves nothing.
LEMMA HookFailsKeeps ==
  ASSUME Inv, NEW u \in Units, HookFails(u) PROVE Inv'
<1> DEFINE g == NoHook
<1>0. /\ hook[u] \in Hooks /\ Shape(hook[u]) /\ made' \in Keys /\ made' # NoKey
      /\ hook[u].pc \in {"token", "reset", "info", "plan"} => hook[u].key # NoKey
      /\ hook[u].pc \in FailAt
  BY CredentialsAssumption DEF HookFails, Inv, TypeOK, Keys, NoKey
<1>1. /\ g \in Hooks
      /\ g.pc = "idle" /\ g.key = NoKey /\ ~g.mine
        /\ g.answer = "unasked" /\ ~g.publish
  BY <1>0, CredentialsAssumption
     DEF Hooks, NoHook, Steps, Answers, Shape, Inv, TypeOK, Keys, NoKey
<1>2. Goes(u, g) /\ UNCHANGED <<stored, database, process, leadership>>
  BY DEF HookFails
<1>3. made' \in Keys /\ faults' \in Nat /\ elections' \in Nat /\ swaps' \in Nat
  BY <1>0 DEF HookFails, Inv, TypeOK
<1> HIDE DEF g
<1>4. Sound(u, g)
  BY <1>0, <1>1
     DEF Sound, Shape, Vouches, Settled, Serves, Accepts,
         Inv, LeadersOnly, KeysKnown, VouchedSettled
<1> QED
  BY <1>1, <1>2, <1>3, <1>4, HookKeepsInv

------------------------------------------------------------------------------
(* The steps that change Authentik or Juju.                                  *)

\* A leader's reset leaves nobody who vouches for another token.
LEMMA ResetApiTokenKeeps ==
  ASSUME Inv, NEW u \in Units, ResetApiToken(u) PROVE Inv'
<1>0. /\ hook[u] \in Hooks /\ Shape(hook[u]) /\ hook[u].pc = "reset" /\ hook[u].key # NoKey
      /\ Leads(u) /\ made \in Keys
  BY DEF ResetApiToken, Inv, TypeOK, LeadersOnly
<1>1. CASE GoesTo(u, "info") /\ UNCHANGED token
  <2> DEFINE g == [hook[u] EXCEPT !.pc = "info"]
  <2>1. /\ g \in Hooks /\ g.pc = "info" /\ g.key = hook[u].key /\ g.mine = hook[u].mine
        /\ g.answer = "rejected" /\ ~g.publish
    BY <1>0 DEF Hooks, Steps, Shape
  <2>2. /\ Goes(u, g) /\ UNCHANGED <<stored, database, process, leadership>>
        /\ made' \in Keys /\ faults' \in Nat /\ elections' \in Nat /\ swaps' \in Nat
    BY <1>0, <1>1 DEF ResetApiToken, Inv, TypeOK
  <2> HIDE DEF g
  <2>3. Sound(u, g)
    BY <1>0, <2>1 DEF Sound, Shape, Vouches, Inv, KeysKnown
  <2> QED BY <2>1, <2>2, <2>3, HookKeepsInv
<1>2. CASE /\ Goes(u, [hook[u] EXCEPT !.pc = "info", !.answer = "unasked"])
           /\ password # NoKey /\ token' = hook[u].key /\ NoFault
  <2> DEFINE g == [hook[u] EXCEPT !.pc = "info", !.answer = "unasked"]
  <2>1. /\ g \in Hooks /\ g.pc = "info" /\ g.key = hook[u].key /\ g.mine = hook[u].mine
        /\ g.answer = "unasked" /\ ~g.publish
    BY <1>0 DEF Hooks, Steps, Answers, Shape
  <2>2. Goes(u, g) BY <1>2
  <2> HIDE DEF g
  <2>3. /\ hook' \in [Units -> Hooks] /\ hook'[u] = g
        /\ \A v \in Units : v # u => hook'[v] = hook[v]
    BY <2>1, <2>2, HookGoes DEF Inv
  <2>4. UNCHANGED <<stored, password, process, leadership, made>> /\ token' = hook[u].key
    BY <1>2 DEF ResetApiToken
  <2>5. TypeOK'
    BY <1>0, <1>2, <2>1, <2>3, <2>4 DEF Inv, TypeOK, Hooks
  <2>6. \A v \in Units : Shape(hook'[v])
    BY <1>0, <2>1, <2>3 DEF Inv, Shape
  <2>7. \A v \in Units : ~Vouches(hook'[v])
    BY <1>0, <2>1, <2>3 DEF Inv, LeadersOnly, Vouches
  <2>8. LeadersOnly'
    BY <1>0, <2>1, <2>3, <2>4, <2>7 DEF Inv, LeadersOnly
  <2>9. KeysKnown'
    BY <2>1, <2>3, <2>4 DEF Inv, KeysKnown
  <2>10. SharedSettled'
    BY <1>0, <2>4 DEF Inv, KeysKnown, SharedSettled, Settled
  <2> QED BY <1>0, <1>2, <2>4, <2>5, <2>6, <2>7, <2>8, <2>9, <2>10 DEF Inv, VouchedSettled
<1> QED BY <1>1, <1>2 DEF ResetApiToken

\* A process starts with the key that everybody who has one agrees on.
LEMMA PlanKeeps ==
  ASSUME Inv, NEW u \in Units, Plan(u) PROVE Inv'
<1> DEFINE g == [hook[u] EXCEPT !.pc = "commit"]
<1>0. /\ hook[u] \in Hooks /\ Shape(hook[u]) /\ hook[u].pc = "plan" /\ hook[u].key # NoKey
      /\ env \in [Units -> Keys \cup {NoKey}] /\ up \in [Units -> BOOLEAN]
  BY DEF Plan, Inv, TypeOK
<1>1. /\ g \in Hooks /\ g.pc = "commit" /\ g.key = hook[u].key /\ g.mine = hook[u].mine
      /\ g.answer = hook[u].answer /\ g.publish = hook[u].publish
  BY <1>0 DEF Hooks, Steps
<1>2. Goes(u, g) BY DEF Plan
<1> HIDE DEF g
<1>3. /\ hook' \in [Units -> Hooks] /\ hook'[u] = g
      /\ \A v \in Units : v # u => hook'[v] = hook[v]
  BY <1>1, <1>2, HookGoes DEF Inv
<1>4. /\ env' \in [Units -> Keys \cup {NoKey}] /\ up' \in [Units -> BOOLEAN]
      /\ env'[u] = hook[u].key /\ \A v \in Units : v # u => env'[v] = env[v]
  BY <1>0 DEF Plan, Hooks
<1>5. UNCHANGED <<stored, database, leadership, made, budgets>>
  BY DEF Plan
<1>6. TypeOK'
  BY <1>0, <1>1, <1>3, <1>4, <1>5 DEF Inv, TypeOK
<1>7. \A v \in Units : Shape(hook'[v])
  BY <1>0, <1>1, <1>3 DEF Inv, Shape
<1>8. LeadersOnly' /\ KeysKnown'
  BY <1>1, <1>3, <1>5 DEF Inv, LeadersOnly, KeysKnown, Vouches
<1>9. \A v \in Units : Vouches(hook[v]) => hook[u].key = hook[v].key
  BY <1>0 DEF Inv, LeadersOnly, KeysKnown, VouchedSettled
<1>10. VouchedSettled'
  BY <1>1, <1>3, <1>4, <1>5, <1>9 DEF Inv, VouchedSettled, Settled, Vouches
<1>11. SharedSettled'
  BY <1>0, <1>4, <1>5 DEF Inv, SharedSettled, Settled, KeysKnown
<1> QED BY <1>5, <1>6, <1>7, <1>8, <1>10, <1>11 DEF Inv

\* What is published was vouched for.
LEMMA CommitKeeps ==
  ASSUME Inv, NEW u \in Units, Commit(u) PROVE Inv'
<1>0. /\ hook[u] \in Hooks /\ Shape(hook[u]) /\ Storable(u)
      /\ secret' = IF hook[u].mine THEN hook[u].key ELSE secret
      /\ shared' = IF hook[u].publish THEN hook[u].key ELSE shared
      /\ UNCHANGED <<database, process, leadership, made, budgets>>
  BY DEF Commit, Inv, TypeOK
<1>1. /\ NoHook \in Hooks /\ NoHook.pc = "idle" /\ NoHook.key = NoKey /\ ~NoHook.mine
      /\ NoHook.answer = "unasked" /\ ~NoHook.publish
  BY DEF NoHook, Hooks, Steps, Answers
<1>2. Goes(u, NoHook) BY DEF Commit
<1>3. /\ hook' \in [Units -> Hooks] /\ hook'[u] = NoHook
      /\ \A v \in Units : v # u => hook'[v] = hook[v]
  BY <1>1, <1>2, HookGoes DEF Inv
<1>4. TypeOK'
  BY <1>0, <1>1, <1>3 DEF Inv, TypeOK, Hooks
<1>5. \A v \in Units : Shape(hook'[v])
  BY <1>1, <1>3 DEF Inv, Shape
<1>6. LeadersOnly'
  BY <1>0, <1>1, <1>3 DEF Inv, LeadersOnly, Vouches
<1>7. KeysKnown'
  <2> SUFFICES ASSUME NEW v \in Units, hook'[v].key # NoKey
               PROVE  secret' = IF hook'[v].mine THEN NoKey ELSE hook'[v].key
    BY DEF KeysKnown
  <2>1. v # u /\ hook'[v] = hook[v] BY <1>1, <1>3
  <2>2. secret' = secret
    BY <1>0, <2>1 DEF Storable, Inv, LeadersOnly, KeysKnown
  <2> QED BY <2>1, <2>2 DEF Inv, KeysKnown
<1>8. VouchedSettled'
  BY <1>0, <1>1, <1>3 DEF Inv, VouchedSettled, Vouches, Settled
<1>9. hook[u].publish => Settled(hook[u].key, token, env) /\ secret' = hook[u].key
  BY <1>0 DEF Inv, VouchedSettled, Vouches, KeysKnown
<1>10. SharedSettled'
  BY <1>0, <1>9 DEF Inv, SharedSettled, Settled, Storable
<1> QED BY <1>0, <1>4, <1>5, <1>6, <1>7, <1>8, <1>10 DEF Inv

\* An empty database is filled with a settled key.
LEMMA BootstrapKeeps ==
  ASSUME Inv, NEW u \in Units, Bootstrap(u) PROVE Inv'
<1>1. /\ token = NoKey /\ token' = env[u] /\ password' = env[u]
      /\ env[u] \in Keys /\ env[u] # NoKey
      /\ UNCHANGED <<stored, process, leadership, hook, made, budgets>>
  BY DEF Bootstrap, Inv, TypeOK
<1>2. TypeOK'
  BY <1>1 DEF Inv, TypeOK
<1>3. VouchedSettled'
  BY <1>1 DEF Inv, VouchedSettled, Settled
<1>4. SharedSettled'
  BY <1>1 DEF Inv, SharedSettled, Settled
<1> QED BY <1>1, <1>2, <1>3, <1>4 DEF Inv, LeadersOnly, KeysKnown

\* No process gets another key.
LEMMA ProcessKeeps ==
  ASSUME Inv, NEW u \in Units, Ready(u) \/ ContainerRestarts(u) PROVE Inv'
<1>0. env \in [Units -> Keys \cup {NoKey}] /\ up \in [Units -> BOOLEAN]
  BY DEF Inv, TypeOK
<1>1. /\ UNCHANGED <<stored, database, leadership, hook, made>>
      /\ env' \in [Units -> Keys \cup {NoKey}] /\ up' \in [Units -> BOOLEAN]
      /\ \A v \in Units : env'[v] \in {env[v], NoKey}
      /\ faults' \in Nat /\ elections' \in Nat /\ swaps' \in Nat
  <2>1. CASE Ready(u)
    BY <1>0, <2>1 DEF Ready, Inv, TypeOK
  <2>2. CASE ContainerRestarts(u)
    <3>1. env' = [env EXCEPT ![u] = NoKey] /\ up' = [up EXCEPT ![u] = FALSE]
      BY <2>2 DEF ContainerRestarts
    <3>2. /\ UNCHANGED <<stored, database, leadership, hook, made>>
          /\ faults' \in Nat /\ elections' \in Nat /\ swaps' \in Nat
      BY <2>2 DEF ContainerRestarts, Inv, TypeOK
    <3> QED BY <1>0, <3>1, <3>2
  <2> QED BY <2>1, <2>2
<1>2. TypeOK' BY <1>1 DEF Inv, TypeOK
<1>3. VouchedSettled' BY <1>1 DEF Inv, VouchedSettled, Settled
<1>4. SharedSettled' BY <1>1 DEF Inv, SharedSettled, Settled
<1> QED BY <1>1, <1>2, <1>3, <1>4 DEF Inv, LeadersOnly, KeysKnown

\* A leader deposed between two hooks has nothing in hand.
LEMMA ElectKeeps ==
  ASSUME Inv, NEW u \in Units, Elect(u), ~deposed' PROVE Inv'
<1>0. hook[leader].pc = "idle" /\ deposed' \in BOOLEAN
  BY Zenon DEF Elect
<1>1. /\ leader \in Units /\ hook[leader].pc = "idle" /\ leader' = u
      /\ UNCHANGED <<stored, database, process, hook, made>>
      /\ faults' \in Nat /\ elections' \in Nat /\ swaps' \in Nat
  BY <1>0 DEF Elect, Inv, TypeOK
<1>2. TypeOK' BY <1>0, <1>1 DEF Inv, TypeOK
<1>3. LeadersOnly' BY <1>1 DEF Inv, LeadersOnly, Shape, Vouches
<1>4. VouchedSettled' /\ SharedSettled' /\ KeysKnown'
  BY <1>1 DEF Inv, VouchedSettled, SharedSettled, Settled, KeysKnown
<1> QED BY <1>1, <1>2, <1>3, <1>4 DEF Inv

\* Nothing runs on a new database yet.
LEMMA NewDatabaseKeeps ==
  ASSUME Inv, NewDatabase(NoKey) PROVE Inv'
<1>1. /\ UNCHANGED <<stored, leadership, hook, made>> /\ token' = NoKey /\ password' = NoKey
      /\ env' = [u \in Units |-> NoKey] /\ up' = [u \in Units |-> FALSE]
      /\ faults' \in Nat /\ elections' \in Nat /\ swaps' \in Nat
  BY DEF NewDatabase, Inv, TypeOK
<1>2. TypeOK' BY <1>1 DEF Inv, TypeOK
<1>3. VouchedSettled' BY <1>1 DEF Inv, VouchedSettled, Settled
<1>4. SharedSettled' BY <1>1 DEF Inv, SharedSettled, Settled
<1> QED BY <1>1, <1>2, <1>3, <1>4 DEF Inv, LeadersOnly, KeysKnown

\* Unless a deposed leader's hook is still running, every step of the system
\* keeps the invariant.
LEMMA StepKeepsInv ==
  ASSUME Inv, [Next]_vars, ~deposed' PROVE Inv'
<1>1. ASSUME NEW u \in Units, HookStep(u) PROVE Inv'
  BY <1>1, SecretFoundKeeps, SecretMissingKeeps, CreateSecretKeeps, StepRefusedKeeps,
     EnsureApiTokenKeeps, ResetApiTokenKeeps, EnsureServerInfoKeeps, PlanKeeps, CommitKeeps,
     CommitRefusedKeeps DEF HookStep
<1>2. CASE UNCHANGED vars
  BY <1>2 DEF vars, Inv, TypeOK, LeadersOnly, KeysKnown, VouchedSettled, SharedSettled
<1> QED
  BY <1>1, <1>2, StartHookKeeps, HookFailsKeeps, BootstrapKeeps, ProcessKeeps, ElectKeeps,
     NewDatabaseKeeps DEF Next

\* No step takes the history of deposed leaders back.
LEMMA DeposedForGood ==
  ASSUME [Next]_vars, ~deposed' PROVE ~deposed
BY DEF Next, vars, StartHook, HookStep, HookFails, Bootstrap, Ready, Elect, ContainerRestarts,
       NewDatabase, SecretFound, SecretMissing, CreateSecret, StepRefused, EnsureApiToken,
       ResetApiToken, EnsureServerInfo, Plan, Commit, CommitRefused

\* The consumers of server-info are never left with a token that Authentik does
\* not accept, whatever fails and whoever leads, if no leader is replaced during
\* its hook (_ensure_api_token, _ensure_server_info_relation).
THEOREM TokenAccepted == Spec => []PublishedTokenAccepted
<1> DEFINE Guarded == ~deposed => Inv
<1>1. Init => Guarded BY Initial
<1>2. Guarded /\ [Next]_vars => Guarded' BY StepKeepsInv, DeposedForGood
<1>3. Guarded => PublishedTokenAccepted
  BY DEF Inv, SharedSettled, Settled, PublishedTokenAccepted
<1> QED BY <1>1, <1>2, <1>3, PTL DEF Spec

------------------------------------------------------------------------------
(* The types, which hold whoever leads.                                      *)

\* A state of a hook that has a key where it needs one.
Typed(g) == g \in Hooks /\ (g.pc \in {"token", "reset", "info", "plan"} => g.key # NoKey)

\* The hook of one unit goes on.
LEMMA HookTyped ==
  ASSUME TypeOK, NEW u \in Units, NEW g, Typed(g), Goes(u, g)
  PROVE  /\ hook' \in [Units -> Hooks]
         /\ \A v \in Units : Typed(hook'[v])
BY HookGoes DEF TypeOK, Typed

\* A hook that has a key keeps it, and one that has none may be given one.
LEMMA StaysTyped ==
  ASSUME NEW h, Typed(h), NEW s \in Steps
  PROVE  /\ s \in {"create", "commit"} \/ h.key # NoKey =>
              /\ Typed([h EXCEPT !.pc = s])
              /\ \A a \in Answers : Typed([h EXCEPT !.pc = s, !.answer = a])
              /\ \A b \in BOOLEAN : Typed([h EXCEPT !.pc = s, !.publish = b])
         /\ \A k \in Keys : k # NoKey =>
              /\ Typed([h EXCEPT !.pc = s, !.key = k])
              /\ \A b \in BOOLEAN : Typed([h EXCEPT !.pc = s, !.key = k, !.mine = b])
<1>1. ASSUME s \in {"create", "commit"} \/ h.key # NoKey
      PROVE  Typed([h EXCEPT !.pc = s])
  BY <1>1 DEF Typed, Hooks
<1>2. ASSUME s \in {"create", "commit"} \/ h.key # NoKey, NEW a \in Answers
      PROVE  Typed([h EXCEPT !.pc = s, !.answer = a])
  BY <1>2 DEF Typed, Hooks
<1>3. ASSUME s \in {"create", "commit"} \/ h.key # NoKey, NEW b \in BOOLEAN
      PROVE  Typed([h EXCEPT !.pc = s, !.publish = b])
  BY <1>3 DEF Typed, Hooks
<1>4. ASSUME NEW k \in Keys, k # NoKey
      PROVE  Typed([h EXCEPT !.pc = s, !.key = k])
  BY <1>4 DEF Typed, Hooks
<1>5. ASSUME NEW k \in Keys, k # NoKey, NEW b \in BOOLEAN
      PROVE  Typed([h EXCEPT !.pc = s, !.key = k, !.mine = b])
  BY <1>5 DEF Typed, Hooks
<1> QED BY <1>1, <1>2, <1>3, <1>4, <1>5

\* Every step of a hook keeps the types.
LEMMA HookStepTyped ==
  ASSUME TypeOK, NEW u \in Units, HookStep(u) PROVE TypeOK'
<1>0. /\ Typed(hook[u]) /\ Typed(NoHook)
      /\ made \in Keys /\ secret \in Keys \cup {NoKey} /\ hook[u].key \in Keys \cup {NoKey}
      /\ {"token", "reset", "info", "plan", "create", "commit"} \subseteq Steps
      /\ {"accepted", "rejected", "unavailable", "unasked"} \subseteq Answers
  BY DEF TypeOK, Typed, NoHook, Hooks, Steps, Answers
<1>1. ASSUME NEW g, Typed(g), Goes(u, g) PROVE /\ hook' \in [Units -> Hooks]
         /\ \A v \in Units : hook'[v].pc \in {"token", "reset", "info", "plan"}
                               => hook'[v].key # NoKey
  BY <1>1, HookTyped DEF Typed
<1> HIDE DEF Goes
<1>2. CASE SecretFound(u)
  BY <1>0, <1>1, <1>2, StaysTyped DEF SecretFound, TypeOK
<1>3. CASE SecretMissing(u)
  <2>1. Typed([hook[u] EXCEPT !.pc = "create"]) /\ Typed([hook[u] EXCEPT !.pc = "commit"])
    BY <1>0, StaysTyped
  <2>2. \E g : Typed(g) /\ Goes(u, g)
    BY <1>3, <2>1 DEF SecretMissing
  <2> QED BY <1>1, <1>3, <2>2 DEF SecretMissing, TypeOK
<1>4. CASE CreateSecret(u)
  <2>1. made' \in Keys /\ made' # NoKey
    BY <1>0, <1>4, CredentialsAssumption DEF CreateSecret, Created, Keys, NoKey
  <2>2. \A b \in BOOLEAN : /\ Typed([hook[u] EXCEPT !.pc = "token", !.key = made', !.mine = b])
                           /\ secret # NoKey => Typed([hook[u] EXCEPT !.pc = "token", !.key = secret, !.mine = b])
    BY <1>0, <2>1, StaysTyped
  <2>3. (secret = NoKey) \in BOOLEAN
    OBVIOUS
  <2>4. Goes(u, [hook[u] EXCEPT !.pc = "token", !.key = IF secret = NoKey THEN made' ELSE secret,
                                !.mine = (secret = NoKey)])
    BY <1>4 DEF CreateSecret, Created
  <2>5. \E g : Typed(g) /\ Goes(u, g)
    <3>1. CASE secret = NoKey BY <3>1, <2>2, <2>3, <2>4
    <3>2. CASE secret # NoKey BY <3>2, <2>2, <2>3, <2>4
    <3> QED BY <3>1, <3>2
  <2>6. UNCHANGED <<stored, database, process, leadership, budgets>>
    BY <1>4 DEF CreateSecret
  <2> QED BY <1>1, <2>1, <2>5, <2>6 DEF TypeOK
<1>5. CASE StepRefused(u)
  <2>1. Typed([hook[u] EXCEPT !.pc = "commit"])
    BY <1>0, StaysTyped
  <2> QED BY <1>1, <1>5, <2>1 DEF StepRefused, TypeOK
<1>6. CASE EnsureApiToken(u)
  <2>1. hook[u].key # NoKey BY <1>0, <1>6 DEF EnsureApiToken, Typed
  <2>2. /\ Typed([hook[u] EXCEPT !.pc = "info"])
        /\ Typed([hook[u] EXCEPT !.pc = "info", !.answer = "accepted"])
        /\ Typed([hook[u] EXCEPT !.pc = "reset", !.answer = "rejected"])
        /\ Typed([hook[u] EXCEPT !.pc = "info", !.answer = "unavailable"])
    BY <1>0, <2>1, StaysTyped
  <2>3. \E g : Typed(g) /\ Goes(u, g)
    BY <1>6, <2>2 DEF EnsureApiToken
  <2> QED BY <1>1, <1>6, <2>3 DEF EnsureApiToken, TypeOK
<1>7. CASE ResetApiToken(u)
  <2>1. hook[u].key # NoKey BY <1>0, <1>7 DEF ResetApiToken, Typed
  <2>2. /\ Typed([hook[u] EXCEPT !.pc = "info"])
        /\ Typed([hook[u] EXCEPT !.pc = "info", !.answer = "unasked"])
    BY <1>0, <2>1, StaysTyped
  <2>3. \E g : Typed(g) /\ Goes(u, g)
    BY <1>7, <2>2 DEF ResetApiToken
  <2> QED BY <1>0, <1>1, <1>7, <2>3 DEF ResetApiToken, TypeOK
<1>8. CASE EnsureServerInfo(u)
  <2>1. hook[u].key # NoKey BY <1>0, <1>8 DEF EnsureServerInfo, Typed
  <2>2. /\ Typed([hook[u] EXCEPT !.pc = "plan"])
        /\ Typed([hook[u] EXCEPT !.pc = "plan", !.publish = TRUE])
    BY <1>0, <2>1, StaysTyped
  <2>3. \E g : Typed(g) /\ Goes(u, g)
    BY <1>8, <2>2 DEF EnsureServerInfo
  <2> QED BY <1>1, <1>8, <2>3 DEF EnsureServerInfo, TypeOK
<1>9. CASE Plan(u)
  <2>1. hook[u].key # NoKey BY <1>0, <1>9 DEF Plan, Typed
  <2>2. Typed([hook[u] EXCEPT !.pc = "commit"]) BY <1>0, <2>1, StaysTyped
  <2>3. Goes(u, [hook[u] EXCEPT !.pc = "commit"]) BY <1>9 DEF Plan
  <2>4. env' \in [Units -> Keys \cup {NoKey}] /\ up' \in [Units -> BOOLEAN]
    BY <1>0, <1>9 DEF Plan, TypeOK
  <2>5. UNCHANGED <<stored, database, leadership, made, budgets>> BY <1>9 DEF Plan
  <2> QED BY <1>1, <2>2, <2>3, <2>4, <2>5 DEF TypeOK
<1>10. CASE Commit(u)
  <2>1. Goes(u, NoHook) /\ UNCHANGED <<database, process, leadership, made, budgets>>
    BY <1>10 DEF Commit
  <2>2. secret' \in Keys \cup {NoKey} /\ shared' \in Keys \cup {NoKey}
    BY <1>0, <1>10 DEF Commit, TypeOK
  <2> QED BY <1>0, <1>1, <2>1, <2>2 DEF TypeOK
<1>11. CASE CommitRefused(u)
  <2>1. Goes(u, NoHook) /\ UNCHANGED <<stored, database, process, leadership, made, budgets>>
    BY <1>11 DEF CommitRefused
  <2> QED BY <1>0, <1>1, <2>1 DEF TypeOK
<1> QED
  BY <1>2, <1>3, <1>4, <1>5, <1>6, <1>7, <1>8, <1>9, <1>10, <1>11 DEF HookStep

\* No step of the handler that needs a key is reached without one, and every
\* copy of the credentials is a key that was generated.
THEOREM TypeCorrect == Spec => []TypeOK
<1>1. Init => TypeOK BY Initial DEF Inv
<1>2. TypeOK /\ [Next]_vars => TypeOK'
  <2> SUFFICES ASSUME TypeOK, [Next]_vars PROVE TypeOK'
    OBVIOUS
  <2>0. Typed(NoHook) /\ Typed([NoHook EXCEPT !.pc = "secrets"])
    BY DEF Typed, NoHook, Hooks, Steps, Answers
  <2>1. ASSUME NEW u \in Units, StartHook(u) \/ HookFails(u) PROVE TypeOK'
    <3>1. /\ Goes(u, NoHook) \/ Goes(u, [NoHook EXCEPT !.pc = "secrets"])
          /\ UNCHANGED <<stored, database, process, leadership, made>>
          /\ faults' \in Nat /\ elections' \in Nat /\ swaps' \in Nat
      BY <2>1 DEF StartHook, HookFails, TypeOK
    <3>2. /\ hook' \in [Units -> Hooks]
          /\ \A v \in Units : Typed(hook'[v])
      <4> HIDE DEF Goes
      <4> QED BY <2>0, <3>1, HookTyped
    <3> QED BY <3>1, <3>2 DEF TypeOK, Typed
  <2>2. ASSUME NEW u \in Units PROVE Bootstrap(u) \/ Ready(u) \/ Elect(u) \/ ContainerRestarts(u) => TypeOK'
    <3>1. CASE Bootstrap(u) BY <3>1 DEF Bootstrap, TypeOK
    <3>2. CASE Ready(u) BY <3>2 DEF Ready, TypeOK
    <3>3. CASE Elect(u)
      <4>1. deposed' \in BOOLEAN BY Zenon, <3>3 DEF Elect
      <4> QED BY <3>3, <4>1 DEF Elect, TypeOK
    <3>4. CASE ContainerRestarts(u)
      <4>1. env' \in [Units -> Keys \cup {NoKey}] /\ up' \in [Units -> BOOLEAN]
        BY <3>4 DEF ContainerRestarts, TypeOK
      <4>2. /\ UNCHANGED <<stored, database, leadership, hook, made>>
            /\ faults' \in Nat /\ elections' \in Nat /\ swaps' \in Nat
        BY <3>4 DEF ContainerRestarts, TypeOK
      <4> QED BY <4>1, <4>2 DEF TypeOK
    <3> QED BY <3>1, <3>2, <3>3, <3>4
  <2>3. CASE NewDatabase(NoKey)
    BY <2>3 DEF NewDatabase, TypeOK
  <2>4. CASE UNCHANGED vars
    BY <2>4 DEF vars, TypeOK
  <2> QED BY <2>1, <2>2, <2>3, <2>4, HookStepTyped DEF Next
<1> QED BY <1>1, <1>2, PTL DEF Spec
================================================================================
