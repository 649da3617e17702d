------------------------------- MODULE TlsTrust -------------------------------
(***************************************************************************)
(* _ensure_tls() of src/src/charm.py and what it sets in motion: the CA     *)
(* bundle of the receive-ca-cert relations is copied from file to file      *)
(* until the Authentik process reads it.                                    *)
(*                                                                         *)
(*   databags -> charmFile -> hostStore -> podStore -> loaded               *)
(*                                                                         *)
(* The first three copies are made one after the other in one hook, the     *)
(* last one when the service starts.  None of them is written by Juju, so   *)
(* nothing is undone when the hook fails, and each container loses its      *)
(* files when Kubernetes recreates it.  Units do this independently of each *)
(* other; the model is of one.                                              *)
(***************************************************************************)
EXTENDS Naturals

CONSTANTS
  Bundles,      \* the CA bundles the relations can publish
  NoBundle,     \* no certificates: the empty bundle, an absent file
  Targets,      \* the bundles the relations change to
  Cuts,         \* where a hook may end early
  MaxEdits,     \* bound on changes of the relations' bundle
  MaxCuts,      \* bound on hooks that end early
  MaxRefusals,  \* bound on failures of update-ca-certificates
  MaxRestarts,  \* bound on restarts of the workload container
  MaxChurns     \* bound on recreations of the pod

\* The step a hook is at, named for what it does next.
Steps == {"compare", "merge", "push", "oauth", "plan"}

ASSUME TrustAssumption ==
  /\ NoBundle \notin Bundles
  /\ {"image", "absent", "down"} \cap (Bundles \cup {NoBundle}) = {}  \* names of other stores
  /\ Targets \subseteq Bundles \cup {NoBundle}
  /\ Cuts \subseteq Steps
  /\ {MaxEdits, MaxCuts, MaxRefusals, MaxRestarts, MaxChurns} \subseteq Nat

VARIABLES
  bundle,     \* the bundle the relations publish
  charmFile,  \* charm container: charm-certificates.crt
  hostStore,  \* charm container: ca-certificates.crt, system store and charmFile
  podStore,   \* workload container: its ca-certificates.crt
  loaded,     \* the store the running process has read
  step,       \* the step the hook is at
  want,       \* the bundle the hook has read
  changed,    \* the hook's _tls_cert_changed
  harmed,     \* history: an installation was cut short or undone since the last good plan
  edits, cuts, refusals, restarts, churns   \* budgets spent

files   == <<charmFile, hostStore, podStore>>
inHook  == <<step, want, changed>>
budgets == <<edits, cuts, refusals, restarts, churns>>
vars    == <<bundle, files, loaded, inHook, harmed, budgets>>

\* A store is named by the bundle merged into the system's certificates;
\* "image" is the store the workload's image comes with, "none" an absent file.
Merged(b) == [of |-> b]
Stores    == {Merged(b) : b \in Bundles \cup {NoBundle}}
ImageStore == [of |-> "image"]
NoStore    == [of |-> "absent"]
Down       == [of |-> "down"]     \* no process is running

Trusts(s, b) == s = Merged(b) \/ (b = NoBundle /\ s = ImageStore)

Idle == step = "idle"

------------------------------------------------------------------------------
(* The hook.                                                                 *)

StartHook ==
  /\ Idle
  /\ step' = "compare" /\ want' = bundle /\ changed' = FALSE
  /\ UNCHANGED <<bundle, files, loaded, harmed, budgets>>

\* There is no file, but the last merge still had one.
RemovalMissed == charmFile = NoBundle /\ hostStore \notin {Merged(NoBundle), NoStore}

\* The file is overwritten before anything is done with it.
Compare ==
  /\ step = "compare"
  /\ \/ want = charmFile /\ step' = "oauth" /\ UNCHANGED charmFile
        /\ harmed' = (harmed \/ RemovalMissed)
     \/ want # charmFile /\ step' = "merge" /\ charmFile' = want /\ UNCHANGED harmed
  /\ UNCHANGED <<bundle, hostStore, podStore, loaded, want, changed, budgets>>

\* update-ca-certificates --fresh.
Merge ==
  /\ step = "merge"
  /\ hostStore' = Merged(charmFile)
  /\ step' = "push"
  /\ UNCHANGED <<bundle, charmFile, podStore, loaded, want, changed, harmed, budgets>>

\* It exits with an error: the file is removed and the handler stops.
MergeRefused(after) ==
  /\ step = "merge" /\ refusals < MaxRefusals
  /\ refusals' = refusals + 1
  /\ charmFile' = after
  /\ step' = "idle"
  /\ UNCHANGED <<bundle, hostStore, podStore, loaded, want, changed, harmed,
                 edits, cuts, restarts, churns>>

\* The file is left where it is.
MutantKeepFile == MergeRefused(charmFile)
MergeFails     == MergeRefused(NoBundle)

\* update_ca_certs(): pushed only if different, and the restart requested.
MutantPushQuietly ==
  /\ step = "push"
  /\ podStore' = hostStore
  /\ step' = "oauth"
  /\ UNCHANGED <<bundle, charmFile, hostStore, loaded, want, changed, harmed, budgets>>

\* The charm's own certificates pushed, without the system's.
MutantPushOwn ==
  /\ step = "push"
  /\ podStore' = charmFile
  /\ changed' = TRUE
  /\ step' = "oauth"
  /\ UNCHANGED <<bundle, charmFile, hostStore, loaded, want, harmed, budgets>>

Push ==
  /\ step = "push"
  /\ podStore' = hostStore
  /\ changed' = (podStore # hostStore)
  /\ step' = "oauth"
  /\ UNCHANGED <<bundle, charmFile, hostStore, loaded, want, harmed, budgets>>

\* The oauth step of the handler succeeds, or has nothing to do.
OauthStep ==
  /\ step = "oauth"
  /\ step' = "plan"
  /\ UNCHANGED <<bundle, files, loaded, want, changed, harmed, budgets>>

\* plan(): restart, start, or replan, which restarts the service only if its
\* layer has changed.
Plan ==
  /\ step = "plan"
  /\ loaded' \in IF changed \/ loaded = Down THEN {podStore} ELSE {loaded, podStore}
  /\ harmed' = (harmed /\ ~(Trusts(loaded', want) /\ Trusts(podStore, want)))
  /\ step' = "idle"
  /\ UNCHANGED <<bundle, files, want, changed, budgets>>

\* The hook ends early: an earlier step of the handler says no ("compare"),
\* the hook is killed or Pebble cannot be reached ("merge", "push"), the oauth
\* step fails or is refused ("oauth"), Pebble does not take the plan ("plan").
HookCut ==
  /\ step \in Cuts /\ cuts < MaxCuts
  /\ cuts' = cuts + 1
  /\ harmed' = (harmed \/ step \in {"merge", "push"} \/ (changed /\ step \in {"oauth", "plan"}))
  /\ step' = "idle"
  /\ UNCHANGED <<bundle, files, loaded, want, changed, edits, refusals, restarts, churns>>

HookStep == Compare \/ Merge \/ Push \/ OauthStep \/ Plan

------------------------------------------------------------------------------
(* The world around it.                                                      *)

BundleChanges ==
  /\ edits < MaxEdits
  /\ edits' = edits + 1
  /\ bundle' \in Targets \ {bundle}
  /\ UNCHANGED <<files, loaded, inHook, harmed, cuts, refusals, restarts, churns>>

\* Pebble starts a service again that has exited.
ServiceRestarts ==
  /\ loaded # Down
  /\ loaded' = podStore
  /\ UNCHANGED <<bundle, files, inHook, harmed, budgets>>

\* Kubernetes restarts the workload container, whose files are the image's.
ContainerRestarts ==
  /\ restarts < MaxRestarts
  /\ restarts' = restarts + 1
  /\ podStore' = ImageStore /\ loaded' = Down
  /\ harmed' = (harmed \/ (charmFile # NoBundle /\ step \notin {"merge", "push"}))
  /\ UNCHANGED <<bundle, charmFile, hostStore, inHook, edits, cuts, refusals, churns>>

\* The pod is rescheduled: both containers are new.
PodRecreated ==
  /\ churns < MaxChurns
  /\ churns' = churns + 1
  /\ charmFile' = NoBundle /\ hostStore' = NoStore
  /\ podStore' = ImageStore /\ loaded' = Down
  /\ step' = "idle" /\ harmed' = FALSE
  /\ UNCHANGED <<bundle, want, changed, edits, cuts, refusals, restarts>>

Environment == BundleChanges \/ ServiceRestarts \/ ContainerRestarts \/ PodRecreated

------------------------------------------------------------------------------

Init ==
  /\ bundle \in Targets
  /\ charmFile = NoBundle /\ hostStore = NoStore
  /\ podStore = ImageStore /\ loaded = Down
  /\ step = "idle" /\ want = NoBundle /\ changed = FALSE
  /\ harmed = FALSE
  /\ edits = 0 /\ cuts = 0 /\ refusals = 0 /\ restarts = 0 /\ churns = 0

Next == StartHook \/ HookStep \/ MergeFails \/ HookCut \/ Environment

Spec == Init /\ [][Next]_vars

\* Juju dispatches update-status for ever, and a hook goes on.
FairSpec == Spec /\ WF_vars(StartHook) /\ WF_vars(HookStep)

------------------------------------------------------------------------------
(* Properties.                                                               *)

\* Every variable has a value the code can give it: what is pushed and loaded is
\* a whole store, and no copy is made before its source exists.
TypeOK ==
  /\ bundle \in Bundles \cup {NoBundle}
  /\ charmFile \in Bundles \cup {NoBundle}
  /\ hostStore \in Stores \cup {NoStore}
  /\ podStore \in Stores \cup {ImageStore}
  /\ loaded \in Stores \cup {ImageStore, Down}
  /\ step \in Steps \cup {"idle"}
  /\ want \in Bundles \cup {NoBundle}
  /\ changed \in BOOLEAN /\ harmed \in BOOLEAN
  /\ {edits, cuts, refusals, restarts, churns} \subseteq Nat
  /\ step = "push" => hostStore \in Stores

\* "so that Authentik's processes trust endpoints signed by the custom CA"
\* (src/openspec/specs/receive-ca-cert/spec.md): whatever bundle is published,
\* the running process trusts it in the end, unless it changes before.
BundleTrusted ==
  \A b \in Bundles \cup {NoBundle} : bundle = b ~> bundle # b \/ Trusts(loaded, b)

\* The same but for what is known to break it: a hook cut short once the file is
\* written, or before the restart it owes; a removal taken for done because a failed merge
\* has deleted the file; a workload restarted alone.  Whatever else fails, the bundle is trusted in the end.
TrustedUnlessHarmed ==
  \A b \in Bundles \cup {NoBundle} :
    bundle = b ~> bundle # b \/ harmed \/ Trusts(loaded, b)

\* Unless harmed like that, a hook that reaches its plan leaves a process that
\* trusts what the hook read, also if earlier hooks failed.  (Not so if a hook may be
\* cut short between the file and the merge.)
PlannedMeansTrusted == [][Plan /\ ~harmed => Trusts(loaded', want)]_vars

\* "The charm SHALL update its local CA store with the merged CA certificates": whatever
\* is published, nothing included, the charm container has it merged in the end, unless
\* it changes before, and whatever becomes of the workload's store.  One case is left
\* out because the code gets it wrong: a failed merge has deleted the file, nothing is
\* published, and no hook sees that the store still has the last bundle (the state of
\* BundleTrusted's counterexample).  (Nor is it so if a hook may be cut short between
\* the file and the merge.)
HostMerged ==
  \A b \in Bundles \cup {NoBundle} :
    bundle = b ~> \/ bundle # b \/ hostStore = Merged(b)
                  \/ b = NoBundle /\ (hostStore = NoStore \/ (Idle /\ RemovalMissed))

\* What the next hook will take for installed, the charm has merged.  (Not so
\* if a hook may be cut short between the file and the merge.)
FileMeansMerged ==
  Idle /\ charmFile # NoBundle => hostStore = Merged(charmFile)
===============================================================================
