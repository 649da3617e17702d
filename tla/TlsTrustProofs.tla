---------------------------- MODULE TlsTrustProofs ----------------------------
(***************************************************************************)
(* For any bundles and any number of failures, unless a hook is cut short   *)
(* between writing the charm file and merging it: the file is a truthful    *)
(* record of the merge, and a hook that reaches its plan leaves a process   *)
(* that trusts what the hook has read, unless the history says harmed.      *)
(***************************************************************************)
EXTENDS TlsTrust, TLAPS

USE DEF Steps, Stores

LEMMA TypesInitially == Init => TypeOK
<1> SUFFICES ASSUME Init PROVE TypeOK
  OBVIOUS
<1>1. bundle \in Bundles \cup {NoBundle} BY TrustAssumption DEF Init
<1>2. {edits, cuts, refusals, restarts, churns} \subseteq Nat BY DEF Init
<1> QED BY <1>1, <1>2 DEF Init, TypeOK

LEMMA TypesKept == TypeOK /\ [Next]_vars => TypeOK'
<1> SUFFICES ASSUME TypeOK, [Next]_vars PROVE TypeOK'
  OBVIOUS
<1> USE DEF TypeOK, files, inHook, budgets
<1>1. CASE StartHook BY <1>1 DEF StartHook
<1>2. CASE Compare BY <1>2 DEF Compare
<1>3. CASE Merge BY <1>3 DEF Merge
<1>4. CASE Push BY <1>4 DEF Push
<1>5. CASE OauthStep BY <1>5 DEF OauthStep
<1>6. CASE Plan BY <1>6 DEF Plan
<1>7. CASE MergeFails BY <1>7 DEF MergeFails, MergeRefused
<1>8. CASE HookCut BY <1>8 DEF HookCut
<1>9. CASE BundleChanges BY <1>9, TrustAssumption DEF BundleChanges
<1>10. CASE ServiceRestarts BY <1>10 DEF ServiceRestarts
<1>11. CASE ContainerRestarts BY <1>11 DEF ContainerRestarts
<1>12. CASE PodRecreated
  <2>1. {edits, cuts, refusals, restarts, churns}' \subseteq Nat BY <1>12 DEF PodRecreated
  <2> QED BY <1>12, <2>1 DEF PodRecreated
<1>13. CASE UNCHANGED vars BY <1>13 DEF vars
<1> QED
  BY <1>1, <1>2, <1>3, <1>4, <1>5, <1>6, <1>7, <1>8, <1>9, <1>10, <1>11, <1>12, <1>13
     DEF Next, HookStep, Environment

\* Every variable keeps its type; in particular the store _ensure_tls pushes
\* to the workload exists by the time update_ca_certs reads it.
THEOREM TypeCorrect == Spec => []TypeOK
BY TypesInitially, TypesKept, PTL DEF Spec

\* The strengthening of FileMeansMerged: it holds during a hook as well, but
\* for the moment between the write and the merge.
FileKeptMerged == step # "merge" /\ charmFile # NoBundle => hostStore = Merged(charmFile)

LEMMA FileKept ==
  ASSUME "merge" \notin Cuts, FileKeptMerged, [Next]_vars
  PROVE  FileKeptMerged'
<1> USE DEF FileKeptMerged, files, inHook
<1>1. CASE StartHook BY <1>1 DEF StartHook, Idle
<1>2. CASE Compare BY <1>2 DEF Compare
<1>3. CASE Merge BY <1>3 DEF Merge
<1>4. CASE Push BY <1>4 DEF Push
<1>5. CASE OauthStep BY <1>5 DEF OauthStep
<1>6. CASE Plan BY <1>6 DEF Plan
<1>7. CASE MergeFails BY <1>7 DEF MergeFails, MergeRefused
<1>8. CASE HookCut BY <1>8 DEF HookCut
<1>9. CASE BundleChanges BY <1>9 DEF BundleChanges
<1>10. CASE ServiceRestarts BY <1>10 DEF ServiceRestarts
<1>11. CASE ContainerRestarts BY <1>11 DEF ContainerRestarts
<1>12. CASE PodRecreated BY <1>12 DEF PodRecreated
<1>13. CASE UNCHANGED vars BY <1>13 DEF vars
<1> QED
  BY <1>1, <1>2, <1>3, <1>4, <1>5, <1>6, <1>7, <1>8, <1>9, <1>10, <1>11, <1>12, <1>13
     DEF Next, HookStep, Environment

\* If no hook is cut short at the merge, a charm-certificates.crt that is there
\* when a hook starts has been merged, so skipping an equal bundle is sound.
THEOREM FileTruthful == ASSUME "merge" \notin Cuts PROVE Spec => []FileMeansMerged
<1>1. Init => FileKeptMerged BY DEF Init, FileKeptMerged
<1>2. FileKeptMerged /\ [Next]_vars => FileKeptMerged' BY FileKept
<1>3. FileKeptMerged => FileMeansMerged BY DEF FileKeptMerged, FileMeansMerged, Idle
<1> QED BY <1>1, <1>2, <1>3, PTL DEF Spec
------------------------------------------------------------------------------
(* What the next plan relies on.                                             *)

\* A process that has read store t trusts what the one that has read s trusts.
SameTrust(s, t) == s = t \/ {s, t} \subseteq {Merged(NoBundle), ImageStore}

\* The file says what the workload's store has, but during an installation.  Its
\* absence says so too, unless a failed merge has left another one in the host's
\* store: then the next hook takes a removal for done.
FileInstalled ==
  step \notin {"merge", "push"} =>
    /\ charmFile # NoBundle => podStore = Merged(charmFile)
    /\ charmFile = NoBundle /\ hostStore \in {Merged(NoBundle), NoStore} =>
         Trusts(podStore, NoBundle)

\* Before the file is overwritten, an absent one was one.
AbsentInstalled ==
  step = "merge" /\ hostStore \in {Merged(NoBundle), NoStore} => Trusts(podStore, NoBundle)

\* The process has what is in the store, or the hook is about to restart it.
RestartOwed ==
  \/ step \in {"oauth", "plan"} /\ changed
  \/ loaded = Down \/ SameTrust(loaded, podStore)

\* What the hook has read is in the file, and in the store when it is pushed.
Installing ==
  /\ step \in {"merge", "push", "oauth", "plan"} => charmFile = want
  /\ step = "push" => hostStore = Merged(want)
  /\ step \in {"oauth", "plan"} /\ ~harmed => Trusts(podStore, want)

PlanInv ==
  /\ TypeOK /\ FileKeptMerged /\ Installing
  /\ ~harmed => FileInstalled /\ AbsentInstalled /\ RestartOwed

LEMMA PlanInitially == Init => PlanInv
<1> SUFFICES ASSUME Init PROVE PlanInv
  OBVIOUS
<1>1. TypeOK BY TypesInitially
<1> QED
  BY <1>1
     DEF Init, PlanInv, FileKeptMerged, Installing, FileInstalled, AbsentInstalled, RestartOwed,
         Trusts, SameTrust

LEMMA PlanKept ==
  ASSUME "merge" \notin Cuts, PlanInv, [Next]_vars
  PROVE  PlanInv'
<1> USE DEF files, inHook
<1>t. TypeOK' /\ FileKeptMerged' BY TypesKept, FileKept DEF PlanInv
<1>1. Installing'
  <2> USE DEF PlanInv, TypeOK, Installing, Trusts
  <2>1. CASE StartHook BY <2>1 DEF StartHook, Idle
  <2>2. CASE Compare
    <3>1. CASE want # charmFile BY <2>2, <3>1 DEF Compare
    <3>2. CASE want = charmFile
      <4>1. step = "compare" /\ step' = "oauth"
            /\ UNCHANGED <<bundle, charmFile, hostStore, podStore, loaded, want, changed>>
            /\ harmed' = (harmed \/ RemovalMissed)
        BY <2>2, <3>2 DEF Compare
      <4>2. ~harmed' => Trusts(podStore, want)
        BY <3>2, <4>1 DEF FileInstalled, RemovalMissed
      <4> QED BY <3>2, <4>1, <4>2
    <3> QED BY <3>1, <3>2
  <2>3. CASE Merge BY <2>3 DEF Merge
  <2>4. CASE Push BY <2>4 DEF Push
  <2>5. CASE OauthStep BY <2>5 DEF OauthStep
  <2>6. CASE Plan BY <2>6 DEF Plan
  <2>7. CASE MergeFails BY <2>7 DEF MergeFails, MergeRefused
  <2>8. CASE HookCut BY <2>8 DEF HookCut
  <2>9. CASE BundleChanges BY <2>9 DEF BundleChanges
  <2>10. CASE ServiceRestarts BY <2>10 DEF ServiceRestarts
  <2>11. CASE ContainerRestarts BY <2>11 DEF ContainerRestarts
  <2>12. CASE PodRecreated BY <2>12 DEF PodRecreated
  <2>13. CASE UNCHANGED vars BY <2>13 DEF vars
  <2> QED
    BY <2>1, <2>2, <2>3, <2>4, <2>5, <2>6, <2>7, <2>8, <2>9, <2>10, <2>11, <2>12, <2>13
       DEF Next, HookStep, Environment
<1>2. ~harmed' => FileInstalled' /\ AbsentInstalled'
  <2> SUFFICES ASSUME ~harmed' PROVE FileInstalled' /\ AbsentInstalled'
    OBVIOUS
  <2> USE DEF PlanInv, TypeOK, Installing, FileInstalled, AbsentInstalled
  <2>1. CASE StartHook BY <2>1 DEF StartHook, Idle
  <2>2. CASE Compare
    <3>1. charmFile # NoBundle => hostStore \notin {Merged(NoBundle), NoStore}
      <4>1. charmFile # NoBundle => hostStore = Merged(charmFile)
        BY <2>2 DEF Compare, FileKeptMerged
      <4> QED BY <4>1, TrustAssumption DEF Merged, NoStore
    <3> QED BY <2>2, <3>1 DEF Compare
  <2>3. CASE Merge BY <2>3 DEF Merge
  <2>4. CASE Push
    <3>1. podStore' = Merged(want) /\ charmFile' = want /\ step' = "oauth" /\ hostStore' = Merged(want)
      BY <2>4 DEF Push
    <3> QED BY <3>1 DEF Trusts
  <2>5. CASE OauthStep BY <2>5 DEF OauthStep
  <2>6. CASE Plan
    <3>1. Trusts(podStore, want) /\ charmFile = want
      BY <2>6 DEF Plan
    <3> QED BY <2>6, <3>1 DEF Plan, Trusts
  <2>7. CASE MergeFails
    <3>1. step = "merge" /\ step' = "idle" /\ charmFile' = NoBundle
          /\ UNCHANGED <<hostStore, podStore, harmed>>
      BY <2>7 DEF MergeFails, MergeRefused
    <3> QED BY <3>1
  <2>8. CASE HookCut BY <2>8 DEF HookCut
  <2>9. CASE BundleChanges BY <2>9 DEF BundleChanges
  <2>10. CASE ServiceRestarts BY <2>10 DEF ServiceRestarts
  <2>11. CASE ContainerRestarts BY <2>11 DEF ContainerRestarts, Trusts
  <2>12. CASE PodRecreated BY <2>12 DEF PodRecreated, Trusts
  <2>13. CASE UNCHANGED vars BY <2>13 DEF vars
  <2> QED
    BY <2>1, <2>2, <2>3, <2>4, <2>5, <2>6, <2>7, <2>8, <2>9, <2>10, <2>11, <2>12, <2>13
       DEF Next, HookStep, Environment
<1>3. ~harmed' => RestartOwed'
  <2> SUFFICES ASSUME ~harmed' PROVE RestartOwed'
    OBVIOUS
  <2> USE DEF PlanInv, TypeOK, RestartOwed, SameTrust
  <2>1. CASE StartHook BY <2>1 DEF StartHook, Idle
  <2>2. CASE Compare BY <2>2 DEF Compare
  <2>3. CASE Merge BY <2>3 DEF Merge
  <2>4. CASE Push BY <2>4 DEF Push
  <2>5. CASE OauthStep BY <2>5 DEF OauthStep
  <2>6. CASE Plan
    <3>1. /\ loaded' = podStore \/ loaded' = loaded
          /\ podStore' = podStore
          /\ ~harmed => (changed => loaded' = podStore)
          /\ harmed => Trusts(loaded', want) /\ Trusts(podStore, want)
      BY <2>6 DEF Plan
    <3>2. CASE harmed BY <3>1, <3>2 DEF Trusts
    <3>3. CASE ~harmed BY <3>1, <3>3
    <3> QED BY <3>2, <3>3
  <2>7. CASE MergeFails BY <2>7 DEF MergeFails, MergeRefused
  <2>8. CASE HookCut BY <2>8 DEF HookCut
  <2>9. CASE BundleChanges BY <2>9 DEF BundleChanges
  <2>10. CASE ServiceRestarts BY <2>10 DEF ServiceRestarts
  <2>11. CASE ContainerRestarts BY <2>11 DEF ContainerRestarts
  <2>12. CASE PodRecreated BY <2>12 DEF PodRecreated
  <2>13. CASE UNCHANGED vars BY <2>13 DEF vars
  <2> QED
    BY <2>1, <2>2, <2>3, <2>4, <2>5, <2>6, <2>7, <2>8, <2>9, <2>10, <2>11, <2>12, <2>13
       DEF Next, HookStep, Environment
<1> QED BY <1>t, <1>1, <1>2, <1>3 DEF PlanInv

\* If no hook is cut short at the merge, a hook that gets to its plan leaves a
\* process that trusts the bundle the hook has read, unless the history says harmed:
\* whatever bundles come and go, merges fail, hooks end early and pods are replaced
\* (_ensure_tls, update_ca_certs and the restart they ask plan() for).
THEOREM PlanTrusts == ASSUME "merge" \notin Cuts PROVE Spec => PlannedMeansTrusted
<1>1. Init => PlanInv BY PlanInitially
<1>2. PlanInv /\ [Next]_vars => PlanInv' BY PlanKept
<1>3. PlanInv => (Plan /\ ~harmed => Trusts(loaded', want))
  <2> SUFFICES ASSUME PlanInv, Plan, ~harmed PROVE Trusts(loaded', want)
    OBVIOUS
  <2>1. Trusts(podStore, want) /\ RestartOwed BY DEF PlanInv, Installing, Plan
  <2>2. loaded' = podStore \/ (loaded' = loaded /\ ~changed /\ loaded # Down) BY DEF Plan
  <2>3. loaded' = podStore \/ SameTrust(loaded', podStore) BY <2>1, <2>2 DEF RestartOwed
  <2>4. want \in Bundles \cup {NoBundle} BY DEF PlanInv, TypeOK
  <2>5. CASE podStore = Merged(NoBundle) \/ podStore = ImageStore
    <3>1. want = NoBundle BY <2>1, <2>4, <2>5, TrustAssumption DEF Trusts, Merged, ImageStore
    <3> QED BY <2>1, <2>3, <3>1 DEF SameTrust, Trusts
  <2> QED BY <2>1, <2>3, <2>5 DEF SameTrust
<1> QED BY <1>1, <1>2, <1>3, PTL DEF Spec, PlannedMeansTrusted
===============================================================================
