-------------------------- MODULE RestartSafetyProofs --------------------------
(***************************************************************************)
(* Proofs of the remaining safety invariants of the restart reconciler:   *)
(* with k-safety 0 start_db is only issued with every database pod, and   *)
(* the inductive invariants IInv and RInv hold.                           *)
(***************************************************************************)
EXTENDS RestartRefinementProofs

-----------------------------------------------------------------------------
(***************************************************************************)
(* Where the steps of a cycle can go next.                                *)
(***************************************************************************)

\* Ending a cycle puts it back to Idle, with no path.
LEMMA EndCycleIdle ==
    ASSUME EndCycle
    PROVE  pc' = "Idle" /\ path' = "none"
BY DEF EndCycle

\* The re_ip of the unadded pods ends the cycle or reads the old
\* addresses, on the per-node path.
LEMMA ReIPUnaddedPodsNext ==
    ASSUME NEW f, NEW at, ReIPUnaddedPods(f, at)
    PROVE  \/ pc' = "Idle" /\ path' = "none"
           \/ pc' = "ReadOldIPs" /\ path' = "nodes"
BY EndCycleIdle DEF ReIPUnaddedPods

\* After reipNodes the cycle either issues start_db, keeping its path and
\* down pods, or ends.
LEMMA AfterReIPNext ==
    ASSUME AfterReIP
    PROVE  \/ pc' = "StartDB" /\ path' = path /\ down' = down
           \/ pc' = "Idle" /\ path' = "none"
BY EndCycleIdle DEF AfterReIP

\* reconcileNodes never reaches re_ip or the cluster path in one step.
LEMMA ReconcileNodesNext ==
    ASSUME NEW f, ReconcileNodes(f)
    PROVE  pc' \in {"Idle", "ReadOldIPs", "ListNodes"} /\ path' \in {"none", "nodes"}
BY ReIPUnaddedPodsNext, EndCycleIdle DEF ReconcileNodes

-----------------------------------------------------------------------------
(***************************************************************************)
(* KSafety0StartsWholeDatabase.  reconcileCluster only goes on with        *)
(* k-safety 0 when every installed pod runs; the cluster path is taken on  *)
(* facts with no writable node, so every database pod is either down or    *)
(* read-only there, and findRestartablePods keeps the read-only ones when  *)
(* the reconciler restarts read-only nodes.  No later step of the cluster  *)
(* path shrinks the down pods.  The reconciler is built with its           *)
(* restartReadOnly flag by callers outside this tree; with the flag off,   *)
(* TLC finds a read-only secondary left out of start_db, so the theorem    *)
(* has RestartReadOnly as a hypothesis.                                    *)
(***************************************************************************)

\* On the cluster path with k-safety 0 the down pods are all the database.
KSafety0DownAll == KSafety0 /\ path = "cluster" => DBPods \subseteq down

\* KSafety0DownAll holds initially.
LEMMA KSafety0DownAllInit == Init => KSafety0DownAll
BY DEF Init, CtrlInit, KSafety0DownAll

\* With k-safety 0, the down pods reconcileCluster picks are all the
\* database pods.
LEMMA ReconcileClusterDownAll ==
    ASSUME RestartReadOnly, UpNodeAndNotReadOnly(Collect) = {},
           ReconcileCluster(Collect)
    PROVE  KSafety0DownAll'
<1> DEFINE f == Collect
<1>1. CASE \/ AllPodsRunningAndZeroInstalled(f)
           \/ RunningAndInstalled(f) = {}
           \/ KSafety0 /\ InstalledAndNotRestartable(f) # {}
           \/ FindPodToRunAdmintoolsOffline(f) = {}
  BY <1>1, EndCycleIdle DEF ReconcileCluster, KSafety0DownAll
<1>2. CASE ~(\/ AllPodsRunningAndZeroInstalled(f)
             \/ RunningAndInstalled(f) = {}
             \/ KSafety0 /\ InstalledAndNotRestartable(f) # {}
             \/ FindPodToRunAdmintoolsOffline(f) = {})
  <2>1. down' = FindRestartablePods(f, RestartReadOnly)
    BY <1>2 DEF ReconcileCluster
  <2> SUFFICES ASSUME KSafety0, NEW p \in DBPods PROVE p \in down'
    BY DEF KSafety0DownAll
  <2>2. p \in Pods /\ p \in InstalledPods
    BY ConstantsAssumption
  <2>3. f[p].running
    BY <1>2, <2>2 DEF InstalledAndNotRestartable
  <2>4. f[p].vstate # "up"
    BY <2>2 DEF UpNodeAndNotReadOnly
  <2>5. QED
    BY <2>1, <2>3, <2>4 DEF FindRestartablePods, UpNode, ReadOnly
<1>3. QED
  BY <1>1, <1>2

\* Every step keeps KSafety0DownAll, given IInv.
LEMMA KSafety0DownAllStep ==
    ASSUME RestartReadOnly, IInv, KSafety0DownAll, [Next]_vars
    PROVE  KSafety0DownAll'
<1> USE DEF KSafety0DownAll
<1>0. path = "cluster" => pc \in {"Kill", "ProbeCheck", "ReadOldIPs", "ReIP", "StartDB"}
  BY DEF IInv, PathConsistent
<1>1. CASE ReconcileDisabled
  BY <1>1 DEF ReconcileDisabled, vars, ctrl
<1>2. CASE Reconcile
  <2>1. CASE UpNodeAndNotReadOnly(Collect) = {} /\ ~ScheduleOnly
    BY <1>2, <2>1, ReconcileClusterDownAll DEF Reconcile
  <2>2. CASE ~(UpNodeAndNotReadOnly(Collect) = {} /\ ~ScheduleOnly)
    BY <1>2, <2>2, ReconcileNodesNext DEF Reconcile
  <2>3. QED
    BY <2>1, <2>2
<1>3. CASE KillReadOnlyProcess
  BY <1>3, EndCycleIdle DEF KillReadOnlyProcess
<1>4. CASE KillDone
  BY <1>4, EndCycleIdle DEF KillDone
<1>5. CASE ClusterProbeCheck \/ NodeProbeCheck
  BY <1>5, EndCycleIdle DEF ClusterProbeCheck, NodeProbeCheck
<1>6. CASE ListNodes
  BY <1>0, <1>6, EndCycleIdle DEF ListNodes
<1>7. CASE ReadOldIPs
  BY <1>7, EndCycleIdle, AfterReIPNext DEF ReadOldIPs
<1>8. CASE ReIP
  BY <1>8, EndCycleIdle, AfterReIPNext DEF ReIP
<1>9. CASE StartDB
  BY <1>9, EndCycleIdle DEF StartDB
<1>10. CASE RestartNode
  BY <1>0, <1>10, EndCycleIdle DEF RestartNode
<1>11. CASE ReIPAfterRestart
  BY <1>11, ReIPUnaddedPodsNext DEF ReIPAfterRestart
<1>12. CASE RemoteCallFails
  BY <1>12, EndCycleIdle DEF RemoteCallFails
<1>13. CASE Environment
  BY <1>13 DEF Environment, ctrl
<1>14. CASE UNCHANGED vars
  BY <1>14 DEF vars, ctrl
<1>15. QED
  BY <1>1, <1>2, <1>3, <1>4, <1>5, <1>6, <1>7, <1>8, <1>9, <1>10, <1>11, <1>12,
     <1>13, <1>14 DEF Next, Controller

\* When the reconciler restarts read-only nodes, a cluster start under
\* k-safety 0 names every database pod, for every number of pods: the
\* reconcileCluster wait for every installed pod, and a cluster path that
\* only shrinks its down pods by ending the cycle, leave no node out of a
\* database that cannot form a quorum without it.
THEOREM KSafety0WholeStart ==
    ASSUME RestartReadOnly
    PROVE  Spec => []KSafety0StartsWholeDatabase
<1>1. IInv /\ KSafety0DownAll => KSafety0StartsWholeDatabase
  BY DEF IInv, PathConsistent, KSafety0DownAll, KSafety0StartsWholeDatabase
<1>2. IInv /\ KSafety0DownAll /\ [Next]_vars => IInv' /\ KSafety0DownAll'
  BY IInvStep, KSafety0DownAllStep
<1>3. Init => IInv /\ KSafety0DownAll
  BY IInvInit, KSafety0DownAllInit
<1>4. QED
  BY <1>1, <1>2, <1>3, PTL DEF Spec

-----------------------------------------------------------------------------
(***************************************************************************)
(* The inductive invariants themselves, which the runs also check.        *)
(***************************************************************************)

\* IInv, the strengthening of ClusterStartOnlyWhenClusterDown, holds in
\* every reachable state: a vertica process only runs in a database pod,
\* the snapshot is a consistent one, pc and path agree, and on the cluster
\* path every live process was a startup the snapshot saw.
THEOREM IInvHolds == Spec => []IInv
BY IInvInit, IInvStep, PTL DEF Spec

\* RInv, the invariant behind the refinement, holds in every reachable
\* state: on top of IInv, the snapshot's addresses never run ahead, a pod
\* it saw down stays down until the cycle starts it, the kill and map
\* lists are what they were chosen as, and the probe checks stay valid
\* until the call they guard.
THEOREM RInvHolds == Spec => []RInv
BY RInvInit, RInvStep, PTL DEF Spec

=============================================================================
