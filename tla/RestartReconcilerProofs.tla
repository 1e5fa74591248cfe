--------------------- MODULE RestartReconcilerProofs ----------------------
(***************************************************************************)
(* Proofs about the restart reconciler model, for every value of the      *)
(* constants that satisfies ConstantsAssumption.                           *)
(***************************************************************************)
EXTENDS RestartReconciler, TLAPS

\* The two halves of TypeOK: the world's variables and the reconciler's.
WorldOK ==
    /\ running \in [Pods -> BOOLEAN]
    /\ ip \in [Pods -> IPGen]
    /\ vstate \in [Pods -> VStates]
    /\ nodeUp \in [Pods -> BOOLEAN]
    /\ started \in [Pods -> BOOLEAN]
    /\ atconf \in [Pods -> IPGen \cup {NoIP}]
    /\ faults \in 0 .. MaxFaults
    /\ autoRestart \in BOOLEAN

CtrlOK ==
    /\ pc \in PCs
    /\ path \in {"none", "cluster", "nodes"}
    /\ facts \in [Pods -> FactRec]
    /\ atPod \in Pods \cup {NoPod}
    /\ down \subseteq DBPods
    /\ pods0 \subseteq DBPods
    /\ toKill \subseteq DBPods
    /\ killed \in BOOLEAN
    /\ reipPods \subseteq InstalledPods

\* TypeOK is exactly the conjunction of the two halves.
LEMMA TypeOKSplit == TypeOK <=> WorldOK /\ CtrlOK
BY DEF TypeOK, WorldOK, CtrlOK

\* The empty pod facts of a fresh reconciler are well typed.
LEMMA NoFactsType == NoFacts \in [Pods -> FactRec]
BY ConstantsAssumption DEF NoFacts, FactRec, IPGen, VStates

\* The pod facts collected from a well-typed world are well typed.
LEMMA CollectType ==
    ASSUME WorldOK
    PROVE  Collect \in [Pods -> FactRec]
BY DEF WorldOK, Collect, FactRec

\* Ending a cycle leaves the reconciler's variables well typed.
LEMMA EndCycleType ==
    ASSUME EndCycle
    PROVE  CtrlOK'
BY NoFactsType DEF EndCycle, CtrlOK, PCs

\* The pod chosen to run admintools among all pods is a pod.
LEMMA AdmintoolsAnyType ==
    ASSUME NEW f \in [Pods -> FactRec]
    PROVE  FindPodToRunAdmintoolsAny(f) \subseteq Pods
BY ConstantsAssumption
DEF FindPodToRunAdmintoolsAny, UpNodeAndNotReadOnly, RunningAndInstalled

\* The re_ip of the pods not yet in the database keeps the reconciler's
\* variables well typed.
LEMMA ReIPUnaddedPodsType ==
    ASSUME NEW f \in [Pods -> FactRec], NEW at \in Pods \cup {NoPod},
           ReIPUnaddedPods(f, at)
    PROVE  CtrlOK'
<1> DEFINE rp == FindReIPPods(f, TRUE)
           cands == SetATPod(at, FindPodToRunAdmintoolsAny(f))
<1>1. cands \subseteq Pods
  BY AdmintoolsAnyType DEF SetATPod
<1>2. rp \subseteq InstalledPods
  BY DEF FindReIPPods
<1>3. CASE ScheduleOnly \/ rp = {} \/ cands = {}
  BY <1>3, EndCycleType DEF ReIPUnaddedPods
<1>4. CASE ~(ScheduleOnly \/ rp = {} \/ cands = {})
  BY <1>1, <1>2, <1>4 DEF ReIPUnaddedPods, CtrlOK, PCs
<1>5. QED
  BY <1>3, <1>4

\* What follows a re_ip keeps the reconciler's variables well typed.
LEMMA AfterReIPType ==
    ASSUME CtrlOK, AfterReIP
    PROVE  CtrlOK'
<1>1. CASE path = "cluster" /\ DoesDBExist
  BY <1>1 DEF AfterReIP, CtrlOK, PCs
<1>2. CASE ~(path = "cluster" /\ DoesDBExist)
  BY <1>2, EndCycleType DEF AfterReIP
<1>3. QED
  BY <1>1, <1>2

\* The decisions of reconcileCluster keep the reconciler well typed.
LEMMA ReconcileClusterType ==
    ASSUME NEW f \in [Pods -> FactRec], ReconcileCluster(f)
    PROVE  CtrlOK'
<1> DEFINE dp == FindRestartablePods(f, RestartReadOnly)
<1>1. dp \subseteq DBPods
  BY DEF FindRestartablePods
<1>2. FindPodToRunAdmintoolsOffline(f) \subseteq Pods
  BY ConstantsAssumption DEF FindPodToRunAdmintoolsOffline
<1>3. CASE \/ AllPodsRunningAndZeroInstalled(f)
           \/ RunningAndInstalled(f) = {}
           \/ KSafety0 /\ InstalledAndNotRestartable(f) # {}
           \/ FindPodToRunAdmintoolsOffline(f) = {}
  BY <1>3, EndCycleType DEF ReconcileCluster
<1>4. CASE ~(\/ AllPodsRunningAndZeroInstalled(f)
             \/ RunningAndInstalled(f) = {}
             \/ KSafety0 /\ InstalledAndNotRestartable(f) # {}
             \/ FindPodToRunAdmintoolsOffline(f) = {})
  BY <1>1, <1>2, <1>4 DEF ReconcileCluster, CtrlOK, PCs
<1>5. QED
  BY <1>3, <1>4

\* The decisions of reconcileNodes keep the reconciler well typed.
LEMMA ReconcileNodesType ==
    ASSUME NEW f \in [Pods -> FactRec], ReconcileNodes(f)
    PROVE  CtrlOK'
<1> DEFINE dp == FindRestartablePods(f, RestartReadOnly)
<1>1. dp \subseteq DBPods
  BY DEF FindRestartablePods
<1>2. FindPodToRunAdmintoolsAny(f) \subseteq Pods
  BY AdmintoolsAnyType
<1>3. CASE dp = {}
  BY <1>3, ReIPUnaddedPodsType, ConstantsAssumption DEF ReconcileNodes
<1>4. CASE dp # {} /\ FindPodToRunAdmintoolsAny(f) = {}
  BY <1>4, EndCycleType DEF ReconcileNodes
<1>5. CASE dp # {} /\ FindPodToRunAdmintoolsAny(f) # {}
  BY <1>1, <1>2, <1>5 DEF ReconcileNodes, CtrlOK, PCs
<1>6. QED
  BY <1>3, <1>4, <1>5

\* Every initial state satisfies TypeOK.
LEMMA TypeInit == Init => TypeOK
<1> SUFFICES ASSUME Init PROVE WorldOK /\ CtrlOK
  BY TypeOKSplit
<1>1. CtrlOK
  BY NoFactsType DEF Init, WorldInit, CtrlInit, CtrlOK, PCs
<1>2. /\ atconf \in [Pods -> IPGen \cup {NoIP}]
       /\ faults \in 0 .. MaxFaults
       /\ autoRestart \in BOOLEAN
  BY ConstantsAssumption DEF Init, WorldInit, IPGen
<1>3. CASE /\ running = [p \in Pods |-> TRUE]
           /\ ip = [p \in Pods |-> 0]
           /\ vstate = [p \in Pods |-> IF p \in DBPods THEN "up" ELSE "down"]
           /\ nodeUp = [p \in Pods |-> p \in DBPods]
           /\ started = [p \in Pods |-> p \in DBPods]
  BY <1>1, <1>2, <1>3, ConstantsAssumption DEF WorldOK, IPGen, VStates
<1>4. CASE /\ running \in [Pods -> BOOLEAN]
           /\ ip \in [Pods -> IPGen]
           /\ vstate = [p \in Pods |-> "down"]
           /\ nodeUp = [p \in Pods |-> FALSE]
           /\ started = [p \in Pods |-> FALSE]
  BY <1>1, <1>2, <1>4 DEF WorldOK, VStates
<1>5. QED
  BY <1>1, <1>3, <1>4 DEF Init, WorldInit

\* Every step of the specification keeps TypeOK.
LEMMA TypeStep ==
    ASSUME TypeOK, [Next]_vars
    PROVE  TypeOK'
<1> SUFFICES ASSUME WorldOK, CtrlOK, [Next]_vars PROVE WorldOK' /\ CtrlOK'
  BY DEF TypeOK, WorldOK, CtrlOK
<1> USE DEF WorldOK
<1>1. CASE ReconcileDisabled
  BY <1>1 DEF ReconcileDisabled, vars, world, ctrl, CtrlOK
<1>2. CASE Reconcile
  <2>1. Collect \in [Pods -> FactRec]
    BY CollectType
  <2>2. CtrlOK'
    BY <1>2, <2>1, ReconcileClusterType, ReconcileNodesType DEF Reconcile
  <2>3. QED
    BY <1>2, <2>2 DEF Reconcile, world
<1>3. CASE KillReadOnlyProcess
  <2>1. PICK p \in toKill : KillReadOnlyProcess!2!(p)
    BY <1>3 DEF KillReadOnlyProcess
  <2>2. CASE running[p]
    BY <1>3, <2>1, <2>2 DEF KillReadOnlyProcess, CtrlOK, VStates
  <2>3. CASE ~running[p]
    BY <1>3, <2>1, <2>3, EndCycleType DEF KillReadOnlyProcess
  <2>4. QED
    BY <2>2, <2>3
<1>4. CASE KillDone
  BY <1>4, EndCycleType DEF KillDone, CtrlOK, PCs, world
<1>5. CASE ClusterProbeCheck
  BY <1>5, EndCycleType DEF ClusterProbeCheck, CtrlOK, PCs, FindReIPPods, world
<1>6. CASE NodeProbeCheck
  BY <1>6, EndCycleType DEF NodeProbeCheck, CtrlOK, PCs, world, FilterSlowStartup,
           FilterNonActiveStartupProbe
<1>7. CASE ListNodes
  BY <1>7, EndCycleType DEF ListNodes, CtrlOK, PCs, world
<1>8. CASE ReadOldIPs
  <2>1. CASE ~running[atPod]
    BY <1>8, <2>1, EndCycleType DEF ReadOldIPs, world
  <2>2. CASE running[atPod]
    <3> DEFINE m == GenMapFile(atconf, reipPods, facts)
    <3>1. m.mapped \subseteq InstalledPods
      BY DEF GenMapFile, CtrlOK
    <3>2. CASE ~m.ok
      BY <1>8, <2>2, <3>2, EndCycleType DEF ReadOldIPs, world
    <3>3. CASE m.ok /\ ~m.ipChanging
      BY <1>8, <2>2, <3>3, AfterReIPType DEF ReadOldIPs, world
    <3>4. CASE m.ok /\ m.ipChanging
      BY <1>8, <2>2, <3>1, <3>4 DEF ReadOldIPs, CtrlOK, PCs, world
    <3>5. QED
      BY <3>2, <3>3, <3>4
  <2>3. QED
    BY <2>1, <2>2
<1>9. CASE ReIP
  <2>1. CASE ~running[atPod] \/ (~ReIPForce /\ \E p \in Pods : vstate[p] # "down")
    BY <1>9, <2>1, EndCycleType DEF ReIP
  <2>2. CASE ~(~running[atPod] \/ (~ReIPForce /\ \E p \in Pods : vstate[p] # "down"))
    <3>1. atconf' \in [Pods -> IPGen \cup {NoIP}]
      BY <1>9, <2>2 DEF ReIP, CtrlOK, FactRec
    <3>2. CtrlOK'
      BY <1>9, <2>2, AfterReIPType DEF ReIP
    <3>3. QED
      BY <1>9, <3>1, <3>2 DEF ReIP
  <2>3. QED
    BY <2>1, <2>2
<1>10. CASE StartDB
  <2>1. CtrlOK'
    BY <1>10, EndCycleType DEF StartDB
  <2>2. CASE running[atPod]
    <3> DEFINE ok == {p \in down : /\ running[p] /\ vstate[p] = "down"
                                   /\ ip[p] = facts[p].ip
                                   /\ atconf[p] = ip[p]}
    <3>1. /\ vstate' = [p \in Pods |-> IF p \in ok THEN "starting" ELSE vstate[p]]
          /\ nodeUp' = [p \in Pods |-> nodeUp[p] /\ p \notin ok]
      BY <1>10, <2>2 DEF StartDB
    <3>2. QED
      BY <1>10, <2>1, <3>1 DEF StartDB, VStates
  <2>3. CASE ~running[atPod]
    BY <1>10, <2>1, <2>3 DEF StartDB
  <2>4. QED
    BY <2>2, <2>3
<1>11. CASE RestartNode
  <2>1. CASE ~running[atPod]
    BY <1>11, <2>1, EndCycleType DEF RestartNode
  <2>2. CASE running[atPod]
    <3> DEFINE ok == {p \in down : /\ PrimaryQuorum
                                   /\ running[p] /\ vstate[p] = "down"
                                   /\ ip[p] = facts[p].ip
                                   /\ ~nodeUp[p]}
    <3>1. /\ vstate' = [p \in Pods |-> IF p \in ok THEN "starting" ELSE vstate[p]]
          /\ atconf' = [p \in Pods |-> IF p \in ok THEN facts[p].ip ELSE atconf[p]]
          /\ IF ok # down \/ Cardinality(pods0) > Cardinality(down)
             THEN EndCycle
             ELSE /\ pc' = "Recollect"
                  /\ UNCHANGED <<path, facts, atPod, down, pods0, toKill, killed, reipPods>>
      BY <1>11, <2>2 DEF RestartNode
    <3>2. WorldOK'
      BY <1>11, <3>1 DEF RestartNode, CtrlOK, FactRec, VStates
    <3>3. CtrlOK'
      BY <3>1, EndCycleType DEF CtrlOK, PCs
    <3>4. QED
      BY <3>2, <3>3
  <2>3. QED
    BY <2>1, <2>2
<1>12. CASE RemoteCallFails
  BY <1>12, EndCycleType, ConstantsAssumption DEF RemoteCallFails
<1>15. CASE ReIPAfterRestart
  BY <1>15, CollectType, ReIPUnaddedPodsType DEF ReIPAfterRestart, world, CtrlOK
<1>13. CASE Environment
  <2>1. CtrlOK'
    BY <1>13 DEF Environment, EnvNext, PodDeleted, PodScheduled, ProcessCrash,
           NodeDownDetected, StartupCompletes, StartupProbePasses,
           LivenessProbeRestart, QuorumLost, ctrl, CtrlOK
  <2>2. ASSUME NEW p \in Pods, PodDeleted(p) PROVE WorldOK'
    BY <2>2, ConstantsAssumption DEF PodDeleted, VStates
  <2>3. ASSUME NEW p \in Pods, PodScheduled(p) PROVE WorldOK'
    BY <2>3 DEF PodScheduled, IPGen
  <2>4. ASSUME NEW p \in Pods, ProcessCrash(p) PROVE WorldOK'
    BY <2>4, ConstantsAssumption DEF ProcessCrash, VStates
  <2>5. ASSUME NEW p \in Pods, NodeDownDetected(p) PROVE WorldOK'
    BY <2>5 DEF NodeDownDetected
  <2>6. ASSUME NEW p \in Pods, StartupCompletes(p) PROVE WorldOK'
    BY <2>6 DEF StartupCompletes, VStates
  <2>7. ASSUME NEW p \in Pods, StartupProbePasses(p) PROVE WorldOK'
    BY <2>7 DEF StartupProbePasses
  <2>8. ASSUME NEW p \in Pods, LivenessProbeRestart(p) PROVE WorldOK'
    BY <2>8 DEF LivenessProbeRestart
  <2>9. ASSUME QuorumLost PROVE WorldOK'
    BY <2>9 DEF QuorumLost, VStates
  <2>10. QED
    BY <1>13, <2>1, <2>2, <2>3, <2>4, <2>5, <2>6, <2>7, <2>8, <2>9
    DEF Environment, EnvNext
<1>14. CASE UNCHANGED vars
  BY <1>14 DEF vars, world, ctrl, CtrlOK
<1>16. QED
  BY <1>1, <1>2, <1>3, <1>4, <1>5, <1>6, <1>7, <1>8, <1>9, <1>10,
     <1>11, <1>12, <1>13, <1>14, <1>15
  DEF Next, Controller

\* TypeOK holds in every reachable state of the restart reconciler.
THEOREM TypeCorrect == Spec => []TypeOK
<1>1. Init => TypeOK
  BY TypeInit
<1>2. TypeOK /\ [Next]_vars => TypeOK'
  BY TypeStep
<1>3. QED
  BY <1>1, <1>2, PTL DEF Spec

-----------------------------------------------------------------------------
(***************************************************************************)
(* The strengthening of ClusterStartOnlyWhenClusterDown that is inductive. *)
(***************************************************************************)

\* A vertica process only runs in a running pod of a database node.
ProcInDBPod ==
    \A p \in Pods : vstate[p] # "down" => running[p] /\ p \in DBPods

\* The pod facts satisfy the same, being a snapshot of the world.
FactsConsistent ==
    \A p \in Pods : facts[p].vstate # "down" => facts[p].running /\ p \in DBPods

\* Which steps belong to which path of reconcile.
PathConsistent ==
    /\ (pc = "Idle") <=> (path = "none")
    /\ path = "cluster" => pc \in {"Kill", "ProbeCheck", "ReadOldIPs", "ReIP", "StartDB"}
    /\ pc = "StartDB" => path = "cluster"

\* On the cluster path the facts showed no writable node; a process now up
\* or starting was already starting at the snapshot, its pod is among the
\* down pods, and once the probe checks have passed no down pod was
\* starting.
ClusterPathInv ==
    path = "cluster" =>
      /\ \A p \in Pods : facts[p].vstate # "up"
      /\ \A p \in Pods : vstate[p] \in {"up", "starting"} => facts[p].vstate = "starting"
      /\ \A p \in Pods : facts[p].vstate = "starting" => p \in down
      /\ pc \in {"ReadOldIPs", "ReIP", "StartDB"} =>
            \A p \in down : facts[p].vstate # "starting"

\* The inductive invariant: it holds initially, every step keeps it, and
\* it implies ClusterStartOnlyWhenClusterDown.
IInv == TypeOK /\ ProcInDBPod /\ FactsConsistent /\ PathConsistent /\ ClusterPathInv

\* The part of IInv about the reconciler, without TypeOK and ProcInDBPod.
CtrlInv == FactsConsistent /\ PathConsistent /\ ClusterPathInv

\* Ending a cycle re-establishes the reconciler's part of IInv.
LEMMA EndCycleInv ==
    ASSUME EndCycle
    PROVE  CtrlInv'
BY DEF EndCycle, CtrlInv, FactsConsistent, PathConsistent, ClusterPathInv, NoFacts

\* Starting the re_ip of the unadded pods from consistent facts keeps the
\* reconciler's part of IInv: the cycle is then on the per-node path.
LEMMA ReIPUnaddedPodsInv ==
    ASSUME NEW f,
           \A p \in Pods : f[p].vstate # "down" => f[p].running /\ p \in DBPods,
           NEW at, ReIPUnaddedPods(f, at)
    PROVE  CtrlInv'
<1> DEFINE rp == FindReIPPods(f, TRUE)
           cands == SetATPod(at, FindPodToRunAdmintoolsAny(f))
<1>1. CASE ScheduleOnly \/ rp = {} \/ cands = {}
  BY <1>1, EndCycleInv DEF ReIPUnaddedPods
<1>2. CASE ~(ScheduleOnly \/ rp = {} \/ cands = {})
  BY <1>2 DEF ReIPUnaddedPods, CtrlInv, FactsConsistent, PathConsistent, ClusterPathInv
<1>3. QED
  BY <1>1, <1>2

\* The facts a cycle collects from a world satisfying ProcInDBPod are
\* consistent.
LEMMA CollectConsistent ==
    ASSUME ProcInDBPod
    PROVE  \A p \in Pods : Collect[p].vstate # "down" => Collect[p].running /\ p \in DBPods
BY DEF ProcInDBPod, Collect

\* Every initial state satisfies IInv.
LEMMA IInvInit == Init => IInv
<1> SUFFICES ASSUME Init PROVE IInv
  OBVIOUS
<1>1. TypeOK
  BY TypeInit
<1>2. ProcInDBPod
  BY DEF Init, WorldInit, ProcInDBPod
<1>3. CtrlInv
  BY DEF Init, WorldInit, CtrlInit, CtrlInv, FactsConsistent, PathConsistent, ClusterPathInv, NoFacts
<1>4. QED
  BY <1>1, <1>2, <1>3 DEF IInv, CtrlInv

\* The snapshot of reconcileCluster, taken when no node is up and
\* writable, starts the cluster path with ClusterPathInv.
LEMMA ReconcileClusterInv ==
    ASSUME ProcInDBPod, vstate' = vstate,
           UpNodeAndNotReadOnly(Collect) = {}, ReconcileCluster(Collect)
    PROVE  CtrlInv'
<1> DEFINE f == Collect
<1>1. \A p \in Pods : f[p].vstate # "down" => f[p].running /\ p \in DBPods
  BY CollectConsistent
<1>2. CASE \/ AllPodsRunningAndZeroInstalled(f)
           \/ RunningAndInstalled(f) = {}
           \/ KSafety0 /\ InstalledAndNotRestartable(f) # {}
           \/ FindPodToRunAdmintoolsOffline(f) = {}
  BY <1>2, EndCycleInv DEF ReconcileCluster
<1>3. CASE ~(\/ AllPodsRunningAndZeroInstalled(f)
             \/ RunningAndInstalled(f) = {}
             \/ KSafety0 /\ InstalledAndNotRestartable(f) # {}
             \/ FindPodToRunAdmintoolsOffline(f) = {})
  <2>1. /\ pc' = "Kill" /\ path' = "cluster" /\ facts' = f
        /\ down' = FindRestartablePods(f, RestartReadOnly)
    BY <1>3 DEF ReconcileCluster
  <2>2. FactsConsistent' /\ PathConsistent'
    BY <1>1, <2>1 DEF FactsConsistent, PathConsistent
  <2>3. \A p \in Pods : f[p].vstate # "up"
    BY DEF UpNodeAndNotReadOnly
  <2>4. \A p \in Pods : vstate'[p] \in {"up", "starting"} => f[p].vstate = "starting"
    BY <2>3 DEF Collect
  <2>5. \A p \in Pods : f[p].vstate = "starting" => p \in down'
    BY <1>1, <2>1 DEF FindRestartablePods, UpNode
  <2>6. QED
    BY <2>1, <2>2, <2>3, <2>4, <2>5 DEF CtrlInv, ClusterPathInv
<1>4. QED
  BY <1>2, <1>3

\* The snapshot of reconcileNodes starts the per-node path.
LEMMA ReconcileNodesInv ==
    ASSUME ProcInDBPod, ReconcileNodes(Collect)
    PROVE  CtrlInv'
<1> DEFINE f == Collect
           dp == FindRestartablePods(f, RestartReadOnly)
<1>1. \A p \in Pods : f[p].vstate # "down" => f[p].running /\ p \in DBPods
  BY CollectConsistent
<1>2. CASE dp = {}
  BY <1>1, <1>2, ReIPUnaddedPodsInv DEF ReconcileNodes
<1>3. CASE dp # {} /\ FindPodToRunAdmintoolsAny(f) = {}
  BY <1>3, EndCycleInv DEF ReconcileNodes
<1>4. CASE dp # {} /\ FindPodToRunAdmintoolsAny(f) # {}
  BY <1>1, <1>4 DEF ReconcileNodes, CtrlInv, FactsConsistent, PathConsistent,
                   ClusterPathInv
<1>5. QED
  BY <1>2, <1>3, <1>4

\* What follows a re_ip keeps the reconciler's part of IInv: start_db is
\* only reached on the cluster path, after its probe checks.
LEMMA AfterReIPInv ==
    ASSUME CtrlInv, pc \in {"ReadOldIPs", "ReIP"}, vstate' = vstate, AfterReIP
    PROVE  CtrlInv'
<1>1. CASE path = "cluster" /\ DoesDBExist
  BY <1>1 DEF AfterReIP, CtrlInv, FactsConsistent, PathConsistent, ClusterPathInv
<1>2. CASE ~(path = "cluster" /\ DoesDBExist)
  BY <1>2, EndCycleInv DEF AfterReIP
<1>3. QED
  BY <1>1, <1>2

\* What a step of the world does to the processes: one that runs after
\* it ran before in a running pod of a database node, or is in such a
\* pod now, and one that is up or starting after it was up or starting.
EnvProcStep ==
    \A p \in Pods :
       /\ vstate'[p] # "down" => running'[p] /\ p \in DBPods
       /\ vstate'[p] \in {"up", "starting"} => vstate[p] \in {"up", "starting"}

\* The world's steps leave the reconciler alone and start no process.
LEMMA EnvironmentStep ==
    ASSUME TypeOK, ProcInDBPod, Environment
    PROVE  UNCHANGED ctrl /\ EnvProcStep
<1>1. UNCHANGED ctrl
  BY DEF Environment, EnvNext, PodDeleted, PodScheduled, ProcessCrash, NodeDownDetected,
         StartupCompletes, StartupProbePasses, LivenessProbeRestart, QuorumLost
<1>2. ASSUME NEW q \in Pods, PodDeleted(q) PROVE EnvProcStep
  BY <1>2 DEF PodDeleted, EnvProcStep, ProcInDBPod, TypeOK
<1>3. ASSUME NEW q \in Pods, PodScheduled(q) PROVE EnvProcStep
  BY <1>3 DEF PodScheduled, EnvProcStep, ProcInDBPod, TypeOK
<1>4. ASSUME NEW q \in Pods, ProcessCrash(q) PROVE EnvProcStep
  BY <1>4 DEF ProcessCrash, EnvProcStep, ProcInDBPod, TypeOK
<1>5. ASSUME NEW q \in Pods, NodeDownDetected(q) PROVE EnvProcStep
  BY <1>5 DEF NodeDownDetected, EnvProcStep, ProcInDBPod
<1>6. ASSUME NEW q \in Pods, StartupCompletes(q) PROVE EnvProcStep
  BY <1>6 DEF StartupCompletes, EnvProcStep, ProcInDBPod, TypeOK
<1>7. ASSUME NEW q \in Pods, StartupProbePasses(q) PROVE EnvProcStep
  BY <1>7 DEF StartupProbePasses, EnvProcStep, ProcInDBPod
<1>8. ASSUME NEW q \in Pods, LivenessProbeRestart(q) PROVE EnvProcStep
  BY <1>8 DEF LivenessProbeRestart, EnvProcStep, ProcInDBPod
<1>9. ASSUME QuorumLost PROVE EnvProcStep
  BY <1>9 DEF QuorumLost, EnvProcStep, ProcInDBPod
<1>10. QED
  BY <1>1, <1>2, <1>3, <1>4, <1>5, <1>6, <1>7, <1>8, <1>9 DEF Environment, EnvNext

\* Hence the world's steps keep IInv's parts other than TypeOK.
LEMMA EnvironmentInv ==
    ASSUME TypeOK, ProcInDBPod, CtrlInv, Environment
    PROVE  ProcInDBPod' /\ CtrlInv'
<1>1. UNCHANGED ctrl /\ EnvProcStep
  BY EnvironmentStep
<1>2. ProcInDBPod'
  BY <1>1 DEF EnvProcStep, ProcInDBPod
<1>3. CtrlInv'
  BY <1>1 DEF EnvProcStep, ctrl, CtrlInv, FactsConsistent, PathConsistent,
              ClusterPathInv
<1>4. QED
  BY <1>2, <1>3

\* Every step of the specification keeps IInv.
LEMMA IInvStep ==
    ASSUME IInv, [Next]_vars
    PROVE  IInv'
<1> USE DEF IInv
<1>1. TypeOK'
  BY TypeStep
<1> SUFFICES ProcInDBPod' /\ CtrlInv'
  BY <1>1 DEF CtrlInv
<1>2. CtrlInv
  BY DEF CtrlInv
<1>3. CASE ReconcileDisabled
  BY <1>2, <1>3 DEF ReconcileDisabled, vars, world, ctrl, ProcInDBPod, CtrlInv,
                   FactsConsistent, PathConsistent, ClusterPathInv
<1>4. CASE Reconcile
  <2>1. ProcInDBPod' /\ vstate' = vstate
    BY <1>4 DEF Reconcile, world, ProcInDBPod
  <2>2. CASE UpNodeAndNotReadOnly(Collect) = {} /\ ~ScheduleOnly
    BY <1>4, <2>1, <2>2, ReconcileClusterInv DEF Reconcile
  <2>3. CASE ~(UpNodeAndNotReadOnly(Collect) = {} /\ ~ScheduleOnly)
    BY <1>4, <2>1, <2>3, ReconcileNodesInv DEF Reconcile
  <2>4. QED
    BY <2>2, <2>3
<1>5. CASE KillReadOnlyProcess
  <2>1. PICK p \in toKill : KillReadOnlyProcess!2!(p)
    BY <1>5 DEF KillReadOnlyProcess
  <2>2. CASE running[p]
    BY <1>2, <1>5, <2>1, <2>2 DEF KillReadOnlyProcess, ProcInDBPod, TypeOK, CtrlInv,
                                  FactsConsistent, PathConsistent, ClusterPathInv
  <2>3. CASE ~running[p]
    BY <1>5, <2>1, <2>3, EndCycleInv DEF KillReadOnlyProcess, ProcInDBPod
  <2>4. QED
    BY <2>2, <2>3
<1>6. CASE KillDone
  <2>1. ProcInDBPod'
    BY <1>6 DEF KillDone, world, ProcInDBPod
  <2>2. CASE killed
    BY <1>6, <2>1, <2>2, EndCycleInv DEF KillDone
  <2>3. CASE ~killed
    BY <1>2, <1>6, <2>1, <2>3 DEF KillDone, world, TypeOK, CtrlInv, FactsConsistent,
                                  PathConsistent, ClusterPathInv
  <2>4. QED
    BY <2>2, <2>3
<1>7. CASE ClusterProbeCheck
  <2>1. ProcInDBPod'
    BY <1>7 DEF ClusterProbeCheck, world, ProcInDBPod
  <2>2. CtrlInv'
    BY <1>2, <1>7, EndCycleInv DEF ClusterProbeCheck, world, StartupInProgress, FilterSlowStartup,
                                   FilterNonActiveStartupProbe,
                                   CtrlInv, FactsConsistent, PathConsistent,
                                   ClusterPathInv
  <2>3. QED
    BY <2>1, <2>2
<1>8. CASE NodeProbeCheck
  <2>1. ProcInDBPod'
    BY <1>8 DEF NodeProbeCheck, world, ProcInDBPod
  <2>2. CtrlInv'
    BY <1>2, <1>8, EndCycleInv DEF NodeProbeCheck, CtrlInv, FactsConsistent,
                                   PathConsistent, ClusterPathInv
  <2>3. QED
    BY <2>1, <2>2
<1>9. CASE ListNodes
  <2>1. ProcInDBPod'
    BY <1>9 DEF ListNodes, world, ProcInDBPod
  <2>2. path = "nodes"
    BY <1>2, <1>9 DEF ListNodes, TypeOK, CtrlInv, PathConsistent
  <2>3. CtrlInv'
    BY <1>2, <1>9, <2>2, EndCycleInv DEF ListNodes, CtrlInv, FactsConsistent,
                                         PathConsistent, ClusterPathInv
  <2>4. QED
    BY <2>1, <2>3
<1>10. CASE ReadOldIPs
  <2>1. ProcInDBPod' /\ vstate' = vstate
    BY <1>10 DEF ReadOldIPs, world, ProcInDBPod
  <2>2. CtrlInv'
    BY <1>2, <1>10, <2>1, EndCycleInv, AfterReIPInv
    DEF ReadOldIPs, CtrlInv, FactsConsistent, PathConsistent, ClusterPathInv
  <2>3. QED
    BY <2>1, <2>2
<1>11. CASE ReIP
  <2>1. ProcInDBPod' /\ vstate' = vstate
    BY <1>11 DEF ReIP, ProcInDBPod
  <2>2. CtrlInv'
    BY <1>2, <1>11, <2>1, EndCycleInv, AfterReIPInv DEF ReIP
  <2>3. QED
    BY <2>1, <2>2
<1>12. CASE StartDB
  <2>1. ProcInDBPod'
    BY <1>12 DEF StartDB, ProcInDBPod, TypeOK
  <2>2. QED
    BY <1>12, <2>1, EndCycleInv DEF StartDB
<1>13. CASE RestartNode
  <2>1. ProcInDBPod'
    BY <1>13 DEF RestartNode, ProcInDBPod, TypeOK
  <2>2. path = "nodes"
    BY <1>2, <1>13 DEF RestartNode, TypeOK, CtrlInv, PathConsistent
  <2>3. CtrlInv'
    BY <1>2, <1>13, <2>2, EndCycleInv
    DEF RestartNode, CtrlInv, FactsConsistent, PathConsistent, ClusterPathInv
  <2>4. QED
    BY <2>1, <2>3
<1>14. CASE RemoteCallFails
  BY <1>14, EndCycleInv DEF RemoteCallFails, ProcInDBPod
<1>15. CASE Environment
  BY <1>2, <1>15, EnvironmentInv
<1>16. CASE ReIPAfterRestart
  <2>1. ProcInDBPod'
    BY <1>16 DEF ReIPAfterRestart, world, ProcInDBPod
  <2>2. CtrlInv'
    BY <1>16, CollectConsistent, ReIPUnaddedPodsInv DEF ReIPAfterRestart
  <2>3. QED
    BY <2>1, <2>2
<1>17. CASE UNCHANGED vars
  BY <1>2, <1>17 DEF vars, world, ctrl, ProcInDBPod, CtrlInv, FactsConsistent,
                     PathConsistent, ClusterPathInv
<1>18. QED
  BY <1>3, <1>4, <1>5, <1>6, <1>7, <1>8, <1>9, <1>10, <1>11, <1>12, <1>13,
     <1>14, <1>15, <1>17, <1>16
  DEF Next, Controller

\* reconcileCluster issues start_db only when no vertica process of the
\* database is up or starting, in every behaviour and for every number of
\* pods: IInv holds throughout and implies it.
THEOREM ClusterStartSafe == Spec => []ClusterStartOnlyWhenClusterDown
<1>1. IInv => ClusterStartOnlyWhenClusterDown
  BY DEF IInv, PathConsistent, ClusterPathInv, ClusterStartOnlyWhenClusterDown
<1>2. QED
  BY <1>1, IInvInit, IInvStep, PTL DEF Spec

=============================================================================
