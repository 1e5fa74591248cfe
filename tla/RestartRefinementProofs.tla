------------------------- MODULE RestartRefinementProofs -------------------------
(***************************************************************************)
(* Proof that RestartReconciler implements AbstractRestart, and with it    *)
(* that no start or restart races a livenessProbe.  The abstract guards    *)
(* are about the world at the moment start_db, restart_node, re_ip or a    *)
(* kill takes effect, while the reconciler decided on facts collected      *)
(* earlier; RInv records why those facts are still good enough then.      *)
(***************************************************************************)
EXTENDS RestartReconcilerProofs

\* A snapshot never has an address ahead of the pod's: addresses only grow.
FactsIPBehind == \A p \in Pods : facts[p].ip <= ip[p]

\* Until the cycle itself starts a process, a pod the snapshot saw down or
\* read-only is still down or read-only: nothing else starts vertica.
FactsDownStillDown ==
    pc \notin {"Idle", "Recollect"} =>
      \A p \in Pods : facts[p].vstate \in {"down", "readonly"} =>
                        vstate[p] \in {"down", "readonly"}

\* The down pods a cycle works on are never up and writable in its snapshot
\* (findRestartablePods).
DownNotUp == \A p \in down : facts[p].vstate # "up"

\* The pods killReadOnlyProcesses has still to visit were read-only.
ToKillReadOnly == \A p \in toKill : facts[p].vstate = "readonly"

\* The pods of the map file have an entry in admintools.conf.
ReIPInConf == pc = "ReIP" => \A p \in reipPods : atconf[p] # NoIP

\* Once the probe checks have passed, every down pod still has an active
\* startupProbe; on the per-node path its snapshot showed it down or
\* read-only.
ProbeActiveAfterCheck ==
    /\ path = "cluster" /\ pc \in {"ReadOldIPs", "ReIP", "StartDB"} =>
         \A p \in down : StartupProbeActive(p)
    /\ pc = "RestartNode" =>
         \A p \in down : StartupProbeActive(p) /\ facts[p].vstate \in {"down", "readonly"}

\* The inductive invariant of the refinement proof.
XInv == FactsIPBehind /\ FactsDownStillDown /\ DownNotUp /\ ToKillReadOnly
        /\ ReIPInConf /\ ProbeActiveAfterCheck
RInv == IInv /\ XInv

-----------------------------------------------------------------------------
(***************************************************************************)
(* XInv is inductive relative to IInv.                                     *)
(***************************************************************************)

\* A fresh cycle state ends with XInv.
LEMMA EndCycleX ==
    ASSUME EndCycle, ip' \in [Pods -> IPGen]
    PROVE  XInv'
BY DEF EndCycle, NoFacts, IPGen, XInv, FactsIPBehind, FactsDownStillDown, DownNotUp,
       ToKillReadOnly, ReIPInConf, ProbeActiveAfterCheck

\* A cycle that has just collected its snapshot, with the world as it was,
\* has XInv as long as it is not yet past a probe check.
LEMMA FreshSnapshotX ==
    ASSUME TypeOK, world' = world, facts' = Collect,
           \A p \in down' : facts'[p].vstate # "up",
           \A p \in toKill' : facts'[p].vstate = "readonly",
           pc' \notin {"ReIP", "RestartNode"},
           path' = "cluster" => pc' \notin {"ReadOldIPs", "ReIP", "StartDB"}
    PROVE  XInv'
BY DEF TypeOK, world, Collect, IPGen, XInv, FactsIPBehind, FactsDownStillDown, DownNotUp,
       ToKillReadOnly, ReIPInConf, ProbeActiveAfterCheck

\* The re_ip of the unadded pods, from a snapshot of the current world.
LEMMA ReIPUnaddedPodsX ==
    ASSUME TypeOK, world' = world, NEW at, ReIPUnaddedPods(Collect, at)
    PROVE  XInv'
<1> DEFINE rp == FindReIPPods(Collect, TRUE)
           cands == SetATPod(at, FindPodToRunAdmintoolsAny(Collect))
<1>1. CASE ScheduleOnly \/ rp = {} \/ cands = {}
  BY <1>1, EndCycleX DEF ReIPUnaddedPods, TypeOK, world
<1>2. CASE ~(ScheduleOnly \/ rp = {} \/ cands = {})
  BY <1>2, FreshSnapshotX DEF ReIPUnaddedPods
<1>3. QED
  BY <1>1, <1>2

\* What a step of the world does to the state XInv reads: addresses only
\* grow, nothing down or read-only comes up, a startupProbe only passes
\* on a process that is up, and admintools.conf is untouched.
EnvXStep ==
    /\ atconf' = atconf
    /\ \A p \in Pods :
         /\ ip[p] <= ip'[p]
         /\ vstate[p] \in {"down", "readonly"} => vstate'[p] \in {"down", "readonly"}
         /\ started'[p] => started[p] \/ vstate[p] = "up"

LEMMA EnvironmentX ==
    ASSUME TypeOK, EnvNext
    PROVE  EnvXStep
<1> USE DEF TypeOK, EnvXStep
<1>1. ASSUME NEW q \in Pods, PodDeleted(q) PROVE EnvXStep
  BY <1>1 DEF PodDeleted, IPGen
<1>2. ASSUME NEW q \in Pods, PodScheduled(q) PROVE EnvXStep
  BY <1>2 DEF PodScheduled, IPGen
<1>3. ASSUME NEW q \in Pods, ProcessCrash(q) PROVE EnvXStep
  BY <1>3 DEF ProcessCrash, IPGen
<1>4. ASSUME NEW q \in Pods, NodeDownDetected(q) PROVE EnvXStep
  BY <1>4 DEF NodeDownDetected, IPGen
<1>5. ASSUME NEW q \in Pods, StartupCompletes(q) PROVE EnvXStep
  BY <1>5 DEF StartupCompletes, IPGen
<1>6. ASSUME NEW q \in Pods, StartupProbePasses(q) PROVE EnvXStep
  BY <1>6 DEF StartupProbePasses, IPGen
<1>7. ASSUME NEW q \in Pods, LivenessProbeRestart(q) PROVE EnvXStep
  BY <1>7 DEF LivenessProbeRestart, IPGen
<1>8. ASSUME QuorumLost PROVE EnvXStep
  BY <1>8 DEF QuorumLost, IPGen
<1>9. QED
  BY <1>1, <1>2, <1>3, <1>4, <1>5, <1>6, <1>7, <1>8 DEF EnvNext

\* What follows a re_ip: start_db on the cluster path, where the probe
\* check already holds, or the end of the cycle.
LEMMA AfterReIPX ==
    ASSUME TypeOK, XInv, pc \in {"ReadOldIPs", "ReIP"}, ip' = ip, started' = started,
           vstate' = vstate, reipPods' \in SUBSET Pods, AfterReIP
    PROVE  XInv'
<1>1. CASE path = "cluster" /\ DoesDBExist
  BY <1>1 DEF AfterReIP, XInv, FactsIPBehind, FactsDownStillDown, DownNotUp,
              ToKillReadOnly, ReIPInConf, ProbeActiveAfterCheck, StartupProbeActive
<1>2. CASE ~(path = "cluster" /\ DoesDBExist)
  BY <1>2, EndCycleX DEF AfterReIP, TypeOK
<1>3. QED
  BY <1>1, <1>2

\* Every step of the specification keeps XInv, given IInv.
LEMMA XInvStep ==
    ASSUME IInv, XInv, [Next]_vars
    PROVE  XInv'
<1> USE DEF IInv
<1>0. TypeOK'
  BY TypeStep
<1>1. CASE ReconcileDisabled
  BY <1>1 DEF ReconcileDisabled, vars, world, ctrl, XInv, FactsIPBehind,
              FactsDownStillDown, DownNotUp, ToKillReadOnly, ReIPInConf,
              ProbeActiveAfterCheck, StartupProbeActive
<1>2. CASE Reconcile
  <2> DEFINE f == Collect
             dp == FindRestartablePods(f, RestartReadOnly)
  <2>1. world' = world
    BY <1>2 DEF Reconcile
  <2>2. \A p \in dp : f[p].vstate # "up"
    BY DEF FindRestartablePods, UpNode, ReadOnly
  <2>3. CASE UpNodeAndNotReadOnly(f) = {} /\ ~ScheduleOnly
    <3>1. ReconcileCluster(f)
      BY <1>2, <2>3 DEF Reconcile
    <3>2. CASE \/ AllPodsRunningAndZeroInstalled(f)
               \/ RunningAndInstalled(f) = {}
               \/ KSafety0 /\ InstalledAndNotRestartable(f) # {}
               \/ FindPodToRunAdmintoolsOffline(f) = {}
      BY <2>1, <3>1, <3>2, EndCycleX DEF ReconcileCluster, world, TypeOK
    <3>3. CASE ~(\/ AllPodsRunningAndZeroInstalled(f)
                 \/ RunningAndInstalled(f) = {}
                 \/ KSafety0 /\ InstalledAndNotRestartable(f) # {}
                 \/ FindPodToRunAdmintoolsOffline(f) = {})
      BY <2>1, <2>2, <3>1, <3>3, FreshSnapshotX DEF ReconcileCluster, ReadOnly
    <3>4. QED
      BY <3>2, <3>3
  <2>4. CASE ~(UpNodeAndNotReadOnly(f) = {} /\ ~ScheduleOnly)
    <3>1. ReconcileNodes(f)
      BY <1>2, <2>4 DEF Reconcile
    <3>2. CASE dp = {}
      BY <2>1, <3>1, <3>2, ReIPUnaddedPodsX DEF ReconcileNodes
    <3>3. CASE dp # {} /\ FindPodToRunAdmintoolsAny(f) = {}
      BY <2>1, <3>1, <3>3, EndCycleX DEF ReconcileNodes, world, TypeOK
    <3>4. CASE dp # {} /\ FindPodToRunAdmintoolsAny(f) # {}
      BY <2>1, <2>2, <3>1, <3>4, FreshSnapshotX DEF ReconcileNodes
    <3>5. QED
      BY <3>2, <3>3, <3>4
  <2>5. QED
    BY <2>3, <2>4
<1>3. CASE KillReadOnlyProcess
  <2>1. PICK p \in toKill : KillReadOnlyProcess!2!(p)
    BY <1>3 DEF KillReadOnlyProcess
  <2>2. CASE running[p]
    BY <1>3, <2>1, <2>2 DEF KillReadOnlyProcess, TypeOK, XInv, FactsIPBehind,
                            FactsDownStillDown, DownNotUp, ToKillReadOnly, ReIPInConf,
                            ProbeActiveAfterCheck
  <2>3. CASE ~running[p]
    BY <1>3, <2>1, <2>3, EndCycleX DEF KillReadOnlyProcess, TypeOK
  <2>4. QED
    BY <2>2, <2>3
<1>4. CASE KillDone
  BY <1>4, EndCycleX DEF KillDone, world, TypeOK, XInv, FactsIPBehind,
                         FactsDownStillDown, DownNotUp, ToKillReadOnly, ReIPInConf,
                         ProbeActiveAfterCheck
<1>5. CASE ClusterProbeCheck
  BY <1>5, EndCycleX DEF ClusterProbeCheck, world, TypeOK, FilterNonActiveStartupProbe,
                         IsStartupProbeActive, StartupProbeActive, XInv, FactsIPBehind,
                         FactsDownStillDown, DownNotUp, ToKillReadOnly, ReIPInConf,
                         ProbeActiveAfterCheck
<1>6. CASE NodeProbeCheck
  <2> DEFINE ready == FilterSlowStartup(FilterNonActiveStartupProbe(down), facts)
  <2>1. CASE ready = {}
    BY <1>6, <2>1, EndCycleX DEF NodeProbeCheck, TypeOK, world
  <2>2. CASE ready # {}
    <3>1. /\ pc = "ProbeCheck" /\ pc' = "RestartNode" /\ down' = ready
          /\ UNCHANGED <<path, facts, atPod, pods0, toKill, killed, reipPods>>
          /\ world' = world
      BY <1>6, <2>2 DEF NodeProbeCheck
    <3>2. \A p \in ready : StartupProbeActive(p) /\ p \in down
      BY DEF FilterSlowStartup, FilterNonActiveStartupProbe, IsStartupProbeActive,
             StartupProbeActive
    <3>3. \A p \in ready : facts[p].vstate \in {"down", "readonly"}
      BY ConstantsAssumption DEF FilterSlowStartup, FilterNonActiveStartupProbe,
                                 StartupInProgress, XInv, DownNotUp,
                                 TypeOK, FactRec, VStates
    <3>4. (FactsIPBehind /\ FactsDownStillDown /\ ToKillReadOnly /\ ReIPInConf)'
      BY <3>1 DEF world, XInv, FactsIPBehind, FactsDownStillDown, ToKillReadOnly,
                  ReIPInConf
    <3>5. (DownNotUp /\ ProbeActiveAfterCheck)'
      BY <3>1, <3>2, <3>3 DEF world, DownNotUp, ProbeActiveAfterCheck,
                              StartupProbeActive
    <3>6. QED
      BY <3>4, <3>5 DEF XInv
  <2>3. QED
    BY <2>1, <2>2
<1>7. CASE ListNodes
  BY <1>7, EndCycleX DEF ListNodes, world, TypeOK, ReadOnly, XInv, FactsIPBehind,
                         FactsDownStillDown, DownNotUp, ToKillReadOnly, ReIPInConf,
                         ProbeActiveAfterCheck
<1>8. CASE ReadOldIPs
  <2>1. CASE ~running[atPod]
    BY <1>8, <2>1, EndCycleX DEF ReadOldIPs, world, TypeOK
  <2>2. CASE running[atPod]
    <3> DEFINE m == GenMapFile(atconf, reipPods, facts)
    <3>1. CASE ~m.ok
      BY <1>8, <2>2, <3>1, EndCycleX DEF ReadOldIPs, world, TypeOK
    <3>2. CASE m.ok /\ ~m.ipChanging
      BY <1>0, <1>8, <2>2, <3>2, AfterReIPX, ConstantsAssumption DEF ReadOldIPs, world, TypeOK
    <3>3. CASE m.ok /\ m.ipChanging
      <4>1. /\ pc = "ReadOldIPs" /\ pc' = "ReIP" /\ reipPods' = m.mapped /\ world' = world
            /\ UNCHANGED <<path, facts, atPod, down, pods0, toKill, killed>>
        BY <1>8, <2>2, <3>3 DEF ReadOldIPs
      <4>2. \A p \in m.mapped : atconf[p] # NoIP
        BY DEF GenMapFile
      <4>3. QED
        BY <4>1, <4>2 DEF world, XInv, FactsIPBehind, FactsDownStillDown, DownNotUp,
                          ToKillReadOnly, ReIPInConf, ProbeActiveAfterCheck,
                          StartupProbeActive
    <3>4. QED
      BY <3>1, <3>2, <3>3
  <2>3. QED
    BY <2>1, <2>2
<1>9. CASE ReIP
  <2>1. CASE ~running[atPod] \/ (~ReIPForce /\ \E p \in Pods : vstate[p] # "down")
    BY <1>9, <2>1, EndCycleX DEF ReIP, TypeOK
  <2>2. CASE ~(~running[atPod] \/ (~ReIPForce /\ \E p \in Pods : vstate[p] # "down"))
    BY <1>0, <1>9, <2>2, AfterReIPX, ConstantsAssumption DEF ReIP, TypeOK
  <2>3. QED
    BY <2>1, <2>2
<1>10. CASE StartDB
  BY <1>10, EndCycleX DEF StartDB, TypeOK
<1>11. CASE RestartNode
  <2>1. CASE ~running[atPod]
    BY <1>11, <2>1, EndCycleX DEF RestartNode, TypeOK
  <2>2. CASE running[atPod]
    <3> DEFINE ok == {p \in down : /\ PrimaryQuorum
                                   /\ running[p] /\ vstate[p] = "down"
                                   /\ ip[p] = facts[p].ip
                                   /\ ~nodeUp[p]}
    <3>1. CASE ok # down \/ Cardinality(pods0) > Cardinality(down)
      BY <1>11, <2>2, <3>1, EndCycleX DEF RestartNode, TypeOK
    <3>2. CASE ~(ok # down \/ Cardinality(pods0) > Cardinality(down))
      BY <1>11, <2>2, <3>2 DEF RestartNode, XInv, FactsIPBehind,
                              FactsDownStillDown, DownNotUp, ToKillReadOnly, ReIPInConf,
                              ProbeActiveAfterCheck
    <3>3. QED
      BY <3>1, <3>2
  <2>3. QED
    BY <2>1, <2>2
<1>12. CASE RemoteCallFails
  BY <1>12, EndCycleX DEF RemoteCallFails, TypeOK
<1>13. CASE ReIPAfterRestart
  BY <1>13, ReIPUnaddedPodsX DEF ReIPAfterRestart
<1>14. CASE Environment
  <2>1. EnvXStep /\ UNCHANGED ctrl
    BY <1>14, EnvironmentX DEF Environment
  <2>2. FactsIPBehind'
    BY <1>0, <2>1 DEF EnvXStep, ctrl, XInv, FactsIPBehind, TypeOK, FactRec, IPGen
  <2>3. FactsDownStillDown'
    BY <2>1 DEF EnvXStep, ctrl, XInv, FactsDownStillDown
  <2>4. (DownNotUp /\ ToKillReadOnly /\ ReIPInConf)'
    BY <2>1 DEF EnvXStep, ctrl, XInv, DownNotUp, ToKillReadOnly, ReIPInConf
  <2>5. ASSUME path = "cluster", pc \in {"ReadOldIPs", "ReIP", "StartDB"}
        PROVE  \A p \in down : vstate[p] # "up"
    BY <2>5, ConstantsAssumption DEF ClusterPathInv, TypeOK
  <2>6. ASSUME pc = "RestartNode"
        PROVE  \A p \in down : vstate[p] # "up"
    BY <2>6, ConstantsAssumption DEF XInv, ProbeActiveAfterCheck, FactsDownStillDown, TypeOK
  <2>7. ProbeActiveAfterCheck'
    <3>1. ASSUME NEW p \in down, StartupProbeActive(p), vstate[p] # "up"
          PROVE  StartupProbeActive(p)'
      BY <2>1, <3>1, ConstantsAssumption DEF EnvXStep, StartupProbeActive, TypeOK
    <3>2. QED
      BY <2>1, <2>5, <2>6, <3>1 DEF ctrl, XInv, ProbeActiveAfterCheck
  <2>8. QED
    BY <2>2, <2>3, <2>4, <2>7 DEF XInv
<1>15. CASE UNCHANGED vars
  BY <1>15 DEF vars, world, ctrl, XInv, FactsIPBehind,
               FactsDownStillDown, DownNotUp, ToKillReadOnly, ReIPInConf,
               ProbeActiveAfterCheck, StartupProbeActive
<1>16. QED
  BY <1>1, <1>2, <1>3, <1>4, <1>5, <1>6, <1>7, <1>8, <1>9, <1>10, <1>11,
     <1>12, <1>13, <1>14, <1>15
  DEF Next, Controller

\* RInv holds initially and is kept by every step.
LEMMA RInvInit == Init => RInv
<1> SUFFICES ASSUME Init PROVE XInv
  BY IInvInit DEF RInv
<1>1. TypeOK
  BY TypeInit
<1>2. QED
  BY <1>1, ConstantsAssumption DEF Init, WorldInit, CtrlInit, NoFacts, TypeOK, IPGen,
     XInv, FactsIPBehind, FactsDownStillDown, DownNotUp, ToKillReadOnly, ReIPInConf,
     ProbeActiveAfterCheck

LEMMA RInvStep ==
    ASSUME RInv, [Next]_vars
    PROVE  RInv'
BY IInvStep, XInvStep DEF RInv

-----------------------------------------------------------------------------
(***************************************************************************)
(* The refinement: each step is an AbstractRestart step on the world, or  *)
(* leaves the world unchanged.                                             *)
(***************************************************************************)

\* The world's own steps are the same in both specifications.
LEMMA EnvNextIsAbstract == EnvNext => Abs!EnvNext
<1> SUFFICES ASSUME EnvNext PROVE Abs!EnvNext
  OBVIOUS
<1>1. ASSUME NEW p \in Pods, PodDeleted(p) PROVE Abs!PodDeleted(p)
  BY <1>1 DEF PodDeleted, Abs!PodDeleted
<1>2. ASSUME NEW p \in Pods, PodScheduled(p) PROVE Abs!PodScheduled(p)
  BY <1>2 DEF PodScheduled, Abs!PodScheduled, IPGen, Abs!IPGen
<1>3. ASSUME NEW p \in Pods, ProcessCrash(p) PROVE Abs!ProcessCrash(p)
  BY <1>3 DEF ProcessCrash, Abs!ProcessCrash
<1>4. ASSUME NEW p \in Pods, NodeDownDetected(p) PROVE Abs!NodeDownDetected(p)
  BY <1>4 DEF NodeDownDetected, Abs!NodeDownDetected
<1>5. ASSUME NEW p \in Pods, StartupCompletes(p) PROVE Abs!StartupCompletes(p)
  BY <1>5 DEF StartupCompletes, Abs!StartupCompletes
<1>6. ASSUME NEW p \in Pods, StartupProbePasses(p) PROVE Abs!StartupProbePasses(p)
  BY <1>6 DEF StartupProbePasses, Abs!StartupProbePasses
<1>7. ASSUME NEW p \in Pods, LivenessProbeRestart(p) PROVE Abs!LivenessProbeRestart(p)
  BY <1>7 DEF LivenessProbeRestart, Abs!LivenessProbeRestart
<1>8. ASSUME QuorumLost PROVE Abs!QuorumLost
  BY <1>8 DEF QuorumLost, Abs!QuorumLost, PrimaryQuorum, Abs!PrimaryQuorum, Cardinality,
              Abs!Cardinality
<1>9. QED
  BY <1>1, <1>2, <1>3, <1>4, <1>5, <1>6, <1>7, <1>8 DEF EnvNext, Abs!EnvNext

LEMMA RefinementStep ==
    ASSUME RInv, [Next]_vars
    PROVE  [Abs!Next]_world
<1> USE DEF RInv, IInv
<1>1. CASE ReconcileDisabled \/ Reconcile \/ KillDone \/ ClusterProbeCheck
           \/ NodeProbeCheck \/ ListNodes \/ ReadOldIPs \/ ReIPAfterRestart
  BY <1>1 DEF ReconcileDisabled, Reconcile, KillDone, ClusterProbeCheck,
              NodeProbeCheck, ListNodes, ReadOldIPs, ReIPAfterRestart, vars
<1>2. CASE KillReadOnlyProcess
  <2>1. PICK p \in toKill : KillReadOnlyProcess!2!(p)
    BY <1>2 DEF KillReadOnlyProcess
  <2>2. p \in Pods /\ pc = "Kill"
    BY <1>2, ConstantsAssumption DEF KillReadOnlyProcess, TypeOK
  <2>3. CASE running[p] /\ vstate[p] = "down"
    <3>1. vstate' = vstate
      BY <2>1, <2>2, <2>3 DEF TypeOK
    <3>2. QED
      BY <1>2, <2>1, <2>3, <3>1 DEF KillReadOnlyProcess, world
  <2>4. CASE running[p] /\ vstate[p] # "down"
    <3>1. vstate[p] = "readonly"
      BY <2>2, <2>4 DEF XInv, ToKillReadOnly, FactsDownStillDown
    <3>2. Abs!KillReadOnly(p)
      BY <1>2, <2>1, <2>4, <3>1 DEF KillReadOnlyProcess, Abs!KillReadOnly
    <3>3. QED
      BY <2>2, <3>2 DEF Abs!Next
  <2>5. CASE ~running[p]
    BY <1>2, <2>1, <2>5 DEF KillReadOnlyProcess, world
  <2>6. QED
    BY <2>3, <2>4, <2>5
<1>3. CASE ReIP
  <2>1. CASE ~running[atPod] \/ (~ReIPForce /\ \E p \in Pods : vstate[p] # "down")
    BY <1>3, <2>1 DEF ReIP, world
  <2>2. CASE ~(~running[atPod] \/ (~ReIPForce /\ \E p \in Pods : vstate[p] # "down"))
    <3>1. atconf' = [p \in Pods |-> IF p \in reipPods THEN facts[p].ip ELSE atconf[p]]
      BY <1>3, <2>2 DEF ReIP
    <3>2. \A p \in reipPods : atconf[p] # NoIP /\ facts[p].ip \in 0 .. ip[p]
      BY <1>3, ConstantsAssumption DEF ReIP, XInv, ReIPInConf, FactsIPBehind, TypeOK,
                                       FactRec, IPGen
    <3>3. atconf' \in [Pods -> IPGen \cup {NoIP}]
      BY <3>1, ConstantsAssumption DEF TypeOK, FactRec
    <3>4. Abs!RemapAddresses
      BY <1>3, <2>2, <3>1, <3>2, <3>3 DEF ReIP, Abs!RemapAddresses, Abs!IPGen, IPGen,
                                          Abs!NoIP, NoIP
    <3>5. QED
      BY <3>4 DEF Abs!Next
  <2>3. QED
    BY <2>1, <2>2
<1>4. CASE StartDB
  <2>1. CASE ~running[atPod]
    BY <1>4, <2>1 DEF StartDB, world
  <2>2. CASE running[atPod]
    <3> DEFINE ok == {p \in down : /\ running[p] /\ vstate[p] = "down"
                                   /\ ip[p] = facts[p].ip
                                   /\ atconf[p] = ip[p]}
    <3>1. pc = "StartDB" /\ path = "cluster"
      BY <1>4 DEF StartDB, PathConsistent
    <3>2. \A p \in Pods : vstate[p] \notin {"up", "starting"}
      BY <3>1 DEF PathConsistent, ClusterPathInv
    <3>3. \A p \in ok : StartupProbeActive(p)
      BY <3>1 DEF XInv, ProbeActiveAfterCheck
    <3>4. ok \in SUBSET DBPods
      BY DEF TypeOK
    <3>5. Abs!StartCluster(ok)
      BY <1>4, <2>2, <3>2, <3>3, <3>4 DEF StartDB, Abs!StartCluster, Abs!StartupProbeActive,
                                          StartupProbeActive
    <3>6. QED
      BY <3>4, <3>5 DEF Abs!Next
  <2>3. QED
    BY <2>1, <2>2
<1>5. CASE RestartNode
  <2>1. CASE ~running[atPod]
    BY <1>5, <2>1 DEF RestartNode, world
  <2>2. CASE running[atPod]
    <3> DEFINE ok == {p \in down : /\ PrimaryQuorum
                                   /\ running[p] /\ vstate[p] = "down"
                                   /\ ip[p] = facts[p].ip
                                   /\ ~nodeUp[p]}
    <3>1. /\ vstate' = [p \in Pods |-> IF p \in ok THEN "starting" ELSE vstate[p]]
          /\ atconf' = [p \in Pods |-> IF p \in ok THEN facts[p].ip ELSE atconf[p]]
          /\ UNCHANGED <<running, ip, nodeUp, started, faults, autoRestart>>
          /\ pc = "RestartNode"
      BY <1>5, <2>2 DEF RestartNode
    <3>2. CASE ok = {}
      BY <3>1, <3>2 DEF TypeOK, world
    <3>3. CASE ok # {}
      <4>1. PrimaryQuorum
        BY <3>3
      <4>2. \A p \in ok : StartupProbeActive(p)
        BY <3>1 DEF XInv, ProbeActiveAfterCheck
      <4>3. atconf' = [p \in Pods |-> IF p \in ok THEN ip[p] ELSE atconf[p]]
        BY <3>1
      <4>4. ok \in SUBSET DBPods
        BY DEF TypeOK
      <4>5. \A p \in ok : running[p] /\ vstate[p] = "down" /\ ~nodeUp[p]
        OBVIOUS
      <4>6. Abs!RestartNodes(ok)
        BY <3>1, <4>1, <4>2, <4>3, <4>4, <4>5
        DEF Abs!RestartNodes, Abs!PrimaryQuorum, PrimaryQuorum, Abs!StartupProbeActive,
            Cardinality, Abs!Cardinality,
            StartupProbeActive
      <4>7. QED
        BY <4>4, <4>6 DEF Abs!Next
    <3>4. QED
      BY <3>2, <3>3
  <2>3. QED
    BY <2>1, <2>2
<1>6. CASE RemoteCallFails
  BY <1>6 DEF RemoteCallFails, Abs!Next, Abs!CallFails
<1>7. CASE Environment
  BY <1>7, EnvNextIsAbstract DEF Environment, Abs!Next
<1>8. CASE UNCHANGED vars
  BY <1>8 DEF vars
<1>9. QED
  BY <1>1, <1>2, <1>3, <1>4, <1>5, <1>6, <1>7, <1>8 DEF Next, Controller

\* Every behaviour of the restart reconciler, with its cycle state hidden,
\* is a behaviour of AbstractRestart: whatever the world does between the
\* snapshot and the remote call, start_db, restart_node, re_ip and the
\* kills only ever take effect under the abstract guards.
THEOREM Refinement == Spec => RefinesAbstractRestart
<1>1. Init => Abs!WorldInit
  BY DEF Init, WorldInit, Abs!WorldInit, IPGen, Abs!IPGen, NoIP, Abs!NoIP
<1>2. RInv /\ [Next]_vars => [Abs!Next]_(Abs!world)
  BY RefinementStep DEF world, Abs!world
<1>3. RInv /\ [Next]_vars => RInv'
  BY RInvStep
<1>4. QED
  BY <1>1, <1>2, <1>3, RInvInit, PTL DEF Spec, RefinesAbstractRestart, Abs!Spec

\* start_db and restart_node never target a pod whose startupProbe has
\* passed, for every number of pods: the probe filters of reconcileCluster
\* and restartPods keep holding until the call, since only a process that
\* is up can pass its startupProbe and none of the pods they let through
\* can be up by then.
THEOREM NoLivenessProbeRace == Spec => []NoRestartRacingLivenessProbe
<1>1. RInv => NoRestartRacingLivenessProbe
  BY DEF RInv, IInv, PathConsistent, XInv, ProbeActiveAfterCheck,
         NoRestartRacingLivenessProbe, StartupProbeActive, IsStartupProbeActive
<1>2. QED
  BY <1>1, RInvInit, RInvStep, PTL DEF Spec

=============================================================================
