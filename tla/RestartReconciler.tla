------------------------- MODULE RestartReconciler -------------------------
(***************************************************************************)
(* The restart reconciler of the Vertica operator                          *)
(* (src/pkg/controllers/vdb/restart_reconciler.go) acting on the world of  *)
(* VerticaCluster.                                                         *)
(*                                                                         *)
(* One reconcile cycle runs at a time (controller-runtime serialises them  *)
(* per object).  A cycle collects the pod facts, decides, and then issues  *)
(* a sequence of blocking remote calls; the world may change between any   *)
(* two of them, so every remote call is a step of its own and the cycle's  *)
(* position is pc.  The pure decisions between two remote calls are part   *)
(* of the step that precedes them.                                         *)
(***************************************************************************)
EXTENDS VerticaCluster

\* Steps of one reconcile cycle; every one but "Idle" issues a remote call.
PCs == {"Idle", "Kill", "ProbeCheck", "ListNodes", "ReadOldIPs", "ReIP",
        "StartDB", "RestartNode", "Recollect"}

VARIABLES
    pc,           \* step of the current cycle
    path,         \* "cluster" (reconcileCluster) or "nodes" (reconcileNodes)
    facts,        \* the pod facts collected at the start of the cycle
    atPod,        \* r.ATPod
    down,         \* the downPods list being worked on
    pods0,        \* the pods list restartPods was called with
    toKill,       \* read-only pods killReadOnlyProcesses has still to visit
    killed,       \* killedAtLeastOnePid
    reipPods      \* the pods handed to reipNodes, then those in the map file

ctrl == <<pc, path, facts, atPod, down, pods0, toKill, killed, reipPods>>
vars == <<world, ctrl>>

FactRec == [running : BOOLEAN, ip : IPGen, vstate : VStates]
NoFacts == [p \in Pods |-> [running |-> FALSE, ip |-> 0, vstate |-> "down"]]

-----------------------------------------------------------------------------
(***************************************************************************)
(* Pod facts (PodFacts, pkg/controllers/vdb/podfacts.go, not in this      *)
(* source tree: modelled from the spec).  A snapshot records, per pod,     *)
(* whether it runs, its address and its process state; installation and    *)
(* database membership do not change while the reconciler runs.           *)
(***************************************************************************)
Collect == [p \in Pods |-> [running |-> running[p], ip |-> ip[p],
                            vstate |-> vstate[p]]]

UpNode(f, p) == f[p].vstate \in {"up", "readonly"}
ReadOnly(f, p) == f[p].vstate = "readonly"
StartupInProgress(f, p) == f[p].vstate = "starting"

UpNodeAndNotReadOnly(f) == {p \in Pods : f[p].vstate = "up"}

FindRestartablePods(f, restartReadOnly) ==
    {p \in DBPods : f[p].running /\ (~UpNode(f, p) \/ (restartReadOnly /\ ReadOnly(f, p)))}

FindReIPPods(f, onlyPodsWithoutDBs) ==
    {p \in InstalledPods : f[p].running /\ ~(onlyPodsWithoutDBs /\ p \in DBPods)}

RunningAndInstalled(f) == {p \in InstalledPods : f[p].running}

InstalledAndNotRestartable(f) == {p \in InstalledPods : ~f[p].running}

AllPodsRunningAndZeroInstalled(f) ==
    (\A p \in Pods : f[p].running) /\ InstalledPods = {}

FindPodToRunAdmintoolsOffline(f) ==
    {p \in InstalledPods : f[p].running /\ ~UpNode(f, p)}

\* The candidates, best first: up and writable, up, installed and running.
FindPodToRunAdmintoolsAny(f) ==
    LET writable == UpNodeAndNotReadOnly(f)
        up == {p \in Pods : UpNode(f, p)}
    IN  IF writable # {} THEN writable
        ELSE IF up # {} THEN up
        ELSE RunningAndInstalled(f)

DoesDBExist == DBPods # {}

-----------------------------------------------------------------------------
(***************************************************************************)
(* Helpers of restart_reconciler.go.                                       *)
(***************************************************************************)

\* Mutant of IsStartupProbeActive: the Started status is read inverted.
MutIsStartupProbeActiveInverted(p) == ~LivenessProbeSet \/ started[p]

\* isStartupProbeActive: with no livenessProbe it is always active;
\* otherwise the startupProbe is active until the container is Started.
IsStartupProbeActive(p) == ~LivenessProbeSet \/ ~started[p]

\* filterNonActiveStartupProbe: the pods whose startupProbe is still active.
FilterNonActiveStartupProbe(pods) == {p \in pods : IsStartupProbeActive(p)}

\* filterSlowStartup: the pods the facts do not show starting up.
FilterSlowStartup(pods, f) == {p \in pods : ~StartupInProgress(f, p)}

\* setATPod: keep the ATPod if one is set, else pick one of the candidates.
SetATPod(at, cands) == IF at # NoPod THEN {at} ELSE cands

\* genMapFile: ok is false when no pod qualifies or one is not running;
\* pods without an entry in admintools.conf are skipped; ipChanging says
\* whether some entry moves.  mapped is the set of pods in the map file.
GenMapFile(oldIPs, pods, f) ==
    LET mapped == {p \in pods : oldIPs[p] # NoIP}
    IN  [ok |-> pods # {} /\ \A p \in pods : f[p].running,
         ipChanging |-> \E p \in mapped : oldIPs[p] # f[p].ip,
         mapped |-> mapped]

\* The end of a cycle, whatever it returns: the reconciler object and
\* its pod facts are discarded.
EndCycle ==
    /\ pc' = "Idle"
    /\ path' = "none"
    /\ facts' = NoFacts
    /\ atPod' = NoPod
    /\ down' = {}
    /\ pods0' = {}
    /\ toKill' = {}
    /\ killed' = FALSE
    /\ reipPods' = {}

\* The pods not yet added to the database get their address fixed by
\* re_ip (reconcileNodes, after the restart of down pods).  at is the
\* ATPod already chosen this cycle, if any (setATPod keeps it).
ReIPUnaddedPods(f, at) ==
    LET rp == FindReIPPods(f, TRUE)
        cands == SetATPod(at, FindPodToRunAdmintoolsAny(f))
    IN  IF ScheduleOnly \/ rp = {} \/ cands = {}
        THEN EndCycle
        ELSE /\ \E a \in cands : atPod' = a
             /\ pc' = "ReadOldIPs"
             /\ path' = "nodes"
             /\ facts' = f
             /\ reipPods' = rp
             /\ down' = {}
             /\ pods0' = {}
             /\ toKill' = {}
             /\ killed' = FALSE

\* What reipNodes leads to when it does not abort: start_db on the
\* cluster path if a database exists, the end of the cycle otherwise.
AfterReIP ==
    IF path = "cluster" /\ DoesDBExist
    THEN /\ pc' = "StartDB"
         /\ UNCHANGED <<path, facts, atPod, down, pods0, toKill, killed, reipPods>>
    ELSE EndCycle

-----------------------------------------------------------------------------
(***************************************************************************)
(* The reconciler's steps.                                                 *)
(***************************************************************************)

\* reconcileCluster up to the first remote call: the waits on installed
\* and running pods, the k-safety 0 quorum wait, and the choice of an
\* ATPod with no vertica process.
\* Mutant of ReconcileCluster: the k-safety 0 wait for every installed
\* pod is missing.
MutReconcileClusterNoKSafety0Wait(f) ==
    IF \/ AllPodsRunningAndZeroInstalled(f)
       \/ RunningAndInstalled(f) = {}
       \/ FindPodToRunAdmintoolsOffline(f) = {}
    THEN EndCycle
    ELSE LET dp == FindRestartablePods(f, RestartReadOnly) IN
         /\ \E a \in FindPodToRunAdmintoolsOffline(f) : atPod' = a
         /\ pc' = "Kill"
         /\ path' = "cluster"
         /\ facts' = f
         /\ down' = dp
         /\ pods0' = dp
         /\ toKill' = {p \in dp : ReadOnly(f, p)}
         /\ killed' = FALSE
         /\ reipPods' = {}

ReconcileCluster(f) ==
    IF \/ AllPodsRunningAndZeroInstalled(f)
       \/ RunningAndInstalled(f) = {}
       \/ KSafety0 /\ InstalledAndNotRestartable(f) # {}
       \/ FindPodToRunAdmintoolsOffline(f) = {}
    THEN EndCycle
    ELSE LET dp == FindRestartablePods(f, RestartReadOnly) IN
         /\ \E a \in FindPodToRunAdmintoolsOffline(f) : atPod' = a
         /\ pc' = "Kill"
         /\ path' = "cluster"
         /\ facts' = f
         /\ down' = dp
         /\ pods0' = dp
         /\ toKill' = {p \in dp : ReadOnly(f, p)}
         /\ killed' = FALSE
         /\ reipPods' = {}

\* reconcileNodes up to the first remote call: the down pods and an ATPod,
\* or, when no pod is down, straight to the re_ip of unadded pods.
ReconcileNodes(f) ==
    LET dp == FindRestartablePods(f, RestartReadOnly) IN
    IF dp = {} THEN ReIPUnaddedPods(f, NoPod)
    ELSE IF FindPodToRunAdmintoolsAny(f) = {} THEN EndCycle
    ELSE /\ \E a \in FindPodToRunAdmintoolsAny(f) : atPod' = a
         /\ pc' = "ListNodes"
         /\ path' = "nodes"
         /\ facts' = f
         /\ down' = dp
         /\ pods0' = dp
         /\ toKill' = {}
         /\ killed' = FALSE
         /\ reipPods' = {}

\* Reconcile with AutoRestartVertica off: only a status condition is
\* written.
ReconcileDisabled ==
    /\ pc = "Idle"
    /\ ~autoRestart
    /\ UNCHANGED vars

\* Mutant of Reconcile: the cluster path is also taken with one writable
\* node up (an off-by-one in the count test).
MutReconcileOneUpCountsAsDown ==
    /\ pc = "Idle"
    /\ autoRestart
    /\ LET f == Collect IN
       IF Cardinality(UpNodeAndNotReadOnly(f)) <= 1 /\ ~ScheduleOnly
       THEN ReconcileCluster(f)
       ELSE ReconcileNodes(f)
    /\ UNCHANGED world

\* Reconcile: collect the pod facts; the cluster path when no node is up
\* and writable (unless ScheduleOnly), the per-node path otherwise.
Reconcile ==
    /\ pc = "Idle"
    /\ autoRestart
    /\ LET f == Collect IN
       IF UpNodeAndNotReadOnly(f) = {} /\ ~ScheduleOnly
       THEN ReconcileCluster(f)
       ELSE ReconcileNodes(f)
    /\ UNCHANGED world

\* One iteration of killReadOnlyProcesses: SIGKILL every vertica process
\* of a pod the facts show read-only.  The pods are visited in map order.
\* Exec into a pod that is not running fails and aborts the cycle.
KillReadOnlyProcess ==
    /\ pc = "Kill"
    /\ \E p \in toKill :
         IF running[p]
         THEN /\ toKill' = toKill \ {p}
              /\ killed' = (killed \/ vstate[p] # "down")
              /\ vstate' = [vstate EXCEPT ![p] = "down"]
              /\ UNCHANGED <<pc, path, facts, atPod, down, pods0, reipPods>>
         ELSE EndCycle /\ UNCHANGED vstate
    /\ UNCHANGED <<running, ip, nodeUp, started, atconf, faults, autoRestart>>

\* The end of killReadOnlyProcesses: requeue if a process was killed.
KillDone ==
    /\ pc = "Kill"
    /\ toKill = {}
    /\ IF killed
       THEN EndCycle
       ELSE /\ pc' = "ProbeCheck"
            /\ UNCHANGED <<path, facts, atPod, down, pods0, toKill, killed, reipPods>>
    /\ UNCHANGED world

\* Mutant of ClusterProbeCheck: the wait on slow-starting pods is dropped.
MutClusterProbeCheckNoSlowStartup ==
    /\ pc = "ProbeCheck"
    /\ path = "cluster"
    /\ IF FilterNonActiveStartupProbe(down) # down
       THEN EndCycle
       ELSE /\ pc' = "ReadOldIPs"
            /\ reipPods' = FindReIPPods(facts, FALSE)
            /\ UNCHANGED <<path, facts, atPod, down, pods0, toKill, killed>>
    /\ UNCHANGED world

\* reconcileCluster: filterNonActiveStartupProbe (reads the pods now) and
\* filterSlowStartup (reads the facts); wait if either removes a pod,
\* otherwise go on to reipNodes with every running installed pod.
ClusterProbeCheck ==
    /\ pc = "ProbeCheck"
    /\ path = "cluster"
    /\ IF \/ FilterNonActiveStartupProbe(down) # down
          \/ FilterSlowStartup(down, facts) # down
       THEN EndCycle
       ELSE /\ pc' = "ReadOldIPs"
            /\ reipPods' = FindReIPPods(facts, FALSE)
            /\ UNCHANGED <<path, facts, atPod, down, pods0, toKill, killed>>
    /\ UNCHANGED world

\* Mutant of NodeProbeCheck: filterNonActiveStartupProbe is left out of
\* restartPods.
MutNodeProbeCheckNoProbeFilter ==
    /\ pc = "ProbeCheck"
    /\ path = "nodes"
    /\ LET ready == FilterSlowStartup(down, facts)
       IN  IF ready = {}
           THEN EndCycle
           ELSE /\ pc' = "RestartNode"
                /\ down' = ready
                /\ UNCHANGED <<path, facts, atPod, pods0, toKill, killed, reipPods>>
    /\ UNCHANGED world

\* restartPods: the same two filters, which here drop the pods; wait if
\* none is left.
NodeProbeCheck ==
    /\ pc = "ProbeCheck"
    /\ path = "nodes"
    /\ LET ready == FilterSlowStartup(FilterNonActiveStartupProbe(down), facts)
       IN  IF ready = {}
           THEN EndCycle
           ELSE /\ pc' = "RestartNode"
                /\ down' = ready
                /\ UNCHANGED <<path, facts, atPod, pods0, toKill, killed, reipPods>>
    /\ UNCHANGED world

\* Mutant of ListNodes: the cluster's DOWN nodes are taken from every pod
\* instead of from the down list.
MutListNodesAllPods ==
    /\ pc = "ListNodes"
    /\ IF ~running[atPod]
       THEN EndCycle
       ELSE LET dp == {p \in Pods : ~nodeUp[p]} IN
            IF dp = {}
            THEN EndCycle
            ELSE /\ pc' = "Kill"
                 /\ down' = dp
                 /\ toKill' = {p \in dp : ReadOnly(facts, p)}
                 /\ UNCHANGED <<path, facts, atPod, pods0, killed, reipPods>>
    /\ UNCHANGED world

\* restartPods: list_allnodes from the ATPod, parsed by
\* parseClusterNodeStatus; the pods the cluster still reports UP are
\* dropped (wait if none is left), then the read-only ones are killed.
ListNodes ==
    /\ pc = "ListNodes"
    /\ IF ~running[atPod]
       THEN EndCycle
       ELSE LET dp == {p \in down : ~nodeUp[p]} IN
            IF dp = {}
            THEN EndCycle
            ELSE /\ pc' = "Kill"
                 /\ down' = dp
                 /\ toKill' = {p \in dp : ReadOnly(facts, p)}
                 /\ UNCHANGED <<path, facts, atPod, pods0, killed, reipPods>>
    /\ UNCHANGED world

\* reipNodes: read the old addresses from admintools.conf on the ATPod and
\* build the map file from the facts; requeue if that is not possible,
\* skip re_ip if no address changes.
ReadOldIPs ==
    /\ pc = "ReadOldIPs"
    /\ IF ~running[atPod]
       THEN EndCycle
       ELSE LET m == GenMapFile(atconf, reipPods, facts) IN
            IF ~m.ok THEN EndCycle
            ELSE IF ~m.ipChanging THEN AfterReIP
            ELSE /\ pc' = "ReIP"
                 /\ reipPods' = m.mapped
                 /\ UNCHANGED <<path, facts, atPod, down, pods0, toKill, killed>>
    /\ UNCHANGED world

\* reipNodes: upload the map file and run re_ip, which points every node
\* in the map at the address the facts give its pod.  Without --force,
\* re_ip refuses to run while a vertica process is up.
ReIP ==
    /\ pc = "ReIP"
    /\ IF ~running[atPod] \/ (~ReIPForce /\ \E p \in Pods : vstate[p] # "down")
       THEN EndCycle /\ UNCHANGED atconf
       ELSE /\ atconf' = [p \in Pods |->
                            IF p \in reipPods THEN facts[p].ip ELSE atconf[p]]
            /\ AfterReIP
    /\ UNCHANGED <<running, ip, vstate, nodeUp, started, faults, autoRestart>>

\* restartCluster: start_db with the facts' addresses of the down pods.
\* A node starts if its pod still has that address and admintools.conf
\* agrees with it.  The cycle then ends, whatever start_db returned.
StartDB ==
    /\ pc = "StartDB"
    /\ IF running[atPod]
       THEN LET ok == {p \in down : /\ running[p] /\ vstate[p] = "down"
                                    /\ ip[p] = facts[p].ip
                                    /\ atconf[p] = ip[p]}
            IN  /\ vstate' = [p \in Pods |-> IF p \in ok THEN "starting" ELSE vstate[p]]
                /\ nodeUp' = [p \in Pods |-> nodeUp[p] /\ p \notin ok]
       ELSE UNCHANGED <<vstate, nodeUp>>
    /\ EndCycle
    /\ UNCHANGED <<running, ip, started, atconf, faults, autoRestart>>

\* Mutant of RestartNode: --new-host-ips is left out, so admintools.conf
\* keeps the old addresses.
MutRestartNodeNoNewHostIPs ==
    /\ pc = "RestartNode"
    /\ IF ~running[atPod]
       THEN EndCycle /\ UNCHANGED <<vstate, atconf>>
       ELSE LET ok == {p \in down : /\ PrimaryQuorum
                                    /\ running[p] /\ vstate[p] = "down"
                                    /\ ip[p] = facts[p].ip
                                    /\ ~nodeUp[p]}
            IN  /\ vstate' = [p \in Pods |-> IF p \in ok THEN "starting" ELSE vstate[p]]
                /\ UNCHANGED atconf
                /\ IF ok # down \/ Cardinality(pods0) > Cardinality(down)
                   THEN EndCycle
                   ELSE /\ pc' = "Recollect"
                        /\ UNCHANGED <<path, facts, atPod, down, pods0, toKill, killed, reipPods>>
    /\ UNCHANGED <<running, ip, nodeUp, started, faults, autoRestart>>

\* restartPods: restart_node --hosts <vnodes> --new-host-ips <facts' IPs>.
\* A node restarts, and takes the new address in admintools.conf, if the
\* database is running for it to rejoin, its pod still has that address
\* and the cluster sees the node DOWN.  On
\* success the facts are invalidated; wait if some pod was filtered out,
\* else go on to the re_ip of unadded pods.
RestartNode ==
    /\ pc = "RestartNode"
    /\ IF ~running[atPod]
       THEN EndCycle /\ UNCHANGED <<vstate, atconf>>
       ELSE LET ok == {p \in down : /\ PrimaryQuorum
                                    /\ running[p] /\ vstate[p] = "down"
                                    /\ ip[p] = facts[p].ip
                                    /\ ~nodeUp[p]}
            IN  /\ vstate' = [p \in Pods |-> IF p \in ok THEN "starting" ELSE vstate[p]]
                /\ atconf' = [p \in Pods |-> IF p \in ok THEN facts[p].ip ELSE atconf[p]]
                /\ IF ok # down \/ Cardinality(pods0) > Cardinality(down)
                   THEN EndCycle
                   ELSE /\ pc' = "Recollect"
                        /\ UNCHANGED <<path, facts, atPod, down, pods0, toKill, killed, reipPods>>
    /\ UNCHANGED <<running, ip, nodeUp, started, faults, autoRestart>>

\* reconcileNodes after restartPods: the invalidated pod facts are
\* collected again when findReIPPods next reads them, then the re_ip of
\* the pods not yet added to the database (with the ATPod kept).
ReIPAfterRestart ==
    /\ pc = "Recollect"
    /\ ReIPUnaddedPods(Collect, atPod)
    /\ UNCHANGED world

\* Any remote call (exec, pod Get) may return an error: an event is
\* logged and the cycle aborts with that error.
RemoteCallFails ==
    /\ pc # "Idle"
    /\ faults < MaxFaults
    /\ faults' = faults + 1
    /\ EndCycle
    /\ UNCHANGED <<running, ip, vstate, nodeUp, started, atconf, autoRestart>>

-----------------------------------------------------------------------------
(***************************************************************************)
(* The world: Kubernetes, the vertica processes and the probes.           *)
(***************************************************************************)

-----------------------------------------------------------------------------

CtrlInit ==
    /\ pc = "Idle"
    /\ path = "none"
    /\ facts = NoFacts
    /\ atPod = NoPod
    /\ down = {}
    /\ pods0 = {}
    /\ toKill = {}
    /\ killed = FALSE
    /\ reipPods = {}

Init == WorldInit /\ CtrlInit

Controller ==
    \/ ReconcileDisabled \/ Reconcile
    \/ KillReadOnlyProcess \/ KillDone
    \/ ClusterProbeCheck \/ NodeProbeCheck \/ ListNodes
    \/ ReadOldIPs \/ ReIP \/ StartDB \/ RestartNode \/ ReIPAfterRestart

\* Kubernetes and vertica move while the reconciler's state stays put.
Environment == EnvNext /\ UNCHANGED ctrl

Next == Controller \/ RemoteCallFails \/ Environment

Spec == Init /\ [][Next]_vars

\* Reconcile is requeued or re-triggered by pod events, so the reconciler
\* keeps taking steps; Kubernetes reschedules pods and runs the probes,
\* and vertica finishes startups, detects down nodes and reacts to lost
\* quorum.  Faults are not fair: they are bounded by MaxFaults.
Fairness ==
    /\ WF_vars(Controller)
    /\ \A p \in Pods :
          /\ WF_vars(PodScheduled(p) /\ UNCHANGED ctrl)
          /\ WF_vars(NodeDownDetected(p) /\ UNCHANGED ctrl)
          /\ WF_vars(StartupCompletes(p) /\ UNCHANGED ctrl)
          /\ WF_vars(StartupProbePasses(p) /\ UNCHANGED ctrl)
          /\ WF_vars(LivenessProbeRestart(p) /\ UNCHANGED ctrl)
    /\ WF_vars(QuorumLost /\ UNCHANGED ctrl)

FairSpec == Spec /\ Fairness

-----------------------------------------------------------------------------
(***************************************************************************)
(* Properties.                                                             *)
(***************************************************************************)

\* Every variable of the world and of the reconciler has its type.
TypeOK ==
    /\ running \in [Pods -> BOOLEAN]
    /\ ip \in [Pods -> IPGen]
    /\ vstate \in [Pods -> VStates]
    /\ nodeUp \in [Pods -> BOOLEAN]
    /\ started \in [Pods -> BOOLEAN]
    /\ atconf \in [Pods -> IPGen \cup {NoIP}]
    /\ faults \in 0 .. MaxFaults
    /\ autoRestart \in BOOLEAN
    /\ pc \in PCs
    /\ path \in {"none", "cluster", "nodes"}
    /\ facts \in [Pods -> FactRec]
    /\ atPod \in Pods \cup {NoPod}
    /\ down \subseteq DBPods
    /\ pods0 \subseteq DBPods
    /\ toKill \subseteq DBPods
    /\ killed \in BOOLEAN
    /\ reipPods \subseteq InstalledPods

\* reconcileCluster issues start_db only when no vertica process of the
\* database is up or still starting: the cluster path is taken on facts
\* showing no writable node, and its slow-startup wait must keep a
\* startup that is still running from racing the new cluster.
ClusterStartOnlyWhenClusterDown ==
    pc = "StartDB" => \A p \in Pods : vstate[p] \notin {"up", "starting"}

\* start_db and restart_node never target a pod whose startupProbe has
\* already passed: its livenessProbe would restart the container in the
\* middle of the startup (filterNonActiveStartupProbe).
NoRestartRacingLivenessProbe ==
    pc \in {"StartDB", "RestartNode"} => \A p \in down : IsStartupProbeActive(p)

\* With k-safety 0 no node may be left out of a cluster start, or the
\* database cannot form a quorum: reconcileCluster waits until every
\* installed pod runs, so start_db is issued with every database pod in
\* its host list, whatever was killed, filtered or rescheduled on the way.
KSafety0StartsWholeDatabase ==
    (KSafety0 /\ pc = "StartDB") => DBPods \subseteq down

\* The reconciler implements AbstractRestart: with its cycle state hidden,
\* every step it takes is one of the abstract operations (start_db only on
\* a cluster with nothing up or starting, restart_node under quorum on
\* DOWN nodes, never on a pod whose startupProbe passed, re_ip only of
\* recorded entries to addresses their pods have had, kills only of
\* read-only processes) or leaves the world unchanged.
Abs == INSTANCE AbstractRestart
           WITH running <- running, ip <- ip, vstate <- vstate,
                nodeUp <- nodeUp, started <- started, atconf <- atconf,
                faults <- faults, autoRestart <- autoRestart
RefinesAbstractRestart == Abs!Spec

\* Every database node is up and writable, and admintools.conf holds the
\* current address of every installed pod.
Healthy ==
    /\ \A p \in DBPods : vstate[p] = "up"
    /\ \A p \in InstalledPods : running[p] /\ atconf[p] = ip[p]

\* With AutoRestartVertica set, once the faults stop the restart
\* reconciler brings every node back up at its current address and keeps
\* it there: the waits on probes, on the cluster's view and on quorum all
\* end, and stale addresses are repaired.
Convergence == autoRestart => <>[]Healthy

=============================================================================
