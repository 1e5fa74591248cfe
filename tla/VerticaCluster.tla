---------------------------- MODULE VerticaCluster ----------------------------
(***************************************************************************)
(* The world the restart reconciler acts on: the pods of one VerticaDB,    *)
(* the vertica process in each, the cluster's own view of which nodes are  *)
(* UP, the addresses recorded in admintools.conf, and the startup and      *)
(* liveness probes, with what Kubernetes and vertica do to them on their   *)
(* own.  RestartReconciler adds the reconciler; AbstractRestart states     *)
(* what the reconciler may do to this world.                               *)
(*                                                                         *)
(* An address is abstracted to a generation number per pod: a pod that is *)
(* rescheduled may come back with the next generation, and two pods never *)
(* share an address.                                                       *)
(***************************************************************************)
EXTENDS Integers, FiniteSets

CONSTANTS
    Pods,             \* the pods of the VerticaDB
    InstalledPods,    \* pods where the installer has run (isInstalled)
    DBPods,           \* pods whose node has been added to the database (dbExists)
    Primaries,        \* DB pods of primary subclusters
    KSafety0,         \* Vdb.Spec.KSafety == KSafety0
    ScheduleOnly,     \* Vdb.Spec.InitPolicy == CommunalInitPolicyScheduleOnly
    RestartReadOnly,  \* RestartReconciler.RestartReadOnly
    ReIPForce,        \* the server version supports re_ip --force
    LivenessProbeSet, \* the server container has a livenessProbe
    NoPod,            \* the empty types.NamespacedName{} of ATPod
    MaxIPGen,         \* bound: address generations a pod may go through
    MaxFaults         \* bound: pod deletions, process crashes, failed calls

ASSUME ConstantsAssumption ==
    /\ DBPods \subseteq InstalledPods
    /\ InstalledPods \subseteq Pods
    /\ Primaries \subseteq DBPods
    /\ NoPod \notin Pods
    /\ {KSafety0, ScheduleOnly, RestartReadOnly, ReIPForce,
        LivenessProbeSet} \subseteq BOOLEAN
    /\ DBPods # {} => Primaries # {}
    /\ MaxIPGen \in Nat
    /\ MaxFaults \in Nat

\* The address generations, and the entry of a host that is not in
\* admintools.conf.
IPGen == 0 .. MaxIPGen
NoIP == -1

\* State of the vertica process in a pod.  "readonly" is up but only
\* accepting reads; "starting" is a startup still in progress.
VStates == {"down", "starting", "up", "readonly"}

VARIABLES
    running,      \* pod -> the pod is running (isPodRunning)
    ip,           \* pod -> its current address generation (podIP)
    vstate,       \* pod -> state of its vertica process
    nodeUp,       \* pod -> the cluster reports its node UP (list_allnodes)
    started,      \* pod -> container status Started: startupProbe has passed
    atconf,       \* pod -> address of its node in admintools.conf, or NoIP
    faults,       \* faults injected so far
    autoRestart   \* Vdb.Spec.AutoRestartVertica

world == <<running, ip, vstate, nodeUp, started, atconf, faults, autoRestart>>

\* The database is running: more than half of the primaries are up.
PrimaryQuorum ==
    2 * Cardinality({q \in Primaries : vstate[q] = "up"}) > Cardinality(Primaries)

\* The startupProbe of a pod has not passed yet (or there is none), so
\* the kubelet's livenessProbe does not act on it.
StartupProbeActive(p) == ~LivenessProbeSet \/ ~started[p]

-----------------------------------------------------------------------------
(***************************************************************************)
(* What Kubernetes and vertica do on their own.                            *)
(***************************************************************************)

\* A pod is deleted or evicted (a fault).
PodDeleted(p) ==
    /\ running[p]
    /\ faults < MaxFaults
    /\ running' = [running EXCEPT ![p] = FALSE]
    /\ vstate' = [vstate EXCEPT ![p] = "down"]
    /\ started' = [started EXCEPT ![p] = FALSE]
    /\ faults' = faults + 1
    /\ UNCHANGED <<ip, nodeUp, atconf, autoRestart>>

\* The StatefulSet brings the pod back, with its old or a new address.
PodScheduled(p) ==
    /\ ~running[p]
    /\ running' = [running EXCEPT ![p] = TRUE]
    /\ \E g \in {ip[p], ip[p] + 1} \cap IPGen : ip' = [ip EXCEPT ![p] = g]
    /\ UNCHANGED <<vstate, nodeUp, started, atconf, faults, autoRestart>>

\* A vertica process dies (a fault).
ProcessCrash(p) ==
    /\ vstate[p] # "down"
    /\ faults < MaxFaults
    /\ vstate' = [vstate EXCEPT ![p] = "down"]
    /\ faults' = faults + 1
    /\ UNCHANGED <<running, ip, nodeUp, started, atconf, autoRestart>>

\* The cluster notices that a node is no longer UP.
NodeDownDetected(p) ==
    /\ nodeUp[p]
    /\ vstate[p] \in {"down", "starting"}
    /\ nodeUp' = [nodeUp EXCEPT ![p] = FALSE]
    /\ UNCHANGED <<running, ip, vstate, started, atconf, faults, autoRestart>>

\* A startup ends: the node joins if admintools.conf has its address.
StartupCompletes(p) ==
    /\ vstate[p] = "starting"
    /\ IF atconf[p] = ip[p]
       THEN /\ vstate' = [vstate EXCEPT ![p] = "up"]
            /\ nodeUp' = [nodeUp EXCEPT ![p] = TRUE]
       ELSE /\ vstate' = [vstate EXCEPT ![p] = "down"]
            /\ UNCHANGED nodeUp
    /\ UNCHANGED <<running, ip, started, atconf, faults, autoRestart>>

\* The startupProbe passes once vertica is up; the livenessProbe takes over.
StartupProbePasses(p) ==
    /\ vstate[p] = "up"
    /\ ~started[p]
    /\ started' = [started EXCEPT ![p] = TRUE]
    /\ UNCHANGED <<running, ip, vstate, nodeUp, atconf, faults, autoRestart>>

\* The livenessProbe fails on a started container with no vertica: the
\* container is restarted and its startupProbe is active again.
LivenessProbeRestart(p) ==
    /\ LivenessProbeSet
    /\ started[p]
    /\ vstate[p] = "down"
    /\ started' = [started EXCEPT ![p] = FALSE]
    /\ UNCHANGED <<running, ip, vstate, nodeUp, atconf, faults, autoRestart>>

\* The primaries lose quorum: the up primaries shut down and the up
\* secondaries go read-only.
QuorumLost ==
    /\ \E p \in Pods : vstate[p] = "up"
    /\ \A p \in Pods : vstate[p] # "starting"
    /\ ~PrimaryQuorum
    /\ vstate' = [p \in Pods |->
                    IF vstate[p] # "up" THEN vstate[p]
                    ELSE IF p \in Primaries THEN "down" ELSE "readonly"]
    /\ UNCHANGED <<running, ip, nodeUp, started, atconf, faults, autoRestart>>

EnvNext ==
    \/ \E p \in Pods :
          \/ PodDeleted(p) \/ PodScheduled(p) \/ ProcessCrash(p)
          \/ NodeDownDetected(p) \/ StartupCompletes(p)
          \/ StartupProbePasses(p) \/ LivenessProbeRestart(p)
    \/ QuorumLost

\* Either a healthy database, or one after a full outage: every process
\* down and the pods possibly rescheduled with new addresses.
WorldInit ==
    /\ \/ /\ running = [p \in Pods |-> TRUE]
          /\ ip = [p \in Pods |-> 0]
          /\ vstate = [p \in Pods |-> IF p \in DBPods THEN "up" ELSE "down"]
          /\ nodeUp = [p \in Pods |-> p \in DBPods]
          /\ started = [p \in Pods |-> p \in DBPods]
       \/ /\ running \in [Pods -> BOOLEAN]
          /\ ip \in [Pods -> IPGen]
          /\ vstate = [p \in Pods |-> "down"]
          /\ nodeUp = [p \in Pods |-> FALSE]
          /\ started = [p \in Pods |-> FALSE]
    /\ atconf = [p \in Pods |-> IF p \in InstalledPods THEN 0 ELSE NoIP]
    /\ faults = 0
    /\ autoRestart \in BOOLEAN

=============================================================================
