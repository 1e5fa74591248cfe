---------------------------- MODULE AbstractRestart ----------------------------
(***************************************************************************)
(* What the restart reconciler promises, stated on the world alone: the    *)
(* reconciler's cycles, pod facts and remote-call sequence are hidden, and *)
(* each of its effects on the world is one atomic operation with the guard *)
(* that makes it safe at the moment it takes effect.                       *)
(*                                                                         *)
(*  - a cluster start (start_db) happens only when no vertica process of   *)
(*    the database is up or starting;                                      *)
(*  - a node restart (restart_node) happens only while the primaries have  *)
(*    quorum, on nodes the cluster sees DOWN, and points admintools.conf   *)
(*    at the node's current address;                                       *)
(*  - no start or restart touches a pod whose startupProbe has passed;     *)
(*  - re_ip only rewrites entries admintools.conf already has, to an       *)
(*    address the pod has had, and without --force only with every process *)
(*    down;                                                                *)
(*  - a kill only ever stops a read-only process.                          *)
(***************************************************************************)
EXTENDS VerticaCluster

\* start_db of a set of pods of the database.
StartCluster(S) ==
    /\ S \subseteq DBPods
    /\ \A p \in Pods : vstate[p] \notin {"up", "starting"}
    /\ \A p \in S : /\ running[p] /\ vstate[p] = "down"
                    /\ atconf[p] = ip[p] /\ StartupProbeActive(p)
    /\ vstate' = [p \in Pods |-> IF p \in S THEN "starting" ELSE vstate[p]]
    /\ nodeUp' = [p \in Pods |-> nodeUp[p] /\ p \notin S]
    /\ UNCHANGED <<running, ip, started, atconf, faults, autoRestart>>

\* restart_node of a set of down nodes.
RestartNodes(S) ==
    /\ S \subseteq DBPods
    /\ PrimaryQuorum
    /\ \A p \in S : /\ running[p] /\ vstate[p] = "down" /\ ~nodeUp[p]
                    /\ StartupProbeActive(p)
    /\ vstate' = [p \in Pods |-> IF p \in S THEN "starting" ELSE vstate[p]]
    /\ atconf' = [p \in Pods |-> IF p \in S THEN ip[p] ELSE atconf[p]]
    /\ UNCHANGED <<running, ip, nodeUp, started, faults, autoRestart>>

\* re_ip with a map file.
RemapAddresses ==
    /\ ReIPForce \/ \A p \in Pods : vstate[p] = "down"
    /\ atconf' \in [Pods -> IPGen \cup {NoIP}]
    /\ \A p \in Pods : atconf'[p] # atconf[p] =>
                          atconf[p] # NoIP /\ atconf'[p] \in 0 .. ip[p]
    /\ UNCHANGED <<running, ip, vstate, nodeUp, started, faults, autoRestart>>

\* The kill of a read-only vertica process.
KillReadOnly(p) ==
    /\ vstate[p] = "readonly"
    /\ vstate' = [vstate EXCEPT ![p] = "down"]
    /\ UNCHANGED <<running, ip, nodeUp, started, atconf, faults, autoRestart>>

\* A remote call of the reconciler fails (a fault).
CallFails ==
    /\ faults < MaxFaults
    /\ faults' = faults + 1
    /\ UNCHANGED <<running, ip, vstate, nodeUp, started, atconf, autoRestart>>

Next ==
    \/ \E S \in SUBSET DBPods : StartCluster(S) \/ RestartNodes(S)
    \/ RemapAddresses
    \/ \E p \in Pods : KillReadOnly(p)
    \/ CallFails
    \/ EnvNext

Spec == WorldInit /\ [][Next]_world

=============================================================================
