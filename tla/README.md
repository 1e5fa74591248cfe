# Formal model of the Vertica operator's restart and create_db reconcilers

This directory holds TLA+ models of the restart reconciler (`src/pkg/controllers/vdb/restart_reconciler.go`) and the create_db reconciler (`src/pkg/controllers/vdb/createdb_reconciler.go`) of the Vertica operator. The restart reconciler brings a Vertica database back after node or cluster outages, in pods that Kubernetes may reschedule with new addresses. The create_db reconciler creates the database in the first place. The directory holds:

- one module per component, and the MC modules and TLC configurations that check them on small instances;
- an abstract specification of what the restart reconciler promises, with the refinement that shows the detailed model implements it;
- TLAPS proofs, for every instance, of type correctness, of the restart reconciler's safety invariants and of its refinement, of the create_db hooks' invariant, and of the requeue delay's bounds for every int32 probe.

| Module | Models |
|---|---|
| `VerticaCluster` | the world the restart reconciler acts on: pods, vertica processes, addresses, `admintools.conf`, probes, quorum |
| `RestartReconciler` | the restart decision state machine and the pod facts, over `VerticaCluster` |
| `AbstractRestart` | what the restart reconciler promises, as atomic operations on the world |
| `RestartReconcilerProofs`, `RestartRefinementProofs`, `RestartSafetyProofs` | the restart reconciler's theorems and their proofs |
| `MCRestartReconciler` | the TLC instance of the restart reconciler |
| `Backoff`, `BackoffProofs` | `makeResultForLivenessProbeWait`, the requeue delay with Go's int32 and float32 arithmetic, and its proof |
| `ClusterNodeStatus`, `MCClusterNodeStatus` | `parseClusterNodeStatus` and `removePodsWithClusterUpState` |
| `AddressMap`, `MCAddressMap` | `parseNodesFromAdmintoolConf` and `genMapFile`, line by line |
| `CreateDBHosts` | the host list and init pod of `create_db` |
| `CreateDBVdb` | the VerticaDB fields and the post-create SQL file that `create_db` reads, shared by the two modules below |
| `AbstractCreateDB` | what `create_db` promises: four operations, with no program counter, result or fault count |
| `CreateDBSetup` | the create_db reconciler's hooks: policy check, `preCmdSetup`, `execCmd`, `postCmdCleanup` |
| `CreateDBSetupProofs`, `MCCreateDBSetup` | the hooks' inductive invariants (`SetupInv`, `CreateDBRefInv`), their proofs and the proof that the hooks refine `AbstractCreateDB`, and the TLC instance that checks all of these |

## 1. The system

### Parts and how they interact

| Part | Source | Role |
|---|---|---|
| Restart decision state machine | `restart_reconciler.go` `Reconcile`, `reconcileCluster`, `reconcileNodes`, `restartPods`, `reipNodes`, `restartCluster`, `killReadOnlyProcesses` | One reconcile cycle: collect facts, choose the cluster path or the per-node path, and issue remote admintools calls |
| Cluster state snapshot (pod facts) | `podfacts.go` (not in this tree; spec §3, §4.1) | A per-cycle table of each pod: running, address, installed, in the database, up, read-only, starting. `Invalidate` marks it stale |
| Probe-gating policy | `filterNonActiveStartupProbe`, `filterSlowStartup`, `isStartupProbeActive`, `makeResultForLivenessProbeWait` | Keeps restarts away from pods whose livenessProbe is active, and from pods still starting. Computes the requeue delay |
| Address map builder | `genMapFile`, `fetchOldIPsFromNode`, `parseNodesFromAdmintoolConf`, `genReIPCommand` | Compares the addresses in `admintools.conf` with the pods' current ones. Runs `re_ip` only if one changed |
| Node-status parser | `parseClusterNodeStatus` | Parses `list_allnodes` output into node → UP/DOWN |
| CreateDB reconciler | `createdb_reconciler.go` | Creates the database: writes the post-create SQL file, runs `create_db` on the pods of the first primary subcluster ordered by legacy node name, and asks for a restart when `EncryptSpreadComm` is set |
| Local data prep, debug dump | `vdb/paths.go` | One shell command each, with no state |
| Path constants | `pkg/paths/paths.go` | Constants |

A cycle runs in this order:

1. Collect the facts.
2. If no node is up and writable (and the init policy is not ScheduleOnly), take the **cluster path**:
   - the waits on installed and running pods;
   - the k-safety-0 wait;
   - pick an AT pod with no vertica process;
   - kill the read-only processes, and requeue if any was killed;
   - the two probe filters, waiting if either removes a pod;
   - `re_ip` when an address changed;
   - `start_db` on the down pods.
3. Otherwise take the **per-node path**:
   - pick an AT pod;
   - `list_allnodes`, dropping the pods the cluster still reports UP;
   - kill the read-only processes;
   - the probe filters;
   - `restart_node --new-host-ips`;
   - invalidate the facts;
   - the `re_ip` of the pods not yet added to the database.

Any failed remote call aborts the cycle, and controller-runtime retries it. Cycles for one VerticaDB never overlap.

### What makes it hard

Every remote call blocks, and the world changes while it runs. Between the snapshot and `start_db`:
- pods are deleted and rescheduled with new addresses;
- processes crash, or finish a startup;
- the livenessProbe restarts containers;
- the cluster's own view of UP nodes lags behind;
- the primaries lose quorum, and the secondaries go read-only.

The hazards are listed, at their lines, in `PROJECT.json`.

## 2. The model

### `VerticaCluster.tla` and `RestartReconciler.tla`: the world and the reconciler

`VerticaCluster` declares the constants, the world variables and the environment's actions. `RestartReconciler` extends it with the reconciler's variables and actions.

**Constants**

| Constant | Meaning |
|---|---|
| `Pods` | the pods |
| `InstalledPods` | pods where the installer has run (`isInstalled`) |
| `DBPods` | pods whose node is in the database (`dbExists`) |
| `Primaries` | the database pods of primary subclusters |
| `KSafety0`, `ScheduleOnly`, `RestartReadOnly`, `ReIPForce`, `LivenessProbeSet` | the configuration flags the code tests |
| `NoPod` | the empty `ATPod` |

There are two bounds:
- `MaxIPGen`: how many new addresses a pod may get;
- `MaxFaults`: pod deletions, crashes and failed calls together.

`ConstantsAssumption` states what the code relies on: `DBPods ⊆ InstalledPods ⊆ Pods`, primaries are database pods, and so on.

An address is abstracted as a generation number per pod, so a reschedule may move a pod to the next generation and two pods never share an address. Text output, commands, events and metrics are left out.

**World variables**

| Variable | Meaning |
|---|---|
| `running` | the pod is running |
| `ip` | the pod's current address generation |
| `vstate` | the vertica process: `down`, `starting`, `up` or `readonly` |
| `nodeUp` | what `list_allnodes` reports |
| `started` | the container's `Started`: the startupProbe has passed |
| `atconf` | the address `admintools.conf` holds for the node |
| `faults` | the faults so far |
| `autoRestart` | `AutoRestartVertica` |

**Reconciler variables**

| Variable | Meaning |
|---|---|
| `pc` | the position in the cycle |
| `path` | the cluster path or the per-node path |
| `facts` | the snapshot |
| `atPod` | `r.ATPod` |
| `down` | the down-pod list being worked on |
| `pods0` | the list `restartPods` was given |
| `toKill`, `killed` | the loop of `killReadOnlyProcesses` |
| `reipPods` | the pods given to `reipNodes`, then those in the map |

**Actions.** Each remote call is one action. The pure decisions that follow a call belong to that call's action.

| Action | Code |
|---|---|
| `ReconcileDisabled`, `Reconcile` | `Reconcile` |
| `Reconcile` → `ReconcileCluster` | `reconcileCluster` up to `setATPod` |
| `Reconcile` → `ReconcileNodes` | `reconcileNodes` up to `setATPod` |
| `KillReadOnlyProcess`, `KillDone` | `killReadOnlyProcesses`: one exec per pod, then requeue if anything was killed |
| `ClusterProbeCheck` | the two filters on the cluster path |
| `NodeProbeCheck` | the two filters in `restartPods` |
| `ListNodes` | `removePodsWithClusterUpState` |
| `ReadOldIPs` | `reipNodes` up to `genMapFile` (`fetchOldIPsFromNode` + `genMapFile`) |
| `ReIP` | the upload and `re_ip`; without `--force`, `re_ip` refuses to run while a process is up |
| `StartDB` | `restartCluster` |
| `RestartNode` | `restart_node` with the facts' addresses, then `Invalidate` |
| `ReIPAfterRestart` | the rest of `reconcileNodes`, with facts collected again (spec §4.1: the next read after `Invalidate` collects again) |
| `RemoteCallFails` | any remote call returns an error and the cycle aborts |

`EndCycle` is every return from `Reconcile`, whatever its result. The reconciler and its facts are discarded, and the next cycle starts from `Idle`.

**Environment.** These actions stand for Kubernetes and Vertica, and are written from their documented behaviour:
- `PodDeleted` and `ProcessCrash` (faults);
- `PodScheduled`, which may give the pod a new address;
- `NodeDownDetected`, the cluster's view catching up;
- `StartupCompletes`: the node joins only if `admintools.conf` has its current address;
- `StartupProbePasses` and `LivenessProbeRestart`;
- `QuorumLost`: with half or fewer of the primaries up, the up primaries stop and the up secondaries go read-only.

`restart_node` only restarts a node when the database is running (`PrimaryQuorum`), because a node rejoins a running database. That is why the code has a separate cluster path with `start_db`.

### `AbstractRestart.tla`: what the reconciler promises

It extends `VerticaCluster` and has no reconciler state: no cycle, no facts, no `pc`. Each effect the reconciler has on the world is one atomic operation, guarded by what makes it safe at the moment it takes effect:
- `StartCluster(S)`: `start_db` only when no process of the database is up or starting, on down pods whose `admintools.conf` entry is current and whose startupProbe has not passed;
- `RestartNodes(S)`: `restart_node` only under primary quorum, on nodes the cluster sees DOWN, pointing `admintools.conf` at their current address;
- `RemapAddresses`: `re_ip` only of entries `admintools.conf` has, to an address the pod has had, and without `--force` only with every process down;
- `KillReadOnly(p)`: a kill only of a read-only process;
- `CallFails` and the environment's own steps.

`RestartReconciler` defines `Abs == INSTANCE AbstractRestart` (the world variables map to themselves) and `RefinesAbstractRestart == Abs!Spec`. The detailed model checks every guard against a snapshot taken several remote calls earlier, so the refinement says that none of those snapshots is stale where it matters.

### `RestartReconcilerProofs.tla`, `RestartRefinementProofs.tla`, `RestartSafetyProofs.tla`: theorems

The first extends the model with TLAPS and holds the lemmas about the model's operators, the inductive invariant `IInv` and the first two theorems. The second extends the first with the strengthening `RInv` and the refinement proof. The third extends the second with the proofs of the remaining restart invariants.

### `MCRestartReconciler.tla`: the TLC instance

It extends `RestartSafetyProofs`, so that TLC checks the proofs' `IInv` and `RInv` too.

Three model-value pods `p1`, `p2`, `p3`:
- all three are installed;
- `p1` and `p2` are database nodes;
- `p1` is the only primary.

### `Backoff.tla`: the requeue delay

`makeResultForLivenessProbeWait` reads a sample pod. The model enumerates what the read can return: NotFound, another error, a pod without a livenessProbe, or a probe with its `PeriodSeconds` and `FailureThreshold` taken from `Periods` × `Thresholds`. Each conversion of line 587 is modelled by what it does:
- `Int32Product`, `Int32ProductNegative`: the int32 product keeps the low 32 bits. They are computed in base-2^11 digits, because TLC's own integers stop at 2^31 − 1;
- `QuarterOfFloat32`: float32 rounds to 24 significant bits (nearest, ties to even), the × 0.25 is exact, and `int()` truncates;
- `RequeueSeconds`: the `math.Max` floor at `MinWaitTime`.

`Resample` is a later cycle reading the sample pod again. The constants hold small values, values around 2^24 (where float32 starts rounding), products past 2^31, and the int32 limit.

### `ClusterNodeStatus.tla`: the `list_allnodes` parser

A line of stdout is the sequence of cells that `strings.Split(line, "|")` returns. A cell is a token, with or without the blanks that `Trim` removes. The lines are the header, the empty line a trailing newline leaves, and data rows cut after 3 or 4 cells. `ParseClusterNodeStatus` folds `ParseLine` over the lines after the two header lines. `RemovePodsWithClusterUpState` keeps a pod unless its node maps to `UP`. `ReceiveLine` appends a line, so every listing of up to `MaxLines` lines is reached.

### `AddressMap.tla`: the old addresses and the re_ip map

A conf line that `grep '^node[0-9]'` passes is abstracted to what the regex `^(node\d{4}) = ([\d.:a-fA-F]+),` tells apart: a compat21 key or another key, an address or none, and a comma or none. `ParseNodesFromAdmintoolConf` folds over the lines, and a later line for a node wins. `GenMapFileStep` is one iteration of `genMapFile`'s loop, with `done` for the early return. `GenMapFile` folds it over the pods. `ReadConfLine` and `AddPod` grow the conf and the pod list one element at a time.

### `CreateDBHosts.tla` and `CreateDBSetup.tla`: the create_db reconciler

`CreateDBHosts` fixes a VerticaDB and collects pod facts one pod at a time (`CollectPodFact`), each with an unused legacy node number. So every partial set of facts, with every naming, is met. It has these operators:
- `GetFirstPrimarySubcluster`;
- `GetPodList`: bail out when a pod has no facts, sort by legacy name, keep one pod with k-safety 0;
- `FindPodToRunInit`;
- `GenCmd`: the options, not the text.

`CreateDBSetup` is the reconciler's hooks as actions:
- `ReconcileSkip` for the other init policies;
- `PreCmdSetup`, then `WriteSQL`, `Mkdir` and `UpdateCondition`, one per remote call of `preCmdSetup`;
- `ExecCmd`;
- `PostCmdCleanup`.

Every remote call may fail, up to `MaxFaults`. A failed write may still have written the file, and `mkdir` errors are ignored. The hooks are called by `GenericDatabaseInitializer`, which is not in this tree, so the model lets the initializer call any hook at any time.

`AbstractCreateDB` states what these hooks promise, with the same file, directory, condition and command variables and none of the hooks' control state:
- `WritePostCreateSQL`: under the `CreateNew` policy, the post-create SQL file of this VerticaDB is written;
- `CreateCommunalDir`: under `CreateNew`, with a posix communal path and the file in place, the communal directory is made;
- `RequestRestart`: with `EncryptSpreadComm` and the file in place, `VerticaRestartNeeded` is set;
- `CreateDatabase`: under `CreateNew`, `create_db` runs with whatever file is there.

The refinement mapping is the identity on these variables, and `pc`, `result` and `faults` are hidden. A failed remote call is a stutter, or a write of the file when the failed write wrote it anyway.

## 3. Properties and runs

| Property | Module | Kind | What it says |
|---|---|---|---|
| `TypeOK` | RestartReconciler | invariant | every variable has its type |
| `ClusterStartOnlyWhenClusterDown` | RestartReconciler | invariant | when the cycle is at `start_db`, no vertica process is up or starting |
| `NoRestartRacingLivenessProbe` | RestartReconciler | invariant | `start_db` and `restart_node` never target a pod whose startupProbe has passed |
| `KSafety0StartsWholeDatabase` | RestartReconciler | invariant | with k-safety 0, `start_db` is issued with every database pod |
| `IInv`, `RInv` | the proof modules | invariant | the inductive invariants of the restart proofs (§4) |
| `RefinesAbstractCreateDB` | CreateDBSetup | refinement | every behaviour of the hooks is a behaviour of `AbstractCreateDB`: no file, directory, condition or `create_db` call happens outside what it allows |
| `RefinesAbstractRestart` | RestartReconciler | refinement | every behaviour is a behaviour of `AbstractRestart` |
| `Convergence` | RestartReconciler | liveness | with `AutoRestartVertica` set, eventually every database node stays up and every installed pod stays running with its current address in `admintools.conf` |
| `RequeueTracksProbeWindow` | Backoff | invariant | the delay is never below 10 s and never longer than the liveness window when the product fits. It is exactly a floored quarter of the window when the window is below 2^24 |
| `ListingDecidesDownPods` | ClusterNodeStatus | invariant | the down list keeps exactly the pods whose node the last well-formed data line does not report UP |
| `ReIPMapFollowsConf` | AddressMap | invariant | `genMapFile` is ok exactly when the pod list is non-empty and every pod runs. Then it has one pair per pod with a recorded address (the last matching conf line), in pod order, and `ipChanging` says whether a pair changes |
| `HostsFollowLegacyNames` | CreateDBHosts | invariant | `create_db` gets a host list exactly when the first primary is fully known. The k-th host has the k-th lowest legacy name, with one host under k-safety 0 |
| `RestartNeededOnlyWithEncryptSQL` | CreateDBSetup | invariant | `VerticaRestartNeeded` is set only once the post-create SQL file holds the `EncryptSpreadComm` statement |

**Runs.**

| Run | Config | Expect | What it shows |
|---|---|---|---|
| `restart_safety` | `MCRestartReconciler.cfg` | pass | `TypeOK`, `ClusterStartOnlyWhenClusterDown`, `NoRestartRacingLivenessProbe` and `IInv`, about 334,000 states |
| `restart_convergence` | `MCRestartReconcilerLive.cfg` | pass | `Convergence` under `FairSpec` |
| `restart_ksafety0` | `MCRestartReconcilerK0Live.cfg` | pass | with `KSafety0 = TRUE`: `KSafety0StartsWholeDatabase` and `Convergence` |
| `restart_refinement` | `MCRestartReconcilerRefine.cfg` | pass | `RefinesAbstractRestart` and `RInv`, about 334,000 states in about 30 s |
| `backoff_window` | `Backoff.cfg` | pass | `RequeueTracksProbeWindow` over 10 × 10 probe values |
| `backoff_spec_rule` | `BackoffSpecRule.cfg` | violation | the spec's backoff rule fails on large probes (finding 1) |
| `node_status_listing` | `MCClusterNodeStatus.cfg` | pass | `ListingDecidesDownPods` |
| `reip_map` | `MCAddressMap.cfg` | pass | `ReIPMapFollowsConf` |
| `reip_map_spec_rule` | `MCAddressMapSpecRule.cfg` | violation | the spec's empty-list rule fails (finding 2) |
| `createdb_hosts` | `CreateDBHosts.cfg` | pass | `HostsFollowLegacyNames`, about 370,000 states |
| `createdb_setup` | `MCCreateDBSetup.cfg` | pass | `RestartNeededOnlyWithEncryptSQL` and `RefinesAbstractCreateDB`, about 4,400 states |

The algorithm modules have no end state (a listing, a conf, a pod list or a set of facts simply stops growing), so their configs set `CHECK_DEADLOCK FALSE`. `Backoff` and `CreateDBSetup` never stop, and deadlock is checked there.

**Findings.**
1. Line 587 multiplies the probe's two int32 fields in int32 and converts the product to float32. A window of 2^31 s or more wraps, to a negative product (the 10 s floor) or a small one. A window above 2^24 s is rounded. The spec says the wait is period × threshold × 0.25, floored at 10 s. TLC's counterexample is period 1 and threshold 2^31 − 1: the window 2147483647 s fits int32, float32 rounds it up to 2^31, and the code waits 536870912 s where the rule gives 536870911 s. The wrap is reached too: period 65536 and threshold 65536 give a product of 0 and the 10 s floor.
2. `genMapFile` returns the pairs already built together with `ok = false` when a later pod is not running (line 695). The spec says the list is empty then. The caller discards the list when `ok` is false, so nothing acts on the partial pairs today.

**Bounds and why they are enough.** For the restart reconciler, three pods give a database node that is a primary, one that is a secondary, and an installed pod not yet in the database. Together these exercise:
- quorum loss: `p1` going down makes the secondary `p2` read-only;
- the kill of read-only processes;
- the `re_ip` of unadded pods (`p3`);
- an AT pod distinct from the pods being restarted.

`MaxIPGen = 1` lets each pod be rescheduled once with a new address. That is the event that makes the addresses in the snapshot and in `admintools.conf` stale. `MaxFaults = 2` allows two independent faults in one behaviour, such as a crash and then a deletion during the restart, or a failed `re_ip` after the map was uploaded. The flags are those of a current deployment (`RestartReadOnly`, `ReIPForce`, a livenessProbe). `restart_ksafety0` also sets `KSafety0`.

For the other modules:
- `ClusterNodeStatus`: four lines are two headers and two data lines, enough for a node listed twice and for a truncated row.
- `AddressMap`: two conf lines give a node listed twice or a line that does not match. Three pods mix running, stopped and unrecorded pods, with a stopped pod after a mapped one.
- `CreateDBHosts`: two subclusters of up to three pods, and four legacy numbers. This gives a primary that is not first, and three pods whose names are out of index order.
- `CreateDBSetup`: two faults, enough for a failed write followed by a successful retry.

**Fairness.** `Fairness` is weak fairness on:
- the reconciler (controller-runtime requeues on every wait and on pod events);
- each reaction of the world: rescheduling, the cluster noticing a down node, startups finishing, and the probes;
- quorum loss (Vertica shuts down primaries without quorum).

Faults are not fair; they are bounded by `MaxFaults`, so `Convergence` says the system recovers after the last fault. The other modules have no liveness property.

**Mutants.** Each property of a passing run is broken by a plausible bug in the code it is about:

| Mutant | Breaks |
|---|---|
| `removePodsWithClusterUpState` filtering every pod instead of the down list | `TypeOK` |
| the cluster path without the slow-startup wait | `ClusterStartOnlyWhenClusterDown` |
| `isStartupProbeActive` reading `Started` inverted | `NoRestartRacingLivenessProbe` |
| `Reconcile` choosing the cluster path with one writable node up | `IInv` |
| `restart_node` without `--new-host-ips` | `Convergence` (both runs) |
| `reconcileCluster` without the k-safety-0 wait | `KSafety0StartsWholeDatabase` |
| `restartPods` without `filterNonActiveStartupProbe` | `RefinesAbstractRestart`, `RInv` |
| `timeToWait` without the `math.Max` floor | `RequeueTracksProbeWindow` |
| `parseClusterNodeStatus` skipping one header line | `ListingDecidesDownPods` |
| `genMapFile` without `ok = true` after an unrecorded pod | `ReIPMapFollowsConf` |
| `getPodList` without the sort | `HostsFollowLegacyNames` |
| `preCmdSetup` ignoring the SQL write's error | `RestartNeededOnlyWithEncryptSQL`, `RefinesAbstractCreateDB` |

## 4. What is proved

`RestartReconcilerProofs.tla` and `RestartRefinementProofs.tla` are checked by `tlapm`. Every theorem holds for every set of pods and primaries, and for every bound, that satisfy `ConstantsAssumption`.

- **`TypeCorrect`**: `Spec => []TypeOK`. It rests on `TypeInit`, on `TypeStep` (one case per action), and on lemmas about `EndCycle`, `ReIPUnaddedPods`, `AfterReIP`, `ReconcileCluster` and `ReconcileNodes`.
- **`ClusterStartSafe`**: `Spec => []ClusterStartOnlyWhenClusterDown`. The property is not inductive as it stands: a step from a state where the cycle is at `ReIP` can reach `StartDB`, and nothing in the property says why no process is up then. The strengthening `IInv` is `TypeOK` plus:
  - `ProcInDBPod`: a vertica process runs only in a running pod of a database node;
  - `FactsConsistent`: the same holds of the snapshot;
  - `PathConsistent`: which values of `pc` belong to which path, and `StartDB` only on the cluster path;
  - `ClusterPathInv`: on the cluster path, the snapshot showed no node up. Any process now up or starting was starting at the snapshot, every pod starting at the snapshot is in `down`, and once the probe checks have passed no pod of `down` was starting.

  The argument is that the world never starts a process (`EnvironmentStep`), and the reconciler's steps on the cluster path start none before `start_db`. So a process up at `start_db` was starting at the snapshot, and the slow-startup filter would have stopped the cycle.
- **`Refinement`**: `Spec => RefinesAbstractRestart`. `RInvInit` and `RInvStep` show that `RInv == IInv /\ XInv` is inductive. `EnvNextIsAbstract` maps each environment action to itself. `RefinementStep` maps each reconciler step to an abstract step or a stutter: `StartDB` and `RestartNode` map to `StartCluster(ok)` and `RestartNodes(ok)`, where `ok` is the set of pods the call really starts, or to a stutter when it starts none. `ReIP` maps to `RemapAddresses`, a kill of a running process to `KillReadOnly`, a failed call to `CallFails`, and every other step to a stutter. `IInv` alone does not give the abstract guards, because they are about the world at the moment of the call. `XInv` adds what the snapshot still guarantees then:
  - `FactsIPBehind`: addresses only grow, so the snapshot's address is at most the current one;
  - `FactsDownStillDown`: a process the snapshot saw down or read-only is still down or read-only until the cycle starts one;
  - `DownNotUp` and `ToKillReadOnly`: what the down list and the kill list were chosen from;
  - `ReIPInConf`: the pods of the map file have an `admintools.conf` entry;
  - `ProbeActiveAfterCheck`: after the probe checks, every down pod's startupProbe is still active, because the checks read the container status, and the startupProbe only passes on a process that is up, while `FactsDownStillDown` keeps those pods down until the call.
- **`NoLivenessProbeRace`**: `Spec => []NoRestartRacingLivenessProbe`, from `RInv`.

`RestartSafetyProofs.tla` adds the following:
- **`IInvHolds`** and **`RInvHolds`**: `Spec => []IInv` and `Spec => []RInv`, the invariants themselves.
- **`KSafety0WholeStart`**: `ASSUME RestartReadOnly PROVE Spec => []KSafety0StartsWholeDatabase`. The strengthening is `KSafety0DownAll`: with k-safety 0, on the cluster path every database pod is in `down`. `reconcileCluster` only proceeds when no pod is up and writable. With `RestartReadOnly` set, a read-only pod is counted as down too. `PathConsistent` rules out the per-node steps that would shrink `down` on the cluster path.

  The hypothesis is needed. With `RestartReadOnly = FALSE`, TLC finds a behaviour in which `p1` is deleted and `p2` becomes read-only. The cluster path then starts `p1` alone and leaves the read-only secondary out of `start_db`. The flag is set by callers outside this tree, so the theorem states the condition instead of assuming it of the constants.

`CreateDBSetupProofs.tla` proves **`SetupInvariant`** (`Spec => []SetupInv`) and **`RestartNeededSafe`** (`Spec => []RestartNeededOnlyWithEncryptSQL`). `RestartNeededOnlyWithEncryptSQL` is not inductive: from a state at `UpdateCondition` without the file, one step would set the condition. `SetupInv` adds two facts:
- past the write, the file of this VerticaDB is in place;
- the cycle reaches `UpdateCondition` only for a VerticaDB with `EncryptSpreadComm`.

A failed remote call returns to `Idle` (`FailIdle`). A failed write may have written the file or not, and both cases keep the invariant.

`BackoffProofs.tla` proves **`ProbeWindowTracked`**: `Spec => []RequeueTracksProbeWindow`, for every `Periods` and `Thresholds` within the int32 range. TLC only checks 10 × 10 values. The argument:
- `ProductExact`: when period × threshold fits in int32, the three-digit int32 product is exactly the product, and it is not negative. The proof splits both factors into base-2^11 digits (`Digits`) and expands the product by columns (`ColumnProduct`). Columns at or above 2^33 must be zero (`NoHighColumns`), and carrying the low three columns gives back the product.
- `QuarterSmall`: below 2^24 the ulp is 1, so the delay is the window divided by 4.
- `UlpLarge` and `QuarterLarge`: from 2^24 on, the ulp is 2^j for some j in 1..7, and a quarter of the rounded value stays a natural of at most m. There is one case per ulp.
- `RequeueBounds` combines these for one probe.
- `ResultInv` (the result is the one computed from the last sample) carries them to every state.

It also proves **`CreateDBRefinement`**: `Spec => RefinesAbstractCreateDB`. The inductive invariant is `CreateDBRefInv`: `SetupInv`, plus `SetupUnderPolicy` (a cycle past `Idle` was started under `CreateNew`, and it is at `Mkdir` only with a posix path). `SetupInv` alone is not enough: without the policy fact, a `WriteSQL` or `ExecCmd` step would have no abstract step to map to. The argument:
- `RefInvInit` and `RefInvStep`: `CreateDBRefInv` holds initially and is kept by every step;
- `SharedDefs`: the instanced `VdbSpecs`, `NoFile`, `PostDBCreateSQL` and `CreatePolicy` are the local ones;
- `AbsInitHolds`: an initial state maps to an initial abstract state;
- `AbsStep`: every step maps to an abstract step or a stutter. There is one case per action, split on success or failure (and, for a failed write, on whether the file was written).

`IInv` and `RInv` are checked by TLC in `restart_safety` and `restart_refinement`. `SetupInv` and `CreateDBRefInv` were checked by TLC before they were proved. They are not among `createdb_setup`'s properties: every error they catch is also caught by `RestartNeededOnlyWithEncryptSQL` or `RefinesAbstractCreateDB`, which that run checks.

Some things are only model-checked, or not proved:
- `Convergence`: TLAPS does not handle liveness under fairness or `ENABLED`.
- `KSafety0StartsWholeDatabase` with `RestartReadOnly = FALSE`: it does not hold, as shown above.
- The fold- and sort-based algorithm modules (`ClusterNodeStatus`, `AddressMap`, `CreateDBHosts`). What a fold or a sort computes for every input needs induction over data, which the installed provers cannot instantiate. These modules also reach the `RECURSIVE` operators of `SequencesExt` and `Folds`, and a module with a theorem must not. `Backoff` has no recursion, so its proof is complete.

## 5. Not modelled

- The command, SQL and map-file strings: the models keep the options and statements they carry, not their text. `preCmdSetup` places `EncryptSpreadComm` and the subcluster name unescaped in a double-quoted bash heredoc. That is a quoting issue of the text, outside what is modelled.
- `GenericDatabaseInitializer` (not in this tree): the model lets it call the create_db hooks in any order. `license.GetPath` and `checkShardToNodeRatio` are not in this tree either.
- `podfacts.go` (not in this tree): the pod facts are modelled from the spec (§3, §4.1), so half the map entries of `RestartReconciler` are marked `spec_modelled`. The compat21/vnode name mapping is not modelled.
- EULA acceptance (`acceptEulaIfMissing`): an external one-time precondition.
- `prepLocalData` and `debugDumpAdmintoolsConf` (`vdb/paths.go`): each is one shell command with no state, and the dump's errors are ignored.
- The path constants (`pkg/paths/paths.go`).

## 6. Plan

1. Runs with `ScheduleOnly`, and without `--force` or a livenessProbe.
2. A composition of `CreateDBSetup` with the restart reconciler: the requeue after `EncryptSpreadComm` driving a restart.
3. A model of a pod rescheduled between the snapshot and `re_ip`, with a safety property on the addresses `re_ip` records (today only `Convergence` covers it).
