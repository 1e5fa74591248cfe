----------------------------- MODULE CreateDBHosts -----------------------------
(***************************************************************************)
(* The hosts of create_db (pkg/controllers/vdb/createdb_reconciler.go):    *)
(* getFirstPrimarySubcluster picks the subcluster, getPodList takes its    *)
(* pods from the pod facts and orders them by their legacy (compat21)      *)
(* node name, keeping only the first with k-safety 0, findPodToRunInit     *)
(* takes pod 0 of it, and genCmd builds the create_db options.             *)
(*                                                                         *)
(* A pod is <<subcluster index, pod index>>; a legacy name node000k is the *)
(* number k (four digits, so the string order is the number order).  The  *)
(* VerticaDB is fixed in a run; the pod facts are found one pod at a time, *)
(* so every partial set of facts, with every assignment of legacy names,   *)
(* is met.                                                                 *)
(***************************************************************************)
EXTENDS Integers, Sequences, FiniteSets, TLC

CONSTANTS MaxSubclusters, MaxSize, LegacyNames

ASSUME CreateDBHostsAssumption ==
  /\ MaxSubclusters \in Nat \ {0}
  /\ MaxSize \in Nat \ {0}
  /\ LegacyNames \subseteq Nat

\* Spec.Subclusters: a non-empty list of subclusters.
SubclusterRecs == [isPrimary : BOOLEAN, size : 1 .. MaxSize]
SubclusterLists == UNION {[1 .. n -> SubclusterRecs] : n \in 1 .. MaxSubclusters}

\* The fields of the VerticaDB the pod list and the command read.
VdbSpecs == [subclusters : SubclusterLists, kSafety0 : BOOLEAN,
             communalPath : BOOLEAN, shardCount : {0, 3},
             skipPackageInstallPolicy : BOOLEAN, versionOK : BOOLEAN]

Pods(v) == UNION {{<<sc, i>> : i \in 0 .. v.subclusters[sc].size - 1} :
                   sc \in DOMAIN v.subclusters}

\* getFirstPrimarySubcluster: the first primary, else the first one.
GetFirstPrimarySubcluster(v) ==
  LET prim == {i \in DOMAIN v.subclusters : v.subclusters[i].isPrimary}
  IN  IF prim = {} THEN 1 ELSE CHOOSE i \in prim : \A j \in prim : i <= j

\* The pods of the first primary subcluster in pod index order.
GenPodNames(v) ==
  LET sc == GetFirstPrimarySubcluster(v)
  IN  [k \in 1 .. v.subclusters[sc].size |-> <<sc, k - 1>>]

\* getPodList without the sort by legacy name.
MutGetPodListUnsorted(v, detail) ==
  LET pods == GenPodNames(v) IN
  IF \E k \in DOMAIN pods : pods[k] \notin DOMAIN detail
  THEN [list |-> <<>>, ok |-> FALSE]
  ELSE [list |-> IF v.kSafety0 THEN SubSeq(pods, 1, 1) ELSE pods, ok |-> TRUE]

\* getPodList: bail out if a pod has no facts; sort by legacy name; with
\* k-safety 0 keep only the first.
GetPodList(v, detail) ==
  LET pods == GenPodNames(v) IN
  IF \E k \in DOMAIN pods : pods[k] \notin DOMAIN detail
  THEN [list |-> <<>>, ok |-> FALSE]
  ELSE LET sorted == SortSeq(pods, LAMBDA a, b : detail[a] < detail[b])
       IN  [list |-> IF v.kSafety0 THEN SubSeq(sorted, 1, 1) ELSE sorted, ok |-> TRUE]

\* findPodToRunInit: pod 0 of the first primary subcluster, if known.
FindPodToRunInit(v, detail) ==
  LET pn == <<GetFirstPrimarySubcluster(v), 0>>
  IN  [pod |-> pn, ok |-> pn \in DOMAIN detail]

\* genCmd, by the options it passes; the license lookup is not modelled.
GenCmd(v, hostList) ==
  [hosts |-> hostList,
   communal |-> v.communalPath,
   shardCount |-> IF v.shardCount > 0 THEN v.shardCount ELSE "none",
   skipPackageInstall |-> v.skipPackageInstallPolicy /\ v.versionOK]

VARIABLES vdb, detail
vars == <<vdb, detail>>

Init == vdb \in VdbSpecs /\ detail = <<>>

\* The pod facts of one more pod are collected, with its legacy name;
\* installation gives every pod its own name.
CollectPodFact ==
  \E p \in Pods(vdb) \ DOMAIN detail, n \in LegacyNames :
    /\ \A q \in DOMAIN detail : detail[q] # n
    /\ detail' = (p :> n) @@ detail
    /\ UNCHANGED vdb

Spec == Init /\ [][CollectPodFact]_vars

TypeOK == vdb \in VdbSpecs /\ DOMAIN detail \subseteq Pods(vdb)

FirstPrimaryPods == {<<GetFirstPrimarySubcluster(vdb), i>> :
                       i \in 0 .. vdb.subclusters[GetFirstPrimarySubcluster(vdb)].size - 1}

(***************************************************************************)
(* create_db gets the hosts its comment promises: the pod list is built    *)
(* exactly when every pod of the first primary subcluster has facts, and   *)
(* then the k-th host is the pod with the k-th lowest legacy name among    *)
(* them -- all of them, or only the lowest with k-safety 0 -- so the vnode *)
(* number create_db assigns matches the legacy node number, on which       *)
(* restart_db relies.                                                      *)
(***************************************************************************)
HostsFollowLegacyNames ==
  LET r == GetPodList(vdb, detail)
      hosts == GenCmd(vdb, r.list).hosts
  IN  /\ r.ok <=> FirstPrimaryPods \subseteq DOMAIN detail
      /\ r.ok =>
           /\ Len(hosts) = IF vdb.kSafety0 THEN 1 ELSE Cardinality(FirstPrimaryPods)
           /\ \A k \in 1 .. Len(hosts) :
                /\ hosts[k] \in FirstPrimaryPods
                /\ Cardinality({p \in FirstPrimaryPods : detail[p] < detail[hosts[k]]}) = k - 1

=============================================================================
