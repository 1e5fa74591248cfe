------------------------------ MODULE AddressMap ------------------------------
(***************************************************************************)
(* The re_ip address map (pkg/controllers/vdb/restart_reconciler.go):      *)
(* fetchOldIPsFromNode greps the node lines of admintools.conf and         *)
(* parseNodesFromAdmintoolConf turns them into the old address of each     *)
(* compat21 node; genMapFile walks the pods in order and builds the        *)
(* "<old> <new>" pairs, whether an address changes, and ok.                *)
(*                                                                         *)
(* A line of admintools.conf that grep '^node[0-9]' passes is abstracted   *)
(* to what the regex ^(node\d{4}) = ([\d.:a-fA-F]+), tells apart: its key  *)
(* (a compat21 name, or a name with another digit count), the address     *)
(* text (empty, or an address) and whether a comma follows it.  The conf   *)
(* lines and the pods arrive one at a time, so every conf of at most       *)
(* MaxConfLines lines and every pod list of at most MaxPods pods is met.   *)
(***************************************************************************)
EXTENDS Integers, Sequences, SequencesExt

\* compat21 node names (node\d{4}), addresses (model values), bounds.
CONSTANTS NodeNames, Addrs, MaxConfLines, MaxPods

ASSUME AddressMapAssumption ==
  /\ MaxConfLines \in Nat
  /\ MaxPods \in Nat

\* A key grep passes but the regex does not ("node1 = ..."), and the
\* empty address text.
OtherKey == "node1"
NoAddr == ""

ConfLines == [key : NodeNames \cup {OtherKey}, addr : Addrs \cup {NoAddr},
              comma : BOOLEAN]

\* What re.FindAllStringSubmatch(line, 1) matches.
MatchesNodeRegex(l) == l.key \in NodeNames /\ l.addr # NoAddr /\ l.comma

\* parseNodesFromAdmintoolConf: ips[node] = address; a later line for the
\* same node overwrites an earlier one.
ParseNodesFromAdmintoolConf(lines) ==
  FoldLeft(LAMBDA ips, l : IF MatchesNodeRegex(l) THEN (l.key :> l.addr) @@ ips
                           ELSE ips,
           <<>>, lines)

\* The fields of a PodFact that genMapFile reads.
PodFacts == [isPodRunning : BOOLEAN, compat21NodeName : NodeNames, podIP : Addrs]

\* The lookup's ok kept for the next pod: the reset to true is missing.
MutGenMapFileStepNoOkReset(oldIPs, acc, pod) ==
  IF acc.done THEN acc
  ELSE IF ~pod.isPodRunning THEN [acc EXCEPT !.ok = FALSE, !.done = TRUE]
  ELSE IF pod.compat21NodeName \notin DOMAIN oldIPs THEN [acc EXCEPT !.ok = FALSE]
  ELSE LET oldIP == oldIPs[pod.compat21NodeName]
       IN [acc EXCEPT !.ok = TRUE,
                      !.ipChanging = @ \/ oldIP # pod.podIP,
                      !.mapContents = Append(@, <<oldIP, pod.podIP>>)]

\* One iteration of genMapFile's loop; acc.done records the early return.
GenMapFileStep(oldIPs, acc, pod) ==
  IF acc.done THEN acc
  ELSE IF ~pod.isPodRunning THEN [acc EXCEPT !.ok = FALSE, !.done = TRUE]
  ELSE IF pod.compat21NodeName \notin DOMAIN oldIPs THEN [acc EXCEPT !.ok = TRUE]
  ELSE LET oldIP == oldIPs[pod.compat21NodeName]
       IN [acc EXCEPT !.ok = TRUE,
                      !.ipChanging = @ \/ oldIP # pod.podIP,
                      !.mapContents = Append(@, <<oldIP, pod.podIP>>)]

\* genMapFile(oldIPs, pods) = (mapContents, ipChanging, ok).
GenMapFile(oldIPs, pods) ==
  IF pods = <<>>
  THEN [mapContents |-> <<>>, ipChanging |-> FALSE, ok |-> FALSE]
  ELSE LET r == FoldLeft(LAMBDA acc, pod : GenMapFileStep(oldIPs, acc, pod),
                         [mapContents |-> <<>>, ipChanging |-> FALSE,
                          ok |-> TRUE, done |-> FALSE],
                         pods)
       IN [mapContents |-> r.mapContents, ipChanging |-> r.ipChanging,
           ok |-> r.ok]

VARIABLES conf, pods
vars == <<conf, pods>>

Init == conf = <<>> /\ pods = <<>>

\* The grep in the AT pod returns one more node line.
ReadConfLine ==
  /\ Len(conf) < MaxConfLines
  /\ \E l \in ConfLines : conf' = Append(conf, l)
  /\ UNCHANGED pods

\* One more pod in the list handed to genMapFile.
AddPod ==
  /\ Len(pods) < MaxPods
  /\ \E p \in PodFacts : pods' = Append(pods, p)
  /\ UNCHANGED conf

Next == ReadConfLine \/ AddPod

Spec == Init /\ [][Next]_vars

TypeOK == conf \in Seq(ConfLines) /\ pods \in Seq(PodFacts)

OldIPs == ParseNodesFromAdmintoolConf(conf)
Result == GenMapFile(OldIPs, pods)

\* Reference reading of the conf: the address on the last matching line.
HasOldIP(n) == \E i \in 1 .. Len(conf) : MatchesNodeRegex(conf[i]) /\ conf[i].key = n
LastOldIP(n) ==
  conf[CHOOSE i \in 1 .. Len(conf) :
         /\ MatchesNodeRegex(conf[i]) /\ conf[i].key = n
         /\ \A j \in (i + 1) .. Len(conf) :
              ~(MatchesNodeRegex(conf[j]) /\ conf[j].key = n)].addr

\* The pods that have an old address, in list order.
Mapped == SelectSeq(pods, LAMBDA p : HasOldIP(p.compat21NodeName))

(***************************************************************************)
(* genMapFile fed by parseNodesFromAdmintoolConf agrees with the spec's    *)
(* contract for the address map builder: ok exactly when the pod list is   *)
(* non-empty and every pod runs; then one pair per pod with a recorded old *)
(* address (the last well-formed conf line), in pod order, pods without    *)
(* one skipped; and ipChanging exactly when some pair changes address.     *)
(***************************************************************************)
ReIPMapFollowsConf ==
  /\ Result.ok <=> (pods # <<>> /\ \A i \in 1 .. Len(pods) : pods[i].isPodRunning)
  /\ Result.ok =>
       /\ Result.mapContents
            = [i \in 1 .. Len(Mapped) |->
                 <<LastOldIP(Mapped[i].compat21NodeName), Mapped[i].podIP>>]
       /\ Result.ipChanging
            <=> \E i \in 1 .. Len(Result.mapContents) :
                  Result.mapContents[i][1] # Result.mapContents[i][2]

(***************************************************************************)
(* The spec's rule for a failed build: whenever a target pod is not        *)
(* running, ok is false and the returned pair list is empty.               *)
(***************************************************************************)
FailedMapIsEmpty ==
  ~Result.ok => Result.mapContents = <<>>

=============================================================================
