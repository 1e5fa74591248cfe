--------------------------- MODULE ClusterNodeStatus ---------------------------
(***************************************************************************)
(* The cluster's view of its nodes as the restart reconciler reads it:     *)
(* the stdout of "admintools -t list_allnodes" is parsed by                *)
(* parseClusterNodeStatus, and removePodsWithClusterUpState keeps the down *)
(* pods whose node the listing does not report UP                          *)
(* (pkg/controllers/vdb/restart_reconciler.go).                            *)
(*                                                                         *)
(* The text is abstracted to what the parser tells apart: stdout is the    *)
(* sequence strings.Split(stdout, "\n") returns, a line the sequence of    *)
(* cells strings.Split(line, "|") returns, and a cell a text token with or *)
(* without the blanks strings.Trim(cell, " ") removes.  The output arrives *)
(* one line at a time, so every listing of at most MaxLines lines is       *)
(* reached, truncated ones included.                                       *)
(***************************************************************************)
EXTENDS Integers, Sequences, SequencesExt

\* Vertica node names (model values); a pod is named by its node here.
CONSTANTS VNodes, MaxLines

ASSUME ListingAssumption == MaxLines \in Nat \ {0}

\* const StateUp = "UP"; the other state text of the listing.
StateUp == "UP"
StateDown == "DOWN"

\* A cell is its text and whether blanks surround it.
Cell(text, padded) == [text |-> text, padded |-> padded]

\* strings.Trim(cell, " ").
Trim(c) == c.text

\* A row "name | address | STATE | version | db" cut after ncols cells,
\* the header row, and the empty line a trailing "\n" leaves.
Row(name, state, ncols, padded) ==
  SubSeq(<<Cell(name, padded), Cell("addr", padded), Cell(state, padded),
           Cell("version", padded), Cell("db", padded)>>, 1, ncols)
HeaderRow == Row("Node", "State", 5, TRUE)
EmptyLine == <<Cell("", FALSE)>>

Lines == {HeaderRow, EmptyLine}
           \cup {Row(n, s, k, pd) : n \in VNodes, s \in {StateUp, StateDown},
                                    k \in {3, 4}, pd \in BOOLEAN}

\* const ColHeaderCount = 2; const ListNodesColCount = 4.
ColHeaderCount == 2
ListNodesColCount == 4

\* One data line: skipped with fewer than four columns, otherwise it
\* sets stateMap[vnode] = state, overwriting an earlier line.
ParseLine(stateMap, cols) ==
  IF Len(cols) < ListNodesColCount THEN stateMap
  ELSE (Trim(cols[1]) :> Trim(cols[3])) @@ stateMap

\* An off-by-one in the header count: only one header line skipped.
MutParseClusterNodeStatusOneHeader(lines) ==
  IF Len(lines) <= 1 THEN <<>>
  ELSE FoldLeft(ParseLine, <<>>, SubSeq(lines, 2, Len(lines)))

\* parseClusterNodeStatus: the map from node name to state text.
ParseClusterNodeStatus(lines) ==
  IF Len(lines) <= ColHeaderCount THEN <<>>
  ELSE FoldLeft(ParseLine, <<>>, SubSeq(lines, ColHeaderCount + 1, Len(lines)))

\* removePodsWithClusterUpState: keep a pod unless its node is listed UP.
RemovePodsWithClusterUpState(pods, clusterState) ==
  {p \in pods : p \notin DOMAIN clusterState \/ clusterState[p] # StateUp}

VARIABLE stdout

Init == \E l \in Lines : stdout = <<l>>

\* ExecAdmintools hands over one more line of output.
ReceiveLine ==
  /\ Len(stdout) < MaxLines
  /\ \E l \in Lines : stdout' = Append(stdout, l)

Spec == Init /\ [][ReceiveLine]_stdout

TypeOK == stdout \in Seq(Lines) /\ Len(stdout) \in 1 .. MaxLines

\* Reference reading of the listing, from the spec's contract: the data
\* lines are those after the two header lines with at least four columns;
\* a node counts as UP when the last data line naming it says UP.
DataLines == {i \in (ColHeaderCount + 1) .. Len(stdout) :
                Len(stdout[i]) >= ListNodesColCount}
Names(i, n) == Trim(stdout[i][1]) = n
ListedUp(n) ==
  \E i \in DataLines :
    /\ Names(i, n)
    /\ Trim(stdout[i][3]) = StateUp
    /\ \A j \in DataLines : j > i => ~Names(j, n)

(***************************************************************************)
(* removePodsWithClusterUpState, fed by parseClusterNodeStatus, drops from  *)
(* the down list exactly the pods whose node the last well-formed data line *)
(* of the listing reports UP: headers, truncated rows and a missing node    *)
(* never make a pod count as up, and a later line overrides an earlier one. *)
(***************************************************************************)
ListingDecidesDownPods ==
  RemovePodsWithClusterUpState(VNodes, ParseClusterNodeStatus(stdout))
    = {n \in VNodes : ~ListedUp(n)}

=============================================================================
