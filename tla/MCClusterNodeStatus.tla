------------------------ MODULE MCClusterNodeStatus ------------------------
(* Two nodes; listings of up to four lines: two header lines and two data *)
(* lines, enough for a node listed twice and for a truncated row.         *)
EXTENDS ClusterNodeStatus

CONSTANTS n1, n2

MCVNodes == {n1, n2}
=============================================================================
