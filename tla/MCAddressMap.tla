--------------------------- MODULE MCAddressMap ---------------------------
(* Two compat21 nodes and two addresses; up to two conf lines (a node     *)
(* listed twice, or one line that does not match) and up to three pods    *)
(* (a pod list mixing running, stopped and unrecorded pods).              *)
EXTENDS AddressMap

CONSTANTS a1, a2

MCNodeNames == {"node0001", "node0002"}
MCAddrs == {a1, a2}
=============================================================================
