------------------------ MODULE MCRestartReconciler ------------------------
(* Model-checking instance: three pods, p1 a primary, p2 a secondary, both *)
(* in the database, p3 installed but not yet added to it.                  *)
EXTENDS RestartSafetyProofs

CONSTANTS p1, p2, p3

MCPods == {p1, p2, p3}
MCInstalledPods == {p1, p2, p3}
MCDBPods == {p1, p2}
MCPrimaries == {p1}

=============================================================================
