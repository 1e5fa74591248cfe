------------------------------ MODULE CreateDBVdb ------------------------------
(***************************************************************************)
(* What the create_db reconciler reads of the VerticaDB and what it writes *)
(* into the post-create SQL file (pkg/controllers/vdb/createdb_reconciler.go), *)
(* shared by the hooks (CreateDBSetup) and what they promise               *)
(* (AbstractCreateDB).                                                     *)
(***************************************************************************)

\* Spec.InitPolicy values; the communal path: none, a POSIX path, or one
\* with a known prefix (s3://, gs://, ...).
Policies == {"Create", "CreateSkipPackageInstall", "Revive", "ScheduleOnly"}
CommunalKinds == {"none", "posix", "known"}

\* The fields of the VerticaDB these hooks read.
VdbSpecs == [initPolicy : Policies, isEON : BOOLEAN, kSafety0 : BOOLEAN,
             encryptSpreadComm : BOOLEAN, communal : CommunalKinds]

\* The post-create SQL file by its statements; NoFile before it exists.
Statements == {"renameSubcluster", "setPreferredKSafe0", "encryptSpreadComm"}
NoFile == [present |-> FALSE, stmts |-> {}]
PostDBCreateSQL(v) ==
  [present |-> TRUE,
   stmts |-> {s \in Statements :
                \/ s = "renameSubcluster" /\ v.isEON
                \/ s = "setPreferredKSafe0" /\ v.kSafety0
                \/ s = "encryptSpreadComm" /\ v.encryptSpreadComm}]

\* Reconcile runs the initializer only with a create init policy.
CreatePolicy(v) == v.initPolicy \in {"Create", "CreateSkipPackageInstall"}

=============================================================================
