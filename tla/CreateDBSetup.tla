----------------------------- MODULE CreateDBSetup -----------------------------
(***************************************************************************)
(* The hooks of the create_db reconciler that act on the world             *)
(* (pkg/controllers/vdb/createdb_reconciler.go): Reconcile's init-policy   *)
(* check, preCmdSetup (write the post-create SQL file, create a POSIX      *)
(* communal directory, set the VerticaRestartNeeded condition), execCmd    *)
(* (create_db) and postCmdCleanup.  They are called by the database        *)
(* initializer, which is not in this source tree: the model lets it call   *)
(* them in any order and any number of times.                              *)
(*                                                                         *)
(* The SQL file is abstracted to the statements it holds.  Every remote    *)
(* call may fail, and a failed exec may still have run its command.        *)
(***************************************************************************)
EXTENDS Naturals, CreateDBVdb

CONSTANT MaxFaults

ASSUME CreateDBSetupAssumption == MaxFaults \in Nat

VARIABLES
  vdb,            \* the VerticaDB
  pc,             \* the next remote call of preCmdSetup, or "Idle"
  sqlFile,        \* PostDBCreateSQLFile in the init pod
  communalDir,    \* the POSIX communal directory exists
  restartNeeded,  \* condition VerticaRestartNeeded is True
  createdWith,    \* the SQL statements create_db ran, or NoFile
  result,         \* what the last hook returned
  faults          \* failed remote calls so far

vars == <<vdb, pc, sqlFile, communalDir, restartNeeded, createdWith, result, faults>>

Init ==
  /\ vdb \in VdbSpecs
  /\ pc = "Idle"
  /\ sqlFile = NoFile
  /\ communalDir = FALSE
  /\ restartNeeded = FALSE
  /\ createdWith = NoFile
  /\ result = "ok"
  /\ faults = 0

\* A remote call fails; the command may or may not have run.
Fail == faults < MaxFaults /\ faults' = faults + 1 /\ result' = "err" /\ pc' = "Idle"

\* Where preCmdSetup goes after the SQL file is in place.
AfterSQL(v) == IF v.communal = "posix" THEN "Mkdir"
               ELSE IF v.encryptSpreadComm THEN "UpdateCondition" ELSE "Idle"
AfterMkdir(v) == IF v.encryptSpreadComm THEN "UpdateCondition" ELSE "Idle"

\* Reconcile with another init policy returns at once.
ReconcileSkip ==
  /\ pc = "Idle" /\ ~CreatePolicy(vdb)
  /\ result' = "ok"
  /\ UNCHANGED <<vdb, pc, sqlFile, communalDir, restartNeeded, createdWith, faults>>

\* The initializer calls preCmdSetup.
PreCmdSetup ==
  /\ pc = "Idle" /\ CreatePolicy(vdb)
  /\ pc' = "WriteSQL"
  /\ UNCHANGED <<vdb, sqlFile, communalDir, restartNeeded, createdWith, result, faults>>

\* Mutant of WriteSQL: the error of the write is not returned.
MutWriteSQLIgnoreError ==
  /\ pc = "WriteSQL"
  /\ \/ /\ sqlFile' = PostDBCreateSQL(vdb) /\ pc' = AfterSQL(vdb)
        /\ UNCHANGED <<result, faults>>
     \/ /\ faults < MaxFaults /\ faults' = faults + 1 /\ sqlFile' = sqlFile
        /\ pc' = AfterSQL(vdb) /\ UNCHANGED result
  /\ UNCHANGED <<vdb, communalDir, restartNeeded, createdWith>>

\* cat > PostDBCreateSQLFile <<< "<sql>": on error preCmdSetup returns it.
WriteSQL ==
  /\ pc = "WriteSQL"
  /\ \/ /\ sqlFile' = PostDBCreateSQL(vdb) /\ pc' = AfterSQL(vdb)
        /\ result' = IF AfterSQL(vdb) = "Idle" THEN "ok" ELSE result
        /\ UNCHANGED faults
     \/ Fail /\ sqlFile' \in {sqlFile, PostDBCreateSQL(vdb)}
  /\ UNCHANGED <<vdb, communalDir, restartNeeded, createdWith>>

\* mkdir -p of a POSIX communal path; its errors are ignored.
Mkdir ==
  /\ pc = "Mkdir"
  /\ communalDir' \in {communalDir, TRUE}
  /\ pc' = AfterMkdir(vdb)
  /\ result' = IF AfterMkdir(vdb) = "Idle" THEN "ok" ELSE result
  /\ UNCHANGED <<vdb, sqlFile, restartNeeded, createdWith, faults>>

\* vdbstatus.UpdateCondition(VerticaRestartNeeded, True).
UpdateCondition ==
  /\ pc = "UpdateCondition"
  /\ \/ restartNeeded' = TRUE /\ pc' = "Idle" /\ result' = "ok" /\ UNCHANGED faults
     \/ Fail /\ UNCHANGED restartNeeded
  /\ UNCHANGED <<vdb, sqlFile, communalDir, createdWith>>

\* execCmd: admintools -t create_db --sql=PostDBCreateSQLFile.
ExecCmd ==
  /\ pc = "Idle" /\ CreatePolicy(vdb)
  /\ \/ createdWith' = sqlFile /\ result' = "ok" /\ UNCHANGED faults
     \/ Fail /\ UNCHANGED createdWith
  /\ UNCHANGED <<vdb, pc, sqlFile, communalDir, restartNeeded>>

\* postCmdCleanup: requeue to drive the restart for encryptSpreadComm.
PostCmdCleanup ==
  /\ pc = "Idle" /\ CreatePolicy(vdb)
  /\ result' = IF vdb.encryptSpreadComm THEN "requeue" ELSE "ok"
  /\ UNCHANGED <<vdb, pc, sqlFile, communalDir, restartNeeded, createdWith, faults>>

Next == ReconcileSkip \/ PreCmdSetup \/ WriteSQL \/ Mkdir \/ UpdateCondition
        \/ ExecCmd \/ PostCmdCleanup

Spec == Init /\ [][Next]_vars

TypeOK ==
  /\ vdb \in VdbSpecs
  /\ pc \in {"Idle", "WriteSQL", "Mkdir", "UpdateCondition"}
  /\ sqlFile \in {NoFile, PostDBCreateSQL(vdb)}
  /\ faults \in 0 .. MaxFaults

\* The hooks implement AbstractCreateDB: the abstract state is the hooks'
\* world as it is, and pc, result and faults are hidden.
Abs == INSTANCE AbstractCreateDB

(***************************************************************************)
(* preCmdSetup sets VerticaRestartNeeded only once the post-create SQL     *)
(* file that changes EncryptSpreadComm is in place: a failed write returns *)
(* before the condition is touched, so a retried or partly failed setup    *)
(* never asks for a restart the database would not need.                   *)
(***************************************************************************)
RestartNeededOnlyWithEncryptSQL ==
  restartNeeded => sqlFile.present /\ "encryptSpreadComm" \in sqlFile.stmts

(***************************************************************************)
(* Every behaviour of the hooks, called in any order by the initializer,   *)
(* with any remote call failing, is a behaviour of AbstractCreateDB: the   *)
(* SQL file is only written with this VerticaDB's statements, the POSIX    *)
(* communal directory only made after the write succeeded, the restart     *)
(* only asked for once the EncryptSpreadComm statement is in the file, and *)
(* create_db only run for a create policy.                                 *)
(***************************************************************************)
RefinesAbstractCreateDB == Abs!Spec

=============================================================================
