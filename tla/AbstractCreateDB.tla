--------------------------- MODULE AbstractCreateDB ---------------------------
(***************************************************************************)
(* What the create_db reconciler promises, as atomic operations on the     *)
(* VerticaDB's world: the post-create SQL file, the POSIX communal         *)
(* directory, the VerticaRestartNeeded condition and the database.  The    *)
(* remote calls, their order, their failures and what a hook returns are   *)
(* hidden; each operation carries the guard that makes it safe.            *)
(***************************************************************************)
EXTENDS CreateDBVdb

VARIABLES vdb, sqlFile, communalDir, restartNeeded, createdWith

avars == <<vdb, sqlFile, communalDir, restartNeeded, createdWith>>

Init ==
  /\ vdb \in VdbSpecs
  /\ sqlFile = NoFile
  /\ communalDir = FALSE
  /\ restartNeeded = FALSE
  /\ createdWith = NoFile

\* The SQL file is only ever written, for a create policy, with the
\* statements this VerticaDB calls for.
WritePostCreateSQL ==
  /\ CreatePolicy(vdb)
  /\ sqlFile' = PostDBCreateSQL(vdb)
  /\ UNCHANGED <<vdb, communalDir, restartNeeded, createdWith>>

\* The communal directory is created only for a POSIX path, and only once
\* the SQL file is in place.
CreateCommunalDir ==
  /\ CreatePolicy(vdb) /\ vdb.communal = "posix"
  /\ sqlFile = PostDBCreateSQL(vdb)
  /\ communalDir' = TRUE
  /\ UNCHANGED <<vdb, sqlFile, restartNeeded, createdWith>>

\* A restart is asked for only for EncryptSpreadComm, and only once the
\* file that sets it is in place.
RequestRestart ==
  /\ vdb.encryptSpreadComm
  /\ sqlFile = PostDBCreateSQL(vdb)
  /\ restartNeeded' = TRUE
  /\ UNCHANGED <<vdb, sqlFile, communalDir, createdWith>>

\* create_db runs, for a create policy, with the file as it is.
CreateDatabase ==
  /\ CreatePolicy(vdb)
  /\ createdWith' = sqlFile
  /\ UNCHANGED <<vdb, sqlFile, communalDir, restartNeeded>>

Next == WritePostCreateSQL \/ CreateCommunalDir \/ RequestRestart \/ CreateDatabase

Spec == Init /\ [][Next]_avars

=============================================================================
