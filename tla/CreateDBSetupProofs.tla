--------------------------- MODULE CreateDBSetupProofs ---------------------------
(***************************************************************************)
(* Proofs about the create_db reconciler's hooks, for every bound on the  *)
(* faults and every VerticaDB: VerticaRestartNeeded is only ever set with  *)
(* the EncryptSpreadComm statement in the post-create SQL file.            *)
(***************************************************************************)
EXTENDS CreateDBSetup, TLAPS

(***************************************************************************)
(* RestartNeededOnlyWithEncryptSQL is not inductive: a state at            *)
(* "UpdateCondition" without the SQL file would set the condition in one   *)
(* step.  The strengthening records that preCmdSetup only goes past the    *)
(* write once the file is in place, only goes to UpdateCondition for a     *)
(* VerticaDB with EncryptSpreadComm, and that no step removes the file.   *)
(***************************************************************************)

\* Past the write of preCmdSetup, the SQL file of this VerticaDB is there.
SQLWrittenPastWrite ==
  pc \in {"Mkdir", "UpdateCondition"} => sqlFile = PostDBCreateSQL(vdb)

\* The condition is only ever about to be set, or set, for EncryptSpreadComm.
ConditionOnlyForEncrypt ==
  /\ pc = "UpdateCondition" => vdb.encryptSpreadComm
  /\ restartNeeded => sqlFile = PostDBCreateSQL(vdb) /\ vdb.encryptSpreadComm

\* The inductive invariant.
SetupInv == TypeOK /\ SQLWrittenPastWrite /\ ConditionOnlyForEncrypt

\* The invariant holds in every initial state.
LEMMA SetupInvInit == Init => SetupInv
BY CreateDBSetupAssumption DEF Init, SetupInv, TypeOK, SQLWrittenPastWrite,
                              ConditionOnlyForEncrypt

\* A failing remote call leaves the cycle at Idle.
LEMMA FailIdle == Fail => pc' = "Idle"
BY DEF Fail

\* Every step keeps the invariant.
LEMMA SetupInvStep ==
    ASSUME SetupInv, [Next]_vars
    PROVE  SetupInv'
<1> USE CreateDBSetupAssumption DEF SetupInv, TypeOK, SQLWrittenPastWrite,
                                    ConditionOnlyForEncrypt
<1>1. CASE ReconcileSkip
  BY <1>1 DEF ReconcileSkip
<1>2. CASE PreCmdSetup
  BY <1>2 DEF PreCmdSetup
<1>3. CASE WriteSQL
  <2>1. CASE sqlFile' = PostDBCreateSQL(vdb) /\ pc' = AfterSQL(vdb) /\ UNCHANGED faults
    BY <1>3, <2>1 DEF WriteSQL, AfterSQL
  <2>2. CASE Fail /\ sqlFile' \in {sqlFile, PostDBCreateSQL(vdb)}
    BY <1>3, <2>2, FailIdle DEF WriteSQL, Fail
  <2>3. QED
    BY <1>3, <2>1, <2>2 DEF WriteSQL
<1>4. CASE Mkdir
  BY <1>4 DEF Mkdir, AfterMkdir
<1>5. CASE UpdateCondition
  BY <1>5, FailIdle DEF UpdateCondition, Fail
<1>6. CASE ExecCmd
  BY <1>6, FailIdle DEF ExecCmd, Fail
<1>7. CASE PostCmdCleanup
  BY <1>7 DEF PostCmdCleanup
<1>8. CASE UNCHANGED vars
  BY <1>8 DEF vars
<1>9. QED
  BY <1>1, <1>2, <1>3, <1>4, <1>5, <1>6, <1>7, <1>8 DEF Next

\* SetupInv holds in every reachable state: past the write of preCmdSetup
\* the SQL file is in place, and the condition is only about to be set, or
\* set, for a VerticaDB with EncryptSpreadComm whose file holds the
\* statement.
THEOREM SetupInvariant == Spec => []SetupInv
BY SetupInvInit, SetupInvStep, PTL DEF Spec

\* preCmdSetup sets VerticaRestartNeeded only once the post-create SQL file
\* holds the EncryptSpreadComm statement, whatever order the initializer
\* calls the hooks in and whichever remote calls fail, for every bound on
\* the faults: a failed write returns before the condition is touched.
THEOREM RestartNeededSafe == Spec => []RestartNeededOnlyWithEncryptSQL
<1>1. SetupInv => RestartNeededOnlyWithEncryptSQL
  BY DEF SetupInv, ConditionOnlyForEncrypt, RestartNeededOnlyWithEncryptSQL,
         PostDBCreateSQL, Statements
<1>2. QED
  BY <1>1, SetupInvInit, SetupInvStep, PTL DEF Spec

(***************************************************************************)
(* The refinement of AbstractCreateDB.  Its guards are about the moment of *)
(* each remote call, so SetupInv is strengthened with where preCmdSetup    *)
(* can be: only under a create policy, and at mkdir only for a POSIX path. *)
(***************************************************************************)

\* preCmdSetup only runs for a create policy; it reaches mkdir only for a
\* POSIX communal path.
SetupUnderPolicy ==
  /\ pc # "Idle" => CreatePolicy(vdb)
  /\ pc = "Mkdir" => vdb.communal = "posix"

\* The invariant of the refinement proof.
CreateDBRefInv == SetupInv /\ SetupUnderPolicy

\* The refinement invariant holds initially.
LEMMA RefInvInit == Init => CreateDBRefInv
BY SetupInvInit DEF Init, CreateDBRefInv, SetupUnderPolicy

\* Every step keeps it: the init policy and the communal path never change,
\* and preCmdSetup only leaves Idle under a create policy and only goes to
\* mkdir for a POSIX path.
LEMMA RefInvStep ==
    ASSUME CreateDBRefInv, [Next]_vars
    PROVE  CreateDBRefInv'
<1>1. SetupInv'
  BY SetupInvStep DEF CreateDBRefInv
<1>2. SetupUnderPolicy'
  <2> USE DEF CreateDBRefInv, SetupUnderPolicy
  <2>1. CASE ReconcileSkip
    BY <2>1 DEF ReconcileSkip
  <2>2. CASE PreCmdSetup
    BY <2>2 DEF PreCmdSetup
  <2>3. CASE WriteSQL
    BY <2>3, FailIdle DEF WriteSQL, AfterSQL
  <2>4. CASE Mkdir
    BY <2>4 DEF Mkdir, AfterMkdir
  <2>5. CASE UpdateCondition
    BY <2>5, FailIdle DEF UpdateCondition
  <2>6. CASE ExecCmd
    BY <2>6 DEF ExecCmd, Fail
  <2>7. CASE PostCmdCleanup
    BY <2>7 DEF PostCmdCleanup
  <2>8. CASE UNCHANGED vars
    BY <2>8 DEF vars
  <2>9. QED
    BY <2>1, <2>2, <2>3, <2>4, <2>5, <2>6, <2>7, <2>8 DEF Next
<1>3. QED
  BY <1>1, <1>2 DEF CreateDBRefInv

\* AbstractCreateDB reads the VerticaDB and the SQL file through the same
\* definitions as the hooks.
LEMMA SharedDefs ==
  /\ Abs!VdbSpecs = VdbSpecs
  /\ Abs!NoFile = NoFile
  /\ \A v : Abs!PostDBCreateSQL(v) = PostDBCreateSQL(v)
  /\ \A v : Abs!CreatePolicy(v) = CreatePolicy(v)
BY DEF Abs!VdbSpecs, VdbSpecs, Abs!NoFile, NoFile, Abs!PostDBCreateSQL,
       PostDBCreateSQL, Abs!Statements, Statements, Abs!CreatePolicy,
       CreatePolicy, Abs!Policies, Policies, Abs!CommunalKinds, CommunalKinds

\* The initial states of the hooks are initial states of AbstractCreateDB.
LEMMA AbsInitHolds == Init => Abs!Init
BY SharedDefs DEF Init, Abs!Init

\* Every step of the hooks is a step of AbstractCreateDB or leaves its
\* state alone: a successful write (or a failed one that still wrote the
\* file) writes the post-create SQL, an effective mkdir creates the
\* communal directory, a successful condition update requests the restart,
\* a successful create_db creates the database, and every other step,
\* failed calls included, is a stutter.
LEMMA AbsStep ==
    ASSUME CreateDBRefInv, [Next]_vars
    PROVE  [Abs!Next]_Abs!avars
<1> USE SharedDefs DEF CreateDBRefInv, SetupInv, SQLWrittenPastWrite,
                       ConditionOnlyForEncrypt, SetupUnderPolicy
<1>1. CASE ReconcileSkip
  BY <1>1 DEF ReconcileSkip, Abs!avars
<1>2. CASE PreCmdSetup
  BY <1>2 DEF PreCmdSetup, Abs!avars
<1>3. CASE WriteSQL
  <2>1. CASE sqlFile' = PostDBCreateSQL(vdb)
    BY <1>3, <2>1 DEF WriteSQL, Abs!Next, Abs!WritePostCreateSQL
  <2>2. CASE sqlFile' = sqlFile
    BY <1>3, <2>2 DEF WriteSQL, Fail, Abs!avars
  <2>3. QED
    BY <1>3, <2>1, <2>2 DEF WriteSQL, Fail
<1>4. CASE Mkdir
  <2>1. CASE communalDir' = TRUE
    BY <1>4, <2>1 DEF Mkdir, Abs!Next, Abs!CreateCommunalDir
  <2>2. CASE communalDir' = communalDir
    BY <1>4, <2>2 DEF Mkdir, Abs!avars
  <2>3. QED
    BY <1>4, <2>1, <2>2 DEF Mkdir
<1>5. CASE UpdateCondition
  <2>1. CASE restartNeeded' = TRUE /\ pc' = "Idle" /\ result' = "ok" /\ UNCHANGED faults
    BY <1>5, <2>1 DEF UpdateCondition, Abs!Next, Abs!RequestRestart
  <2>2. CASE Fail /\ UNCHANGED restartNeeded
    BY <1>5, <2>2 DEF UpdateCondition, Abs!avars
  <2>3. QED
    BY <1>5, <2>1, <2>2 DEF UpdateCondition
<1>6. CASE ExecCmd
  <2>1. CASE createdWith' = sqlFile /\ result' = "ok" /\ UNCHANGED faults
    BY <1>6, <2>1 DEF ExecCmd, Abs!Next, Abs!CreateDatabase
  <2>2. CASE Fail /\ UNCHANGED createdWith
    BY <1>6, <2>2 DEF ExecCmd, Abs!avars
  <2>3. QED
    BY <1>6, <2>1, <2>2 DEF ExecCmd
<1>7. CASE PostCmdCleanup
  BY <1>7 DEF PostCmdCleanup, Abs!avars
<1>8. CASE UNCHANGED vars
  BY <1>8 DEF vars, Abs!avars
<1>9. QED
  BY <1>1, <1>2, <1>3, <1>4, <1>5, <1>6, <1>7, <1>8 DEF Next

\* The create_db hooks implement AbstractCreateDB, for every bound on the
\* faults and every VerticaDB: whatever order the initializer calls them
\* in and whichever remote calls fail, the SQL file is only written with
\* this VerticaDB's statements, the POSIX communal directory is only made
\* once the file is in place, a restart is only asked for with the
\* EncryptSpreadComm statement in the file, and create_db only runs for a
\* create policy.
THEOREM CreateDBRefinement == Spec => RefinesAbstractCreateDB
<1>1. CreateDBRefInv /\ [Next]_vars => CreateDBRefInv' /\ [Abs!Next]_Abs!avars
  BY RefInvStep, AbsStep
<1>2. QED
  BY <1>1, RefInvInit, AbsInitHolds, PTL DEF Spec, RefinesAbstractCreateDB, Abs!Spec

=============================================================================
