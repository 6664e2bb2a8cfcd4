--------------------------- MODULE PublisherProofs ---------------------------
(***************************************************************************)
(* Theorems about Publisher, for every set of bundles, every configuration  *)
(* and every set of faults.  RunInvariant is inductive by itself.  With the *)
(* faults of CounterSafe CounterInvariant is inductive relative to it, and  *)
(* then every step of the pipeline is a step of LiveManifest or a stutter.  *)
(* ArchiveInvariant adds what pruning by name spares, under a condition of  *)
(* its own, and GuardInvariant what the shrink guard has compared.          *)
(***************************************************************************)
EXTENDS ShrinkGuard, SequenceTheorems, FiniteSetTheorems, TLAPS

-----------------------------------------------------------------------------
(* How a run goes on or ends, and what a request does to the context.       *)

\* A run that goes on or returns keeps the types of its own variables
\* (Weekly's return paths and execute).
LEMMA ReturnType ==
    ASSUME ProcessTypeOK, ctx' \in {"active", "cancelled"},
           NEW failed \in BOOLEAN, Return(failed)
    PROVE  ProcessTypeOK'
BY DEF ProcessTypeOK, Return

LEMMA ContinueType ==
    ASSUME ProcessTypeOK, ctx' \in {"active", "cancelled"},
           NEW p \in Archiving \cup Uploading, Continue(p)
    PROVE  ProcessTypeOK'
BY DEF ProcessTypeOK, Continue, Archiving, Uploading, Requesting

\* A request leaves the context active or cancelled (putFile's context).
LEMMA RequestType ==
    ASSUME ProcessTypeOK, NEW applied \in BOOLEAN,
           RequestOK \/ RequestFails(applied)
    PROVE  ctx' \in {"active", "cancelled"}
BY DEF ProcessTypeOK, RequestOK, RequestFails, Interrupted

\* What PruneDBBackups keeps of a list of backups is again such a list.
LEMMA NewestType ==
    ASSUME NEW S, NEW s \in Seq(S), NEW keep \in Nat
    PROVE  Newest(s, keep) \in Seq(S)
<1>1. CASE Len(s) <= keep
  BY <1>1 DEF Newest
<1>2. CASE ~(Len(s) <= keep)
  <2>1. Len(s) - keep + 1 \in 1..Len(s) + 1
    BY <1>2
  <2>2. SubSeq(s, Len(s) - keep + 1, Len(s)) \in Seq(S)
    BY <2>1, SubSeqProperties
  <2> QED BY <1>2, <2>2 DEF Newest
<1> QED BY <1>1, <1>2

\* Pruning never loses the newest backup unless it keeps none.
LEMMA NewestLast ==
    ASSUME NEW S, NEW s \in Seq(S), NEW e \in S, NEW keep \in Nat,
           Newest(Append(s, e), keep) # <<>>
    PROVE  Newest(Append(s, e), keep)[Len(Newest(Append(s, e), keep))] = e
<1> DEFINE t == Append(s, e)
<1>1. t \in Seq(S) /\ Len(t) = Len(s) + 1 /\ t[Len(t)] = e
  OBVIOUS
<1>2. CASE Len(t) <= keep
  BY <1>1, <1>2 DEF Newest
<1>3. CASE ~(Len(t) <= keep)
  <2> DEFINE first == Len(t) - keep + 1
             kept == SubSeq(t, first, Len(t))
  <2>1. Newest(t, keep) = kept
    BY <1>3 DEF Newest
  <2>2. first \in 1..Len(t) + 1
    BY <1>1, <1>3
  <2>3. first # Len(t) + 1
    BY <1>1, <2>1, <2>2, SubSeqEmpty
  <2>4. /\ Len(kept) = keep /\ keep > 0
        /\ kept[keep] = t[first + keep - 1]
    <3> HIDE DEF t
    <3>1. \A i \in first..Len(t) : t[i] \in S
      BY <1>1, <2>2
    <3>2. first \in Int /\ Len(t) \in Int
      BY <1>1, <2>2
    <3>3. first <= Len(t)
      BY <1>1, <2>2, <2>3
    <3>4. Len(t) - first + 1 = keep
      BY <1>1
    <3>5. /\ Len(kept) = Len(t) - first + 1
          /\ \A i \in 1..Len(t) - first + 1 : kept[i] = t[first + i - 1]
      BY <3>1, <3>2, <3>3, SubSeqProperties
    <3> QED BY <1>1, <3>2, <3>3, <3>4, <3>5
  <2>5. first + keep - 1 = Len(t)
    BY <1>1
  <2> QED BY <1>1, <2>1, <2>4, <2>5
<1> QED BY <1>2, <1>3

-----------------------------------------------------------------------------
(* Which step writes what.                                                  *)

\* Nothing but the three uploads writes a published object.
LEMMA LiveStep ==
    ASSUME [Next]_vars, ~UNCHANGED live
    PROVE  UploadGz \/ UploadMeta \/ UploadIndex
BY DEF Next, Weekly, Environment, vars, run, StartWeekly, StartExport,
       FetchProd, CheckDatabase, PCGWSync, SnapshotDB, ExportBundle,
       StepFails, WriteGz,
       WriteMeta, WriteIndex, Write, PreviousIndex, Validate, ArchiveIndex,
       ArchiveGz, PutSnapshot, DBBackupStep, R2CleanupStep, Boot, Sigterm,
       Crash, LoseOutDir, ProvideDB

\* Nothing but the backup step writes a database backup.
LEMMA BackupsStep ==
    ASSUME [Next]_vars, ~UNCHANGED backups
    PROVE  DBBackupStep
BY DEF Next, Weekly, Environment, vars, run, StartWeekly, StartExport,
       FetchProd, CheckDatabase, PCGWSync, SnapshotDB, ExportBundle,
       StepFails, WriteGz,
       WriteMeta, WriteIndex, Write, PreviousIndex, Validate, UploadGz,
       UploadMeta, UploadIndex, PutIfPresent, Put, ArchiveIndex, ArchiveGz,
       PutSnapshot, R2CleanupStep, Boot, Sigterm, Crash, LoseOutDir, ProvideDB

\* Only the two uploads of a snapshot add to the archive.
LEMMA ArchiveStep ==
    ASSUME [Next]_vars, ~(archive' \subseteq archive)
    PROVE  ArchiveIndex \/ ArchiveGz
BY DEF Next, Weekly, Environment, vars, run, StartWeekly, StartExport,
       FetchProd, CheckDatabase, PCGWSync, SnapshotDB, ExportBundle,
       StepFails, WriteGz,
       WriteMeta, WriteIndex, Write, PreviousIndex, Validate, UploadGz,
       UploadMeta, UploadIndex, PutIfPresent, Put, DBBackupStep,
       R2CleanupStep, Boot, Sigterm, Crash, LoseOutDir, ProvideDB

\* Only UploadIndex moves the published index.
LEMMA LiveIndexStep ==
    ASSUME BucketTypeOK, [Next]_vars, live.index' # live.index
    PROVE  UploadIndex
<1>1. ~UNCHANGED live
  OBVIOUS
<1>2. UploadGz \/ UploadMeta \/ UploadIndex
  BY <1>1, LiveStep
<1>3. ~UploadGz /\ ~UploadMeta
  BY DEF UploadGz, UploadMeta, PutIfPresent, Put, BucketTypeOK
<1> QED BY <1>2, <1>3

\* Only UploadGz replaces the published bundle.
LEMMA LiveGzStep ==
    ASSUME BucketTypeOK, [Next]_vars, live.gz' # live.gz
    PROVE  UploadGz
<1>1. ~UNCHANGED live
  OBVIOUS
<1>2. UploadGz \/ UploadMeta \/ UploadIndex
  BY <1>1, LiveStep
<1>3. ~UploadIndex /\ ~UploadMeta
  BY DEF UploadIndex, UploadMeta, PutIfPresent, Put, BucketTypeOK
<1> QED BY <1>2, <1>3

-----------------------------------------------------------------------------
(* RunInvariant.                                                            *)

\* The initial deployment, fresh or with a history, has the right types.
LEMMA InitType == Init => TypeOK
<1> SUFFICES ASSUME Init PROVE TypeOK
  OBVIOUS
<1> USE ConstantsAssumption, MaxVersionAssumption
<1>1. History # 0 => \A v \in 1..History : v \in Nat \ {0}
  OBVIOUS
<1>2. ProcessTypeOK
  BY DEF Init, ProcessTypeOK, NoReport, Requesting
<1>3. DiskTypeOK
  BY DEF Init, DiskTypeOK, Published, NoFiles, Indexes, Datasets
<1>4. BucketTypeOK
  <2>1. CASE History = 0
    BY <2>1 DEF Init, BucketTypeOK, NoFiles
  <2>2. CASE History # 0
    <3>1. PICK b \in Datasets \ Malformed :
            /\ live = Published(b) /\ backups = <<b>>
            /\ archive = { [version |-> v, gz |-> b,
                            index |-> [version |-> v, sha |-> b]] :
                           v \in {n \in 1..History : n > History - R2Keep} }
      BY <2>2 DEF Init
    <3>2. b \in Bundles
      BY DEF Datasets
    <3>3. live \in [ gz : Bundles \cup {Absent}, meta : Bundles \cup {Absent},
                     index : Indexes \cup {Absent} ]
      BY <2>2, <3>1, <3>2 DEF Published, Indexes
    <3>4. archive \subseteq [ version : Nat, gz : Bundles \cup {Absent},
                              index : Indexes ]
      BY <1>1, <2>2, <3>1, <3>2 DEF Indexes
    <3> QED BY <3>1, <3>2, <3>3, <3>4 DEF BucketTypeOK
  <2> QED BY <2>1, <2>2
<1> QED BY <1>2, <1>3, <1>4 DEF TypeOK

\* Nothing is running and nothing half published when the system starts.
LEMMA InitRun == Init => RunInvariant
<1> SUFFICES ASSUME Init PROVE RunInvariant
  OBVIOUS
<1>1. TypeOK
  BY InitType
<1>2. OutDirOfRun /\ BucketOfRun
  BY ConstantsAssumption
     DEF Init, Published, NoFiles, NoReport, Datasets,
         OutDirOfRun, BucketOfRun, Publishing, Uploading, Archiving
<1>3. ReportedPublishIsLive
  BY DEF Init, NoReport, ReportedPublishIsLive
<1> QED BY <1>1, <1>2, <1>3 DEF RunInvariant

\* No step breaks RunInvariant, whatever the faults.  The steps of the export
\* and of the upload are split into the parts they disturb.
\* Once this run's index is uploaded, all three published objects are its own.
LEMMA ArchivingLive ==
    ASSUME RunInvariant, pc \in Archiving
    PROVE  /\ live.index # Absent
           /\ live = [ gz |-> live.index.sha, meta |-> live.index.sha,
                       index |-> [version |-> res, sha |-> live.index.sha] ]
<1> USE DEF RunInvariant, OutDirOfRun, BucketOfRun, Publishing, Uploading,
            Archiving, TypeOK, DiskTypeOK, BucketTypeOK
<1>1. live.gz = snap /\ live.meta = snap /\ snap \in Bundles
  OBVIOUS
<1>2. live.index = [version |-> res, sha |-> snap]
  OBVIOUS
<1>3. res > 0 /\ res \in Nat
  BY DEF ProcessTypeOK
<1>4. live.index \in Indexes
  BY <1>1, <1>2, <1>3 DEF Indexes
<1>5. live.index # Absent
  BY <1>4, SentinelsAssumption
<1> QED BY <1>1, <1>2, <1>5

LEMMA RunStep == RunInvariant /\ [Next]_vars => RunInvariant'
<1> SUFFICES ASSUME RunInvariant, [Next]_vars PROVE RunInvariant'
  OBVIOUS
<1> USE ConstantsAssumption, SentinelsAssumption
<1> USE DEF RunInvariant, TypeOK, OutDirOfRun, BucketOfRun,
            Publishing, Uploading, Archiving
<1>1. CASE StartWeekly
  BY <1>1 DEF StartWeekly, ProcessTypeOK, DiskTypeOK, BucketTypeOK,
       ReportedPublishIsLive, Requesting, NoReport
<1>2. CASE StartExport
  BY <1>2 DEF StartExport, ProcessTypeOK, DiskTypeOK, BucketTypeOK,
       ReportedPublishIsLive, Requesting
<1>3. CASE FetchProd
  BY <1>3 DEF FetchProd, Continue, Return, ProcessTypeOK, DiskTypeOK,
       BucketTypeOK, ReportedPublishIsLive, Requesting, Datasets
<1>4. CASE CheckDatabase
  BY <1>4 DEF CheckDatabase, Continue, Return, ProcessTypeOK, DiskTypeOK,
       BucketTypeOK, ReportedPublishIsLive, Requesting
<1>5. CASE PCGWSync
  BY <1>5 DEF PCGWSync, Continue, ProcessTypeOK, DiskTypeOK, BucketTypeOK,
       ReportedPublishIsLive, Requesting, Datasets
<1>6. CASE SnapshotDB
  BY <1>6 DEF SnapshotDB, SnapshotOf, StepFails, Return, ProcessTypeOK,
       DiskTypeOK, BucketTypeOK, ReportedPublishIsLive, Requesting
<1>7. CASE ExportBundle
  BY <1>7 DEF ExportBundle, Continue, Return, StepFails, ProcessTypeOK,
       DiskTypeOK, BucketTypeOK, ReportedPublishIsLive, Requesting
<1>8. CASE WriteGz
  <2> USE <1>8
  <2>1. snap \in Bundles
    BY DEF WriteGz, ProcessTypeOK
  <2>2. ProcessTypeOK' /\ BucketTypeOK'
    BY DEF WriteGz, Write, Continue, Return, ProcessTypeOK, Requesting,
           BucketTypeOK
  <2>3. DiskTypeOK'
    BY <2>1 DEF WriteGz, Write, Continue, Return, DiskTypeOK
  <2>4. OutDirOfRun'
    BY DEF WriteGz, Write, Continue, Return, DiskTypeOK
  <2>5. BucketOfRun' /\ ReportedPublishIsLive'
    BY DEF WriteGz, Write, Continue, Return, ReportedPublishIsLive
  <2> QED BY <2>2, <2>3, <2>4, <2>5
<1>9. CASE WriteMeta
  <2> USE <1>9
  <2>1. snap \in Bundles
    BY DEF WriteMeta, ProcessTypeOK
  <2>2. ProcessTypeOK' /\ BucketTypeOK'
    BY DEF WriteMeta, Write, Continue, Return, ProcessTypeOK, Requesting,
           BucketTypeOK
  <2>3. DiskTypeOK'
    BY <2>1 DEF WriteMeta, Write, Continue, Return, DiskTypeOK
  <2>4. OutDirOfRun'
    BY DEF WriteMeta, Write, Continue, Return, DiskTypeOK
  <2>5. BucketOfRun' /\ ReportedPublishIsLive'
    BY DEF WriteMeta, Write, Continue, Return, ReportedPublishIsLive
  <2> QED BY <2>2, <2>3, <2>4, <2>5
<1>10. CASE PreviousIndex /\ StepFails
  BY <1>10 DEF PreviousIndex, StepFails, Return, ProcessTypeOK, DiskTypeOK,
               BucketTypeOK, ReportedPublishIsLive
<1>26. CASE PreviousIndex /\ ~StepFails
  <2> USE <1>26 DEF PreviousIndex, LivePrevious, Interrupted
  <2>1. res' \in Nat \ {0}
    <3>1. CASE Parses(out.index)
      BY <3>1 DEF Parses, Version, DiskTypeOK, Indexes
    <3>2. CASE ~Parses(out.index)
      BY <3>2 DEF Parses, Version, BucketTypeOK, Indexes
    <3> QED BY <3>1, <3>2
  <2>2. ProcessTypeOK'
    BY <2>1 DEF ProcessTypeOK, Requesting
  <2>3. OutDirOfRun'
    BY <2>1
  <2>4. DiskTypeOK' /\ BucketTypeOK' /\ BucketOfRun' /\ ReportedPublishIsLive'
    BY DEF DiskTypeOK, BucketTypeOK, ReportedPublishIsLive
  <2> QED BY <2>2, <2>3, <2>4
<1>11. CASE WriteIndex
  <2> USE <1>11
  <2>1. [version |-> res, sha |-> snap] \in Indexes
    BY DEF WriteIndex, ProcessTypeOK, Indexes
  <2>2. ProcessTypeOK' /\ BucketTypeOK'
    BY DEF WriteIndex, Write, Continue, Return, ProcessTypeOK, Requesting,
           BucketTypeOK
  <2>3. DiskTypeOK'
    BY <2>1 DEF WriteIndex, Write, Continue, Return, DiskTypeOK
  <2>4. OutDirOfRun'
    BY DEF WriteIndex, Write, Continue, Return, DiskTypeOK
  <2>5. BucketOfRun' /\ ReportedPublishIsLive'
    BY DEF WriteIndex, Write, Continue, Return, ReportedPublishIsLive
  <2> QED BY <2>2, <2>3, <2>4, <2>5
<1>12. CASE Validate
  BY <1>12 DEF Validate, ValidDir, ValidBundle, Continue, Return,
       ProcessTypeOK, DiskTypeOK, BucketTypeOK, ReportedPublishIsLive,
       Requesting
<1>13. CASE UploadGz
  <2> USE <1>13
  <2>1. out.gz \in Bundles
    BY DEF UploadGz, ProcessTypeOK
  <2>2. ProcessTypeOK' /\ DiskTypeOK'
    BY DEF UploadGz, PutIfPresent, Put, RequestOK, RequestFails, Interrupted,
         Continue, Return, ProcessTypeOK, DiskTypeOK, Requesting
  <2>3. BucketTypeOK'
    BY <2>1 DEF UploadGz, PutIfPresent, Put, RequestOK, RequestFails,
         Interrupted, Continue, Return, BucketTypeOK
  <2>4. OutDirOfRun'
    BY DEF UploadGz, PutIfPresent, Put, RequestOK, RequestFails, Interrupted,
         Continue, Return
  <2>5. BucketOfRun'
    BY <2>1 DEF UploadGz, PutIfPresent, Put, RequestOK, RequestFails,
         Interrupted, Continue, Return, BucketTypeOK
  <2>6. ReportedPublishIsLive'
    BY DEF UploadGz, PutIfPresent, Put, RequestOK, RequestFails, Interrupted,
         Continue, Return, ReportedPublishIsLive
  <2> QED BY <2>2, <2>3, <2>4, <2>5, <2>6
<1>14. CASE UploadMeta
  <2> USE <1>14
  <2>1. out.meta \in Bundles
    BY DEF UploadMeta, ProcessTypeOK
  <2>2. ProcessTypeOK' /\ DiskTypeOK'
    BY DEF UploadMeta, PutIfPresent, Put, RequestOK, RequestFails,
         Interrupted, Continue, Return, ProcessTypeOK, DiskTypeOK, Requesting
  <2>3. BucketTypeOK'
    BY <2>1 DEF UploadMeta, PutIfPresent, Put, RequestOK, RequestFails,
         Interrupted, Continue, Return, BucketTypeOK
  <2>4. OutDirOfRun'
    BY DEF UploadMeta, PutIfPresent, Put, RequestOK, RequestFails,
         Interrupted, Continue, Return
  <2>5. BucketOfRun'
    BY <2>1 DEF UploadMeta, PutIfPresent, Put, RequestOK, RequestFails,
         Interrupted, Continue, Return, BucketTypeOK
  <2>6. ReportedPublishIsLive'
    BY DEF UploadMeta, PutIfPresent, Put, RequestOK, RequestFails,
         Interrupted, Continue, Return, ReportedPublishIsLive
  <2> QED BY <2>2, <2>3, <2>4, <2>5, <2>6
<1>15. CASE UploadIndex
  <2> USE <1>15
  <2>1. out.index \in Indexes
    BY DEF UploadIndex, ProcessTypeOK, Indexes
  <2>2. ProcessTypeOK' /\ DiskTypeOK'
    BY DEF UploadIndex, Put, RequestOK, RequestFails, Interrupted, Continue,
         Return, ProcessTypeOK, DiskTypeOK, Requesting
  <2>3. BucketTypeOK'
    BY <2>1 DEF UploadIndex, Put, RequestOK, RequestFails, Interrupted,
         Continue, Return, BucketTypeOK
  <2>4. OutDirOfRun'
    BY DEF UploadIndex, Put, RequestOK, RequestFails, Interrupted, Continue,
         Return
  <2>5. BucketOfRun'
    BY <2>1 DEF UploadIndex, Put, RequestOK, RequestFails, Interrupted,
         Continue, Return, BucketTypeOK
  <2>6. ReportedPublishIsLive'
    BY DEF UploadIndex, Put, RequestOK, RequestFails, Interrupted, Continue,
         Return, ReportedPublishIsLive
  <2> QED BY <2>2, <2>3, <2>4, <2>5, <2>6
<1>16. CASE ArchiveIndex
  <2> USE <1>16
  <2>1. Snapshot(Absent) \in [ version : Nat, gz : Bundles \cup {Absent},
                           index : Indexes ]
    BY DEF ArchiveIndex, Snapshot, ProcessTypeOK, Indexes
  <2>2. archive' \subseteq archive \cup {Snapshot(Absent)}
    BY DEF ArchiveIndex, PutSnapshot
  <2>3. ProcessTypeOK' /\ DiskTypeOK'
    BY DEF ArchiveIndex, PutSnapshot, RequestOK, RequestFails, Interrupted,
         Continue, Return, ProcessTypeOK, DiskTypeOK, Requesting
  <2>4. BucketTypeOK'
    BY <2>1, <2>2 DEF ArchiveIndex, PutSnapshot, BucketTypeOK
  <2>5. OutDirOfRun' /\ BucketOfRun'
    BY DEF ArchiveIndex, PutSnapshot, RequestOK, RequestFails, Interrupted,
         Continue, Return
  <2>6. ReportedPublishIsLive'
    BY DEF ArchiveIndex, PutSnapshot, RequestOK, RequestFails, Interrupted,
         Continue, Return, ReportedPublishIsLive, BucketTypeOK, Indexes
  <2> QED BY <2>3, <2>4, <2>5, <2>6
<1>17. CASE ArchiveGz
  <2> USE <1>17
  <2>1. Snapshot(out.gz) \in [ version : Nat, gz : Bundles \cup {Absent},
                           index : Indexes ]
    BY DEF ArchiveGz, Snapshot, ProcessTypeOK, Indexes
  <2>2. archive' \subseteq archive \cup {Snapshot(out.gz)}
    BY DEF ArchiveGz, PutSnapshot
  <2>3. ProcessTypeOK' /\ DiskTypeOK'
    BY DEF ArchiveGz, PutSnapshot, Uploaded, RequestOK, RequestFails,
         Interrupted, Continue, Return, ProcessTypeOK, DiskTypeOK, Requesting
  <2>4. BucketTypeOK'
    BY <2>1, <2>2 DEF ArchiveGz, PutSnapshot, BucketTypeOK
  <2>5. OutDirOfRun' /\ BucketOfRun'
    BY DEF ArchiveGz, PutSnapshot, Uploaded, RequestOK, RequestFails,
         Interrupted, Continue, Return
  <2>6. ReportedPublishIsLive'
    <3>1. pc \in Archiving /\ UNCHANGED live /\ cmd = "weekly"
      BY DEF ArchiveGz, PutSnapshot
    <3>2. report' = report \/ report'.status # "ok" \/ report'.version = res
      BY <3>1 DEF ArchiveGz, PutSnapshot, Uploaded, Continue, Return
    <3> QED BY <3>1, <3>2, ArchivingLive DEF ReportedPublishIsLive
  <2> QED BY <2>3, <2>4, <2>5, <2>6
<1>18. CASE DBBackupStep
  <2> USE <1>18
  <2>1. ctx' \in {"active", "cancelled"}
    BY RequestType DEF DBBackupStep
  <2>2. Continue("r2_cleanup") \/ Return(FALSE)
    BY DEF DBBackupStep
  <2>3. ProcessTypeOK'
    BY <2>1, <2>2, ReturnType, ContinueType
  <2>4. Append(backups, snap) \in Seq(Bundles)
    BY DEF DBBackupStep, BucketTypeOK
  <2>5. Newest(Append(backups, snap), DBBackupKeep) \in Seq(Bundles)
    BY <2>4 DEF Newest
  <2>6. DiskTypeOK' /\ BucketTypeOK'
    BY <2>4, <2>5 DEF DBBackupStep, DiskTypeOK, BucketTypeOK
  <2>7. OutDirOfRun' /\ BucketOfRun'
    BY <2>2 DEF DBBackupStep, Continue, Return
  <2>8. ReportedPublishIsLive'
    <3>1. pc \in Archiving /\ UNCHANGED live /\ cmd = "weekly"
      BY DEF DBBackupStep
    <3>2. report' = report \/ report'.status # "ok" \/ report'.version = res
      BY <2>2, <3>1 DEF DBBackupStep, Continue, Return
    <3> QED BY <3>1, <3>2, ArchivingLive DEF ReportedPublishIsLive
  <2> QED BY <2>3, <2>6, <2>7, <2>8
<1>19. CASE R2CleanupStep
  <2> USE <1>19
  <2>1. ProcessTypeOK' /\ DiskTypeOK' /\ BucketTypeOK'
    BY DEF R2CleanupStep, RequestOK, RequestFails, Interrupted, Return,
         ProcessTypeOK, DiskTypeOK, BucketTypeOK, Requesting
  <2>2. OutDirOfRun' /\ BucketOfRun'
    BY DEF R2CleanupStep, Return, Requesting
  <2>3. ReportedPublishIsLive'
    <3>1. pc \in Archiving /\ UNCHANGED live /\ cmd = "weekly"
      BY DEF R2CleanupStep
    <3>2. report'.status # "ok" \/ report'.version = res
      BY <3>1 DEF R2CleanupStep, Return
    <3> QED BY <3>1, <3>2, ArchivingLive DEF ReportedPublishIsLive
  <2> QED BY <2>1, <2>2, <2>3
<1>20. CASE Boot
  BY <1>20 DEF Boot, Seeds, ProcessTypeOK, DiskTypeOK, BucketTypeOK,
       ReportedPublishIsLive, Requesting, Datasets
<1>21. CASE Sigterm
  BY <1>21 DEF Sigterm, ProcessTypeOK, DiskTypeOK, BucketTypeOK,
       ReportedPublishIsLive, Requesting
<1>22. CASE Crash
  <2> USE <1>22
  <2>1. ProcessTypeOK' /\ DiskTypeOK' /\ BucketTypeOK'
    BY DEF Crash, BeingWritten, ProcessTypeOK, DiskTypeOK, BucketTypeOK,
         Requesting, NoReport
  <2>2. OutDirOfRun' /\ BucketOfRun' /\ ReportedPublishIsLive'
    BY DEF Crash, ReportedPublishIsLive, NoReport
  <2> QED BY <2>1, <2>2
<1>23. CASE LoseOutDir
  BY <1>23 DEF LoseOutDir, NoFiles, run, ProcessTypeOK, DiskTypeOK,
       BucketTypeOK, ReportedPublishIsLive, Requesting
<1>24. CASE ProvideDB
  BY <1>24 DEF ProvideDB, run, ProcessTypeOK, DiskTypeOK, BucketTypeOK,
       ReportedPublishIsLive, Requesting, Datasets
<1>25. CASE UNCHANGED vars
  BY <1>25 DEF vars, ProcessTypeOK, DiskTypeOK, BucketTypeOK,
       ReportedPublishIsLive, Requesting
<1> QED BY <1>1, <1>2, <1>3, <1>4, <1>5, <1>6, <1>7, <1>8, <1>9, <1>10, <1>11,
          <1>12, <1>13, <1>14, <1>15, <1>16, <1>17, <1>18, <1>19, <1>20,
          <1>21, <1>22, <1>23, <1>24, <1>25, <1>26
          DEF Next, Weekly, Environment

-----------------------------------------------------------------------------
(* CounterInvariant.                                                        *)

\* A deployment starts with the same version in OUT_DIR and in the bucket.
LEMMA InitCounter == Init => CounterInvariant
BY ConstantsAssumption, SentinelsAssumption
   DEF Init, Published, NoFiles, Indexes, Datasets, Uploading, CounterInvariant,
       CounterNeverBehind, NewVersion, CounterSource, Version, Parses

\* With the faults of CounterSafe no step breaks CounterInvariant.
LEMMA CounterStep ==
    CounterSafe /\ RunInvariant /\ CounterInvariant /\ [Next]_vars
    => CounterInvariant'
<1> SUFFICES ASSUME CounterSafe, RunInvariant, CounterInvariant, [Next]_vars
             PROVE  CounterInvariant'
  OBVIOUS
<1> USE ConstantsAssumption, SentinelsAssumption
<1> USE DEF RunInvariant, TypeOK, DiskTypeOK, BucketTypeOK, Indexes,
            CounterInvariant, CounterNeverBehind, NewVersion, CounterSource,
            Version, Parses, Uploading
<1>1. CASE StartWeekly
  BY <1>1 DEF StartWeekly
<1>2. CASE StartExport
  BY <1>2 DEF StartExport
<1>3. CASE FetchProd
  BY <1>3 DEF FetchProd, Continue, Return
<1>4. CASE CheckDatabase
  BY <1>4 DEF CheckDatabase, Continue, Return
<1>5. CASE PCGWSync
  BY <1>5 DEF PCGWSync, Continue
<1>6. CASE SnapshotDB
  BY <1>6 DEF SnapshotDB, SnapshotOf, StepFails, Return
<1>7. CASE ExportBundle
  BY <1>7 DEF ExportBundle, Continue, Return, StepFails
<1>8. CASE WriteGz
  BY <1>8 DEF WriteGz, Write, Continue, Return
<1>9. CASE WriteMeta
  BY <1>9 DEF WriteMeta, Write, Continue, Return
<1>10. CASE PreviousIndex
  BY <1>10 DEF PreviousIndex, LivePrevious, Interrupted, CounterSafe,
               StepFails, Return
<1>11. CASE WriteIndex
  <2> USE <1>11
  <2>1. /\ [version |-> res, sha |-> snap] \in Indexes
        /\ UNCHANGED <<ctx, live>>
    BY DEF WriteIndex, Write, ProcessTypeOK, OutDirOfRun
  <2>2. CASE out'.index = [version |-> res, sha |-> snap] /\ UNCHANGED res
    BY <2>1, <2>2 DEF WriteIndex, Write, Continue, Return
  <2>3. CASE out'.index = Torn /\ pc' \in {"idle", "down"} /\ "write" \in Faults
    BY <2>1, <2>3 DEF WriteIndex
  <2> QED
    BY <2>2, <2>3 DEF WriteIndex, Write, Continue, Return
<1>12. CASE Validate
  BY <1>12 DEF Validate, ValidDir, ValidBundle, Continue, Return
<1>13. CASE UploadGz
  <2> USE <1>13
  <2>1. /\ UNCHANGED out /\ live'.index = live.index
        /\ UNCHANGED res \/ pc' \in {"idle", "down"}
        /\ pc' \notin {"write_index", "validate_artifacts"}
    BY DEF UploadGz, PutIfPresent, Put, Continue, Return
  <2>2. ctx' = ctx \/ "sigterm" \in Faults
    BY DEF UploadGz, PutIfPresent, Put, RequestOK, RequestFails, Interrupted
  <2> QED BY <2>1, <2>2 DEF UploadGz
<1>14. CASE UploadMeta
  <2> USE <1>14
  <2>1. /\ UNCHANGED out /\ live'.index = live.index
        /\ UNCHANGED res \/ pc' \in {"idle", "down"}
        /\ pc' \notin {"write_index", "validate_artifacts"}
    BY DEF UploadMeta, PutIfPresent, Put, Continue, Return
  <2>2. ctx' = ctx \/ "sigterm" \in Faults
    BY DEF UploadMeta, PutIfPresent, Put, RequestOK, RequestFails, Interrupted
  <2> QED BY <2>1, <2>2 DEF UploadMeta
<1>15. CASE UploadIndex
  <2> USE <1>15
  <2>1. /\ out.index \in Indexes /\ out.index.version = res
        /\ res > Version(live.index)
    BY DEF UploadIndex, ProcessTypeOK, OutDirOfRun, Publishing
  <2>2. /\ UNCHANGED out /\ live'.index \in {live.index, out.index}
        /\ pc' \in {"archive_index", "idle", "down"}
    BY DEF UploadIndex, Put, Continue, Return
  <2>3. ctx' = ctx \/ "sigterm" \in Faults
    BY DEF UploadIndex, Put, RequestOK, RequestFails, Interrupted
  <2> QED
    BY <2>1, <2>2, <2>3 DEF UploadIndex
<1>16. CASE ArchiveIndex
  BY <1>16 DEF ArchiveIndex, PutSnapshot, Snapshot, RequestOK, RequestFails,
       Interrupted, Continue, Return
<1>17. CASE ArchiveGz
  BY <1>17 DEF ArchiveGz, PutSnapshot, Snapshot, Uploaded, RequestOK,
       RequestFails, Interrupted, Continue, Return
<1>18. CASE DBBackupStep
  BY <1>18 DEF DBBackupStep, Newest, RequestOK, RequestFails, Interrupted,
       Continue, Return
<1>19. CASE R2CleanupStep
  BY <1>19 DEF R2CleanupStep, RequestOK, RequestFails, Interrupted, Return
<1>20. CASE Boot
  BY <1>20 DEF Boot, Seeds
<1>21. CASE Sigterm
  BY <1>21 DEF Sigterm
<1>22. CASE Crash
  BY <1>22 DEF Crash, BeingWritten
<1>23. CASE LoseOutDir
  BY <1>23 DEF LoseOutDir, NoFiles, run
<1>24. CASE ProvideDB
  BY <1>24 DEF ProvideDB, run
<1>25. CASE UNCHANGED vars
  BY <1>25 DEF vars
<1> QED BY <1>1, <1>2, <1>3, <1>4, <1>5, <1>6, <1>7, <1>8, <1>9, <1>10, <1>11,
          <1>12, <1>13, <1>14, <1>15, <1>16, <1>17, <1>18, <1>19, <1>20,
          <1>21, <1>22, <1>23, <1>24, <1>25
          DEF Next, Weekly, Environment

-----------------------------------------------------------------------------
(* The archive.                                                             *)

\* The oldest version the archive has when the behaviour starts.
FirstKept == IF History > R2Keep THEN History - R2Keep + 1 ELSE 1

\* The versions of one deployment sort as text the way they do as numbers:
\* they all have the same number of digits (see the lemma below).
KeysInOrder == \A v, w \in FirstKept..MaxVersion : v < w => KeyLess(v, w)

BeforeIndex ==
    { "fetch_prod_db", "check_database", "pcgw_sync", "snapshot_db",
      "export_bundle", "write_gz", "write_meta", "previous_index" }

\* The bound on the versions is not overtaken by a run that started below it.
VersionInBounds ==
    /\ Version(live.index) >= History
    /\ pc \in BeforeIndex =>
          Version(out.index) < MaxVersion /\ Version(live.index) < MaxVersion
    /\ pc \in {"write_index"} \cup Publishing =>
          res \in FirstKept..MaxVersion

\* The run's own snapshot is in the archive from the moment it is uploaded,
\* and every other one is of an older version.
ArchiveOfRun ==
    /\ \A a \in archive : a.version \in FirstKept..MaxVersion
    /\ pc \in Archiving =>
          \A a \in archive :
              \/ a.version < res
              \/ pc = "archive_gz" /\ a = Snapshot(Absent)
              \/ pc \in {"db_backup", "r2_cleanup"} /\ a = Snapshot(out.gz)
    /\ pc \in {"db_backup", "r2_cleanup"} => Snapshot(out.gz) \in archive
    /\ pc = "r2_cleanup" => R2Cleanup

ArchiveInvariant ==
    IsFiniteSet(archive) /\ VersionInBounds /\ ArchiveOfRun /\ PublishIsArchived

LEMMA AppendDigit ==
    ASSUME NEW x \in Nat, NEW y \in Nat
    PROVE  Append(<<x>>, y) = <<x, y>>
<1> DEFINE s == Append(<<x>>, y)
           t == <<x, y>>
<1>1. s \in Seq(Nat) /\ Len(s) = 2 /\ s[1] = x /\ s[2] = y
  OBVIOUS
<1>2. t \in Seq(Nat) /\ Len(t) = 2 /\ t[1] = x /\ t[2] = y
  OBVIOUS
<1> HIDE DEF s, t
<1>3. \A i \in 1..Len(s) : s[i] = t[i]
  BY <1>1, <1>2
<1>4. s = t
  BY <1>1, <1>2, <1>3, SeqEqual
<1> QED BY <1>4 DEF s, t

\* A version below 100 in decimal digits.
LEMMA DecimalBelow100 ==
    ASSUME MaxVersion <= 99, NEW n \in 0..MaxVersion
    PROVE  Decimal[n] = IF n < 10 THEN <<n>> ELSE <<n \div 10, n % 10>>
<1> USE MaxVersionAssumption
<1> DEFINE Body(d) == [ m \in 0..MaxVersion |->
                        IF m < 10 THEN <<m>> ELSE Append(d[m \div 10], m % 10) ]
           digits == [ m \in 0..MaxVersion |->
                       IF m < 10 THEN <<m>> ELSE <<m \div 10, m % 10>> ]
<1>1. ASSUME NEW d, d = Body(d), NEW m \in 0..MaxVersion
      PROVE  d[m] = IF m < 10 THEN <<m>> ELSE <<m \div 10, m % 10>>
  <2>1. d[m] = IF m < 10 THEN <<m>> ELSE Append(d[m \div 10], m % 10)
    BY <1>1
  <2>2. CASE m < 10
    BY <2>1, <2>2
  <2>3. CASE ~(m < 10)
    <3>1. m \div 10 \in 0..MaxVersion /\ m \div 10 < 10
      BY <2>3
    <3>2. d[m \div 10] = <<m \div 10>>
      BY <1>1, <3>1
    <3>3. Append(<<m \div 10>>, m % 10) = <<m \div 10, m % 10>>
      <4>1. m \div 10 \in Nat /\ m % 10 \in Nat
        OBVIOUS
      <4> QED BY <4>1, AppendDigit
    <3> QED BY <2>1, <2>3, <3>2, <3>3, Zenon
  <2> QED BY <2>2, <2>3
<1>2. digits = Body(digits)
  <2>1. ASSUME NEW m \in 0..MaxVersion
        PROVE  digits[m] = IF m < 10 THEN <<m>>
                           ELSE Append(digits[m \div 10], m % 10)
    <3>1. CASE m < 10
      BY <3>1
    <3>2. CASE ~(m < 10)
      <4>1. m \div 10 \in 0..MaxVersion /\ m \div 10 < 10
        BY <3>2
      <4>2. digits[m \div 10] = <<m \div 10>>
        BY <4>1
      <4> QED BY <3>2, <4>2
    <3> QED BY <3>1, <3>2
  <2> QED BY <2>1
<1>3. Decimal = CHOOSE d : d = Body(d)
  BY DEF Decimal
<1>4. Decimal = Body(Decimal)
  <2> HIDE DEF Body, digits
  <2> QED BY <1>2, <1>3
<1> HIDE DEF Body, digits
<1> QED BY <1>1, <1>4

\* The condition of ArchiveComplete is met by the first nine versions, and by
\* all versions of two digits.
LEMMA SameDigitsInOrder ==
    ASSUME MaxVersion <= 9 \/ (MaxVersion <= 99 /\ FirstKept >= 10)
    PROVE  KeysInOrder
<1> USE MaxVersionAssumption, ConstantsAssumption
<1> SUFFICES ASSUME NEW v \in FirstKept..MaxVersion,
                    NEW w \in FirstKept..MaxVersion, v < w
             PROVE  KeyLess(v, w)
  BY DEF KeysInOrder
<1>1. /\ v \in 1..MaxVersion /\ w \in 1..MaxVersion /\ FirstKept \in Nat
      /\ v \in 0..MaxVersion /\ w \in 0..MaxVersion
  BY DEF FirstKept
<1> DEFINE s == Decimal[v]
           t == Decimal[w]
<1>2. CASE MaxVersion <= 9
  <2>1. s = <<v>> /\ t = <<w>>
    <3>1. MaxVersion <= 99 /\ v < 10 /\ w < 10
      BY <1>1, <1>2
    <3>2. /\ Decimal[v] = IF v < 10 THEN <<v>> ELSE <<v \div 10, v % 10>>
          /\ Decimal[w] = IF w < 10 THEN <<w>> ELSE <<w \div 10, w % 10>>
      BY <1>1, <3>1, DecimalBelow100, Zenon
    <3> QED BY <3>1, <3>2, Zenon
  <2>2. 1 \in DOMAIN s \cap DOMAIN t /\ s[1] < t[1]
    BY <2>1
  <2>3. \A i \in 1..(1 - 1) : s[i] = t[i]
    OBVIOUS
  <2> QED BY <2>2, <2>3 DEF KeyLess
<1>3. CASE MaxVersion <= 99 /\ FirstKept >= 10
  <2>1. v \in 10..99 /\ w \in 10..99
    BY <1>1, <1>3
  <2>2. s = <<v \div 10, v % 10>> /\ t = <<w \div 10, w % 10>>
    <3>1. MaxVersion <= 99 /\ ~(v < 10) /\ ~(w < 10)
      BY <1>3, <2>1
    <3>2. /\ Decimal[v] = IF v < 10 THEN <<v>> ELSE <<v \div 10, v % 10>>
          /\ Decimal[w] = IF w < 10 THEN <<w>> ELSE <<w \div 10, w % 10>>
      BY <1>1, <3>1, DecimalBelow100, Zenon
    <3> QED BY <3>1, <3>2, Zenon
  <2>3. \/ v \div 10 < w \div 10
        \/ v \div 10 = w \div 10 /\ v % 10 < w % 10
    BY <2>1
  <2>4. CASE v \div 10 < w \div 10
    <3>1. 1 \in DOMAIN s \cap DOMAIN t /\ s[1] < t[1]
      BY <2>2, <2>4
    <3>2. \A i \in 1..(1 - 1) : s[i] = t[i]
      OBVIOUS
    <3> QED BY <3>1, <3>2 DEF KeyLess
  <2>5. CASE v \div 10 = w \div 10 /\ v % 10 < w % 10
    <3>1. 2 \in DOMAIN s \cap DOMAIN t /\ s[2] < t[2]
      BY <2>2, <2>5
    <3>2. \A i \in 1..(2 - 1) : s[i] = t[i]
      BY <2>2, <2>5
    <3> QED BY <3>1, <3>2 DEF KeyLess
  <2> QED BY <2>3, <2>4, <2>5
<1> QED BY <1>2, <1>3

\* A deployment starts with its last snapshots in the archive.
LEMMA InitArchive == Init => ArchiveInvariant
<1> SUFFICES ASSUME Init PROVE ArchiveInvariant
  OBVIOUS
<1> USE ConstantsAssumption, MaxVersionAssumption
<1>1. CASE History = 0
  <2>1. IsFiniteSet(archive)
    BY <1>1, FS_EmptySet DEF Init
  <2>2. VersionInBounds
    BY <1>1 DEF Init, VersionInBounds, Version, Parses, NoFiles, BeforeIndex,
                Publishing, Uploading, Archiving
  <2> QED BY <1>1, <2>1, <2>2
          DEF Init, ArchiveInvariant, ArchiveOfRun, PublishIsArchived,
              Archiving, NoReport
<1>2. CASE History # 0
  <2>1. PICK b \in Datasets \ Malformed :
          /\ live = Published(b)
          /\ archive = { [version |-> v, gz |-> b,
                          index |-> [version |-> v, sha |-> b]] :
                         v \in {n \in 1..History : n > History - R2Keep} }
    BY <1>2 DEF Init
  <2> DEFINE kept == {n \in 1..History : n > History - R2Keep}
             Past(v) == [version |-> v, gz |-> b,
                         index |-> [version |-> v, sha |-> b]]
  <2>2. IsFiniteSet(archive)
    <3> DEFINE f == [v \in kept |-> Past(v)]
    <3>1. IsFiniteSet(kept)
      <4>1. IsFiniteSet(1..History)
        BY FS_Interval
      <4> QED BY <4>1, FS_Subset
    <3>2. f \in Surjection(kept, archive)
      BY <2>1 DEF Surjection
    <3> QED BY <3>1, <3>2, FS_Surjection DEF ExistsSurjection
  <2>3. \A a \in archive : a.version \in FirstKept..MaxVersion
    <3>1. \A v \in kept : v \in FirstKept..MaxVersion
      BY DEF FirstKept
    <3> QED BY <2>1, <3>1
  <2>4. VersionInBounds
    <3>1. [version |-> History, sha |-> b] \in Indexes
      BY <1>2 DEF Indexes, Datasets
    <3>2. Version(live.index) = History
      BY <2>1, <3>1, SentinelsAssumption DEF Published, Version, Parses
    <3> QED BY <3>2 DEF Init, VersionInBounds, BeforeIndex, Publishing,
                        Uploading, Archiving
  <2> QED BY <2>2, <2>3, <2>4
          DEF Init, ArchiveInvariant, ArchiveOfRun, PublishIsArchived,
              Archiving, NoReport
<1> QED BY <1>1, <1>2

\* Of an archive in which every snapshot but s sorts before s, the first ones
\* that PruneArchives deletes do not include s, and what is left has the size
\* R2_KEEP allows.
LEMMA PruneKeepsNewest ==
    ASSUME IsFiniteSet(archive), R2Keep \in Nat \ {0},
           NEW s \in archive,
           \A a \in archive : a = s \/ KeyLess(a.version, s.version),
           NEW gone \in SUBSET archive, FirstKeys(gone),
           Cardinality(gone) = Excess
    PROVE  s \in archive \ gone /\ Cardinality(archive \ gone) <= R2Keep
<1>1. /\ Cardinality(archive) \in Nat /\ Cardinality(archive) # 0
      /\ IsFiniteSet(gone) /\ Cardinality(gone) \in Nat
  BY FS_CardinalityType, FS_EmptySet, FS_Subset
<1>2. Cardinality(archive \ gone) = Cardinality(archive) - Cardinality(gone)
  <2>1. archive \cap gone = gone
    OBVIOUS
  <2> QED BY <2>1, FS_Difference
<1>3. Cardinality(archive \ gone) <= R2Keep
  BY <1>1, <1>2 DEF Excess
<1>4. ASSUME s \in gone PROVE FALSE
  <2>1. archive \ gone = {}
    BY <1>4 DEF FirstKeys
  <2>2. Cardinality(archive \ gone) = 0
    BY <2>1, FS_EmptySet
  <2> QED BY <1>1, <1>2, <2>2 DEF Excess
<1> QED BY <1>3, <1>4

\* A step that leaves the archive alone, and the published objects with it
\* unless no report depends on them, only has to keep the bounds.
LEMMA ArchiveStays ==
    ASSUME ArchiveInvariant, VersionInBounds', archive' = archive,
           report' = report \/ report'.status # "ok",
           live' = live \/ report'.status # "ok",
           pc' \notin Archiving
    PROVE  ArchiveInvariant'
BY DEF ArchiveInvariant, ArchiveOfRun, PublishIsArchived, Archiving

\* The snapshot of the run in progress is within bounds, and the published
\* objects are the ones it holds.
LEMMA OwnSnapshot ==
    ASSUME RunInvariant, ArchiveInvariant, pc \in Archiving
    PROVE  /\ Snapshot(Absent).version = res /\ Snapshot(out.gz).version = res
           /\ res \in FirstKept..MaxVersion
           /\ Snapshot(out.gz) = [ version |-> res, index |-> live.index,
                                   gz |-> live.gz ]
BY DEF Snapshot, RunInvariant, OutDirOfRun, BucketOfRun, ArchiveInvariant,
       VersionInBounds, Publishing, Archiving

LEMMA ArchiveKept ==
    CounterSafe /\ (R2Cleanup => KeysInOrder)
    /\ RunInvariant /\ CounterInvariant /\ ArchiveIsServed
    /\ ArchiveInvariant /\ [Next]_vars => ArchiveInvariant'
<1> SUFFICES ASSUME CounterSafe, R2Cleanup => KeysInOrder, RunInvariant,
                    CounterInvariant, ArchiveIsServed, ArchiveInvariant,
                    [Next]_vars
             PROVE  ArchiveInvariant'
  OBVIOUS
<1> USE ConstantsAssumption, MaxVersionAssumption
<1>0. /\ History \in Nat /\ MaxVersion \in Nat /\ FirstKept \in Nat
      /\ FirstKept <= History + 1 /\ res \in Nat
      /\ Version(live.index) \in Nat /\ Version(out.index) \in Nat
  BY DEF FirstKept, RunInvariant, TypeOK, ProcessTypeOK, DiskTypeOK,
         BucketTypeOK, Version, Parses, Indexes
<1>a. VersionInBounds /\ ArchiveOfRun /\ PublishIsArchived
  BY DEF ArchiveInvariant
<1>b. pc \in Uploading \cup Archiving => report.status # "ok" /\ cmd = "weekly"
  BY DEF RunInvariant, OutDirOfRun, BucketOfRun
<1> USE DEF BeforeIndex, Publishing, Uploading, Archiving
<1>1. CASE StartWeekly
  <2>1. VersionInBounds'
    BY <1>a, <1>1 DEF StartWeekly, BelowBound, VersionInBounds
  <2> QED BY <1>1, <2>1, ArchiveStays DEF StartWeekly, NoReport
<1>2. CASE StartExport
  <2>1. VersionInBounds'
    BY <1>a, <1>2 DEF StartExport, BelowBound, VersionInBounds
  <2> QED BY <1>2, <2>1, ArchiveStays DEF StartExport
<1>3. CASE FetchProd
  <2>1. VersionInBounds'
    BY <1>a, <1>3 DEF FetchProd, Continue, Return, VersionInBounds
  <2> QED BY <1>3, <2>1, ArchiveStays DEF FetchProd, Continue, Return
<1>4. CASE CheckDatabase
  <2>1. VersionInBounds'
    BY <1>a, <1>4 DEF CheckDatabase, Continue, Return, VersionInBounds
  <2> QED BY <1>4, <2>1, ArchiveStays DEF CheckDatabase, Continue, Return
<1>5. CASE PCGWSync
  <2>1. VersionInBounds'
    BY <1>a, <1>5 DEF PCGWSync, Continue, VersionInBounds
  <2> QED BY <1>5, <2>1, ArchiveStays DEF PCGWSync, Continue
<1>6. CASE SnapshotDB
  <2>1. VersionInBounds'
    BY <1>a, <1>6 DEF SnapshotDB, StepFails, Return, VersionInBounds
  <2> QED BY <1>6, <2>1, ArchiveStays DEF SnapshotDB, StepFails, Return
<1>7. CASE ExportBundle
  <2>1. VersionInBounds'
    BY <1>a, <1>7 DEF ExportBundle, Continue, StepFails, Return,
                      VersionInBounds
  <2> QED BY <1>7, <2>1, ArchiveStays
          DEF ExportBundle, Continue, StepFails, Return
<1>8. CASE WriteGz
  <2>1. VersionInBounds'
    BY <1>a, <1>8 DEF WriteGz, Write, Continue, Return, VersionInBounds,
                      RunInvariant, TypeOK, DiskTypeOK
  <2> QED BY <1>8, <2>1, ArchiveStays DEF WriteGz, Write, Continue, Return
<1>9. CASE WriteMeta
  <2>1. VersionInBounds'
    BY <1>a, <1>9 DEF WriteMeta, Write, Continue, Return, VersionInBounds,
                      RunInvariant, TypeOK, DiskTypeOK
  <2> QED BY <1>9, <2>1, ArchiveStays DEF WriteMeta, Write, Continue, Return
<1>10. CASE PreviousIndex /\ StepFails
  <2>1. VersionInBounds'
    BY <1>a, <1>10 DEF PreviousIndex, StepFails, Return, VersionInBounds
  <2> QED BY <1>10, <2>1, ArchiveStays DEF PreviousIndex, StepFails, Return
<1>26. CASE PreviousIndex /\ ~StepFails
  <2>1. /\ pc = "previous_index" /\ pc' = "write_index"
        /\ UNCHANGED <<live, archive, report>>
        /\ res' \in {Version(out.index) + 1, Version(live.index) + 1, 1}
    BY <1>26 DEF PreviousIndex, LivePrevious
  <2>2. res' > Version(live.index)
    <3>1. CounterInvariant'
      BY CounterStep
    <3> QED BY <2>1, <3>1 DEF CounterInvariant, NewVersion
  <2>3. res' \in FirstKept..MaxVersion
    BY <1>0, <1>a, <2>1, <2>2 DEF VersionInBounds
  <2>4. VersionInBounds'
    BY <1>a, <2>1, <2>3 DEF VersionInBounds
  <2> QED BY <2>1, <2>4, ArchiveStays
<1>11. CASE WriteIndex
  <2>1. VersionInBounds'
    BY <1>a, <1>11 DEF WriteIndex, Write, Continue, Return, VersionInBounds
  <2> QED BY <1>11, <2>1, ArchiveStays DEF WriteIndex, Write, Continue, Return
<1>12. CASE Validate
  <2>1. VersionInBounds'
    BY <1>a, <1>12 DEF Validate, Continue, Return, VersionInBounds
  <2> QED BY <1>12, <2>1, ArchiveStays DEF Validate, Continue, Return
<1>13. CASE UploadGz
  <2>1. VersionInBounds'
    BY <1>a, <1>13 DEF UploadGz, PutIfPresent, Put, Continue, Return,
                       VersionInBounds, RunInvariant, TypeOK, BucketTypeOK
  <2> QED BY <1>b, <1>13, <2>1, ArchiveStays
          DEF UploadGz, PutIfPresent, Put, Continue, Return
<1>14. CASE UploadMeta
  <2>1. VersionInBounds'
    BY <1>a, <1>14 DEF UploadMeta, PutIfPresent, Put, Continue, Return,
                       VersionInBounds, RunInvariant, TypeOK, BucketTypeOK
  <2> QED BY <1>b, <1>14, <2>1, ArchiveStays
          DEF UploadMeta, PutIfPresent, Put, Continue, Return
<1>15. CASE UploadIndex
  <2>1. /\ pc = "upload_index" /\ archive' = archive
        /\ live'.index \in {live.index, out.index}
    BY <1>15 DEF UploadIndex, Put, RunInvariant, TypeOK, BucketTypeOK
  <2>2. Version(out.index) = res /\ res > Version(live.index)
    BY <2>1, SentinelsAssumption
       DEF RunInvariant, TypeOK, ProcessTypeOK, DiskTypeOK, OutDirOfRun,
           CounterInvariant, NewVersion, Version, Parses, Indexes
  <2>3. Version(live'.index) >= History
    BY <1>0, <1>a, <2>1, <2>2 DEF VersionInBounds
  <2>4. CASE Continue("archive_index")
    <3>1. pc' = "archive_index" /\ UNCHANGED <<res, report>>
      BY <2>4 DEF Continue
    <3>2. VersionInBounds'
      BY <1>a, <2>1, <2>3, <3>1 DEF VersionInBounds
    <3>3. ArchiveOfRun'
      <4>1. \A a \in archive : a.version < res
        BY <1>0, <1>a, <2>2 DEF ArchiveIsServed, ArchiveOfRun
      <4> QED BY <1>a, <2>1, <2>2, <3>1, <4>1 DEF ArchiveOfRun
    <3> QED BY <1>b, <2>1, <3>1, <3>2, <3>3
            DEF ArchiveInvariant, PublishIsArchived
  <2>5. CASE Return(TRUE)
    <3>1. pc' \in {"idle", "down"} /\ report'.status # "ok"
      BY <1>b, <2>1, <2>5 DEF Return
    <3>2. VersionInBounds'
      BY <2>3, <3>1 DEF VersionInBounds
    <3> QED BY <2>1, <3>1, <3>2, ArchiveStays
  <2> QED BY <1>15, <2>4, <2>5 DEF UploadIndex, Put
<1>16. CASE ArchiveIndex
  <2>1. /\ pc = "archive_index" /\ UNCHANGED <<live, out>>
        /\ archive' \in {archive, archive \cup {Snapshot(Absent)}}
        /\ \/ pc' = "archive_gz" /\ UNCHANGED <<res, report>>
           \/ pc' \in {"idle", "down"} /\ report'.status # "ok"
    BY <1>b, <1>16 DEF ArchiveIndex, PutSnapshot, Continue, Return
  <2>2. IsFiniteSet(archive')
    BY <2>1, FS_AddElement DEF ArchiveInvariant
  <2>3. VersionInBounds'
    BY <1>a, <2>1 DEF VersionInBounds
  <2>4. ArchiveOfRun'
    <3>1. \A a \in archive' : a.version \in FirstKept..MaxVersion
      BY <1>a, <2>1, OwnSnapshot DEF ArchiveOfRun
    <3>2. ASSUME pc' = "archive_gz"
          PROVE  \A a \in archive' : a.version < res' \/ a = Snapshot(Absent)'
      <4>1. \A a \in archive : a.version < res
        BY <1>a, <2>1 DEF ArchiveOfRun
      <4> QED BY <2>1, <3>2, <4>1 DEF Snapshot
    <3> QED BY <2>1, <3>1, <3>2 DEF ArchiveOfRun
  <2> QED BY <1>b, <2>1, <2>2, <2>3, <2>4
          DEF ArchiveInvariant, PublishIsArchived
<1>17. CASE ArchiveGz
  <2> DEFINE new == (archive \ {Snapshot(Absent)}) \cup {Snapshot(out.gz)}
  <2>1. /\ pc = "archive_gz" /\ UNCHANGED <<live, out>>
        /\ archive' \in {archive, new}
    BY <1>17 DEF ArchiveGz, PutSnapshot
  <2>2. IsFiniteSet(archive')
    <3>1. IsFiniteSet(archive \ {Snapshot(Absent)})
      BY FS_RemoveElement DEF ArchiveInvariant
    <3>2. IsFiniteSet(new)
      BY <3>1, FS_AddElement
    <3> QED BY <2>1, <3>2 DEF ArchiveInvariant
  <2>3. \A a \in archive' : a.version \in FirstKept..MaxVersion
    BY <1>a, <2>1, OwnSnapshot DEF ArchiveOfRun
  <2>4. \A a \in new : a.version < res \/ a = Snapshot(out.gz)
    BY <1>a, <2>1 DEF ArchiveOfRun
  <2>5. CASE pc' \in {"idle", "down"} /\ report'.status # "ok"
    BY <1>a, <2>1, <2>2, <2>3, <2>5
       DEF ArchiveInvariant, VersionInBounds, ArchiveOfRun, PublishIsArchived
  <2>6. CASE archive' = new /\ Uploaded
    <3>1. CASE /\ pc' \in {"db_backup", "r2_cleanup"}
               /\ pc' = "r2_cleanup" => R2Cleanup
               /\ UNCHANGED <<res, report>>
      <4>1. VersionInBounds'
        BY <1>a, <2>1, <3>1 DEF VersionInBounds
      <4>2. Snapshot(out.gz)' = Snapshot(out.gz)
        BY <2>1, <3>1 DEF Snapshot
      <4>3. ArchiveOfRun'
        BY <2>1, <2>3, <2>4, <2>6, <3>1, <4>2 DEF ArchiveOfRun
      <4> QED BY <1>b, <2>1, <2>2, <3>1, <4>1, <4>3
              DEF ArchiveInvariant, PublishIsArchived
    <3>2. CASE ~R2Cleanup /\ Return(FALSE)
      <4>1. /\ pc' \in {"idle", "down"} /\ report'.version = res
        BY <1>b, <2>1, <3>2 DEF Return
      <4>2. PublishIsArchived'
        BY <2>1, <2>6, <3>2, <4>1, OwnSnapshot DEF PublishIsArchived
      <4> QED BY <1>a, <2>1, <2>2, <2>3, <4>1, <4>2
              DEF ArchiveInvariant, VersionInBounds, ArchiveOfRun
    <3> QED BY <2>6, <3>1, <3>2 DEF Uploaded, Continue
  <2> QED BY <1>b, <1>17, <2>1, <2>5, <2>6 DEF ArchiveGz, PutSnapshot, Return
<1>18. CASE DBBackupStep
  <2>1. pc = "db_backup" /\ UNCHANGED <<out, live, archive>>
    BY <1>18 DEF DBBackupStep
  <2>2. CASE R2Cleanup /\ Continue("r2_cleanup")
    <3>1. pc' = "r2_cleanup" /\ UNCHANGED <<res, report>>
      BY <2>2 DEF Continue
    <3>2. VersionInBounds'
      BY <1>a, <2>1, <3>1 DEF VersionInBounds
    <3>3. ArchiveOfRun'
      <4>1. Snapshot(out.gz)' = Snapshot(out.gz)
        BY <2>1, <3>1 DEF Snapshot
      <4> QED BY <1>a, <2>1, <2>2, <3>1, <4>1 DEF ArchiveOfRun
    <3> QED BY <1>b, <2>1, <3>1, <3>2, <3>3
            DEF ArchiveInvariant, PublishIsArchived
  <2>3. CASE ~R2Cleanup /\ Return(FALSE)
    <3>1. pc' \in {"idle", "down"} /\ report'.version = res
      BY <1>b, <2>1, <2>3 DEF Return
    <3>2. Snapshot(out.gz) \in archive
      BY <1>a, <2>1 DEF ArchiveOfRun
    <3>3. PublishIsArchived'
      BY <2>1, <2>3, <3>1, <3>2, OwnSnapshot DEF PublishIsArchived
    <3> QED BY <1>a, <2>1, <3>1, <3>3
            DEF ArchiveInvariant, VersionInBounds, ArchiveOfRun
  <2> QED BY <1>18, <2>2, <2>3 DEF DBBackupStep
<1>19. CASE R2CleanupStep
  <2>1. pc = "r2_cleanup" /\ UNCHANGED <<out, live>>
    BY <1>19 DEF R2CleanupStep
  <2>2. PICK gone \in SUBSET archive :
          /\ FirstKeys(gone) /\ archive' = archive \ gone
          /\ \/ Cardinality(gone) = Excess /\ Return(FALSE)
             \/ Return(TRUE)
    BY <1>19 DEF R2CleanupStep
  <2>3. IsFiniteSet(archive')
    BY <2>2, FS_Subset DEF ArchiveInvariant
  <2>4. pc' \in {"idle", "down"}
    BY <2>2 DEF Return
  <2>5. VersionInBounds' /\ ArchiveOfRun'
    BY <1>a, <2>1, <2>2, <2>4 DEF VersionInBounds, ArchiveOfRun
  <2>6. PublishIsArchived'
    <3> SUFFICES ASSUME report'.status = "ok", R2Keep > 0
                 PROVE  PublishIsArchived'
      BY DEF PublishIsArchived
    <3>1. Cardinality(gone) = Excess /\ report'.version = res
      BY <1>b, <2>1, <2>2 DEF Return
    <3>2. KeysInOrder
      BY <1>a, <2>1 DEF ArchiveOfRun
    <3>3. /\ Snapshot(out.gz) \in archive
          /\ \A a \in archive : \/ a = Snapshot(out.gz)
                                \/ KeyLess(a.version, Snapshot(out.gz).version)
      <4>1. \A a \in archive : a.version \in FirstKept..MaxVersion
        BY <1>a DEF ArchiveOfRun
      <4>2. res \in FirstKept..MaxVersion /\ Snapshot(out.gz).version = res
        BY <2>1, OwnSnapshot
      <4>3. \A a \in archive : a.version < res => KeyLess(a.version, res)
        BY <3>2, <4>1, <4>2 DEF KeysInOrder
      <4> QED BY <1>a, <2>1, <4>2, <4>3 DEF ArchiveOfRun
    <3>4. /\ Snapshot(out.gz) \in archive'
          /\ Cardinality(archive') <= R2Keep
      <4>1. R2Keep \in Nat \ {0} /\ IsFiniteSet(archive)
        BY DEF ArchiveInvariant
      <4>2. /\ Snapshot(out.gz) \in archive \ gone
            /\ Cardinality(archive \ gone) <= R2Keep
        BY <2>2, <3>1, <3>3, <4>1, PruneKeepsNewest, Zenon
      <4> QED BY <2>2, <4>2
    <3> QED BY <2>1, <3>1, <3>4, OwnSnapshot DEF PublishIsArchived
  <2> QED BY <2>3, <2>5, <2>6 DEF ArchiveInvariant
<1>20. CASE Boot
  <2>1. VersionInBounds'
    BY <1>a, <1>20 DEF Boot, VersionInBounds
  <2> QED BY <1>20, <2>1, ArchiveStays DEF Boot
<1>21. CASE Sigterm
  <2>1. VersionInBounds'
    BY <1>a, <1>21 DEF Sigterm, VersionInBounds
  <2> QED BY <1>21, <2>1, ArchiveStays DEF Sigterm, Requesting
<1>22. CASE Crash
  <2>1. VersionInBounds'
    BY <1>a, <1>22 DEF Crash, VersionInBounds
  <2> QED BY <1>22, <2>1, ArchiveStays DEF Crash, NoReport
<1>23. CASE LoseOutDir
  <2>1. VersionInBounds'
    BY <1>a, <1>23 DEF LoseOutDir, run, VersionInBounds
  <2> QED BY <1>23, <2>1, ArchiveStays DEF LoseOutDir, run
<1>24. CASE ProvideDB
  <2>1. VersionInBounds'
    BY <1>a, <1>24 DEF ProvideDB, run, VersionInBounds
  <2> QED BY <1>24, <2>1, ArchiveStays DEF ProvideDB, run
<1>25. CASE UNCHANGED vars
  BY <1>25 DEF vars, ArchiveInvariant, VersionInBounds, ArchiveOfRun,
               PublishIsArchived, Snapshot
<1> QED BY <1>1, <1>2, <1>3, <1>4, <1>5, <1>6, <1>7, <1>8, <1>9, <1>10, <1>11,
          <1>12, <1>13, <1>14, <1>15, <1>16, <1>17, <1>18, <1>19, <1>20,
          <1>21, <1>22, <1>23, <1>24, <1>25, <1>26
          DEF Next, Weekly, Environment

-----------------------------------------------------------------------------
(* The shrink guard.                                                        *)

Guarded ==
    { "write_gz", "write_meta", "previous_index", "write_index",
      "validate_artifacts" } \cup Uploading

\* The guard has passed what a run writes and uploads, with the metadata that
\* was in OUT_DIR at the time.
GuardInvariant == pc \in Guarded => ~Refused(against, snap)

\* A run comes past the guard at ExportBundle alone, and keeps its snapshot.
LEMMA GuardPassed ==
    ASSUME [Next]_vars, pc' \in Guarded
    PROVE  /\ snap' = snap
           /\ \/ pc \in Guarded
              \/ /\ pc = "export_bundle" /\ pc' = "write_gz"
                 /\ ~Refused(out.meta, snap)
<1> USE DEF Guarded, Uploading, Continue, Return, StepFails
<1>1. CASE StartWeekly \/ StartExport \/ FetchProd \/ CheckDatabase
           \/ PCGWSync \/ SnapshotDB
  BY <1>1 DEF StartWeekly, StartExport, FetchProd, CheckDatabase, PCGWSync,
              SnapshotDB
<1>2. CASE ExportBundle
  BY <1>2 DEF ExportBundle
<1>3. CASE WriteGz \/ WriteMeta \/ PreviousIndex \/ WriteIndex \/ Validate
  BY <1>3 DEF WriteGz, WriteMeta, WriteIndex, Write, PreviousIndex, Validate
<1>4. CASE UploadGz \/ UploadMeta \/ UploadIndex
  BY <1>4 DEF UploadGz, UploadMeta, UploadIndex, PutIfPresent, Put
<1>5. CASE ArchiveIndex \/ ArchiveGz \/ DBBackupStep \/ R2CleanupStep
  BY <1>5 DEF ArchiveIndex, ArchiveGz, PutSnapshot, Uploaded, DBBackupStep,
              R2CleanupStep
<1>6. CASE Environment \/ UNCHANGED vars
  BY <1>6 DEF Environment, Boot, Sigterm, Crash, LoseOutDir, ProvideDB, run,
              vars
<1> QED BY <1>1, <1>2, <1>3, <1>4, <1>5, <1>6 DEF Next, Weekly

LEMMA GuardStep == GuardInvariant /\ [GNext]_gvars => GuardInvariant'
<1> SUFFICES ASSUME GuardInvariant, [GNext]_gvars, pc' \in Guarded
             PROVE  ~Refused(against, snap)'
  BY DEF GuardInvariant
<1>1. CASE GNext
  <2>1. /\ snap' = snap
        /\ \/ pc \in Guarded
           \/ /\ pc = "export_bundle" /\ pc' = "write_gz"
              /\ ~Refused(out.meta, snap)
    BY <1>1, GuardPassed DEF GNext
  <2>2. against' = IF pc = "export_bundle" THEN out.meta ELSE against
    BY <1>1, <2>1 DEF GNext, Compared, Guarded, Uploading
  <2> QED BY <2>1, <2>2 DEF GuardInvariant, Guarded, Uploading, Refused, Shrunk
<1>2. CASE UNCHANGED gvars
  BY <1>2 DEF gvars, vars, GuardInvariant, Refused, Shrunk
<1> QED BY <1>1, <1>2

-----------------------------------------------------------------------------
(* The theorems.                                                            *)

\* RunInvariant holds in every reachable state, whatever the faults.
THEOREM RunCorrect == Spec => []RunInvariant
BY InitRun, RunStep, PTL DEF Spec

\* Every variable keeps its type; no torn file is ever published.
THEOREM TypeCorrect == Spec => []TypeOK
<1>1. RunInvariant => TypeOK
  BY DEF RunInvariant
<1> QED BY <1>1, RunCorrect, PTL

\* A publish reported as done is what the servers read, until the next run.
THEOREM ReportCorrect == Spec => []ReportedPublishIsLive
<1>1. RunInvariant => ReportedPublishIsLive
  BY DEF RunInvariant
<1> QED BY <1>1, RunCorrect, PTL

\* Whatever fails, the published index only changes to one that names the
\* published, validated bundle.
THEOREM CutoverCorrect == Spec => CutoverNamesBundle
<1>1. RunInvariant /\ [Next]_vars =>
        [ live.index' # live.index =>
            live.index'.sha = live.gz' /\ live.gz' \notin Malformed ]_vars
  <2> SUFFICES ASSUME RunInvariant, [Next]_vars, live.index' # live.index
               PROVE  live.index'.sha = live.gz' /\ live.gz' \notin Malformed
    OBVIOUS
  <2>1. UploadIndex
    BY LiveIndexStep DEF RunInvariant, TypeOK
  <2>2. live.index' = out.index /\ live.gz' = live.gz
    BY <2>1 DEF UploadIndex, Put, RunInvariant, TypeOK, BucketTypeOK
  <2>3. out.index.sha = snap /\ live.gz = snap /\ snap \notin Malformed
    BY <2>1 DEF UploadIndex, RunInvariant, OutDirOfRun, BucketOfRun,
                Publishing, Uploading, Archiving
  <2> QED BY <2>2, <2>3
<1> QED BY <1>1, RunCorrect, PTL DEF Spec, CutoverNamesBundle

\* A database backup holds what is published at the time it is made.
THEOREM BackupCorrect == Spec => BackupIsPublished
<1>1. RunInvariant /\ [Next]_vars =>
        [ backups' # backups /\ backups' # <<>> =>
            backups'[Len(backups')] = live.gz /\ live.gz = live.index.sha ]_vars
  <2> SUFFICES ASSUME RunInvariant, [Next]_vars,
                      backups' # backups, backups' # <<>>
               PROVE  /\ backups'[Len(backups')] = live.gz
                      /\ live.gz = live.index.sha
    OBVIOUS
  <2>1. DBBackupStep
    BY BackupsStep
  <2>2. /\ snap \in Bundles /\ live.gz = snap
        /\ live.index = [version |-> res, sha |-> snap]
    BY <2>1 DEF DBBackupStep, RunInvariant, OutDirOfRun, BucketOfRun,
                Publishing, Uploading, Archiving
  <2>3. backups \in Seq(Bundles)
    BY DEF RunInvariant, TypeOK, BucketTypeOK
  <2>4. CASE backups' = Append(backups, snap)
    BY <2>2, <2>3, <2>4
  <2>5. CASE backups' = Newest(Append(backups, snap), DBBackupKeep)
    <3>1. DBBackupKeep \in Nat
      BY ConstantsAssumption
    <3>2. Newest(Append(backups, snap), DBBackupKeep) # <<>>
      BY <2>5
    <3>3. backups'[Len(backups')] = snap
      BY <2>2, <2>3, <2>5, <3>1, <3>2, NewestLast
    <3> QED BY <2>2, <3>3
  <2> QED BY <2>1, <2>4, <2>5 DEF DBBackupStep
<1> QED BY <1>1, RunCorrect, PTL DEF Spec, BackupIsPublished

\* With the faults of CounterSafe every version published is a new one.
THEOREM CounterCorrect == CounterSafe => (Spec => []CounterInvariant)
<1> SUFFICES ASSUME CounterSafe PROVE Spec => []CounterInvariant
  OBVIOUS
<1>1. RunInvariant /\ CounterInvariant /\ [Next]_vars => CounterInvariant'
  BY CounterStep
<1> QED BY <1>1, InitCounter, RunCorrect, PTL DEF Spec

\* Under the same condition every archive snapshot is of a version that was
\* served, and holds the bundle that version named (UploadLive's second half,
\* PruneArchives).
THEOREM ArchiveServed == CounterSafe => (Spec => []ArchiveIsServed)
<1> SUFFICES ASSUME CounterSafe PROVE Spec => []ArchiveIsServed
  OBVIOUS
<1>1. Init => ArchiveIsServed
  <2> SUFFICES ASSUME Init PROVE ArchiveIsServed
    OBVIOUS
  <2>1. CASE History = 0
    BY <2>1 DEF Init, ArchiveIsServed
  <2>2. CASE History # 0
    <3>1. PICK b \in Datasets \ Malformed :
            /\ live = Published(b)
            /\ archive = { [version |-> v, gz |-> b,
                            index |-> [version |-> v, sha |-> b]] :
                           v \in {n \in 1..History : n > History - R2Keep} }
      BY <2>2 DEF Init
    <3>2. [version |-> History, sha |-> b] \in Indexes
      BY <2>2, ConstantsAssumption, MaxVersionAssumption
         DEF Indexes, Datasets
    <3>3. Version(live.index) = History
      BY <3>1, <3>2, SentinelsAssumption DEF Published, Version, Parses
    <3>4. ASSUME NEW v \in 1..History
          PROVE  v <= Version(live.index)
      BY <3>3, ConstantsAssumption, MaxVersionAssumption
    <3> QED BY <3>1, <3>4 DEF ArchiveIsServed
  <2> QED BY <2>1, <2>2
<1>2. RunInvariant /\ CounterInvariant /\ ArchiveIsServed /\ [Next]_vars
      => ArchiveIsServed'
  <2> SUFFICES ASSUME RunInvariant, CounterInvariant, ArchiveIsServed,
                      [Next]_vars, NEW a \in archive'
               PROVE  /\ a.index.version = a.version
                      /\ a.version <= Version(live'.index)
                      /\ a.gz \in {Absent, a.index.sha}
    BY DEF ArchiveIsServed
  <2>1. /\ Version(live.index) \in Nat /\ Version(live'.index) \in Nat
        /\ Version(live.index) <= Version(live'.index)
    <3>1. Version(live.index) \in Nat
      BY DEF RunInvariant, TypeOK, BucketTypeOK, Version, Parses, Indexes
    <3>2. CASE live'.index = live.index
      BY <3>1, <3>2
    <3>3. CASE live'.index # live.index
      <4>1. UploadIndex
        BY <3>3, LiveIndexStep DEF RunInvariant, TypeOK
      <4>2. live'.index = out.index /\ res > Version(live.index)
        BY <3>3, <4>1
           DEF UploadIndex, Put, RunInvariant, TypeOK, BucketTypeOK,
               CounterInvariant, NewVersion, Uploading
      <4>3. /\ out.index = [version |-> res, sha |-> snap]
            /\ out.index \in Indexes /\ res \in Nat
        BY <4>1 DEF UploadIndex, RunInvariant, TypeOK, ProcessTypeOK,
                    DiskTypeOK, OutDirOfRun, Publishing, Uploading, Archiving,
                    Indexes
      <4>4. Version(live'.index) = res
        BY <4>2, <4>3, SentinelsAssumption DEF Version, Parses
      <4> QED BY <3>1, <4>2, <4>3, <4>4
    <3> QED BY <3>2, <3>3
  <2>2. CASE a \in archive
    <3>1. a.version \in Nat /\ a.version <= Version(live.index)
      BY <2>2 DEF RunInvariant, TypeOK, BucketTypeOK, ArchiveIsServed
    <3> QED BY <2>1, <2>2, <3>1 DEF ArchiveIsServed
  <2>3. CASE a \notin archive
    <3>1. ArchiveIndex \/ ArchiveGz
      BY <2>3, ArchiveStep
    <3>2. a \in {Snapshot(Absent), Snapshot(out.gz)} /\ UNCHANGED live
      BY <2>3, <3>1 DEF ArchiveIndex, ArchiveGz, PutSnapshot
    <3>3. /\ live.index = out.index /\ out.gz = snap
          /\ out.index = [version |-> res, sha |-> snap]
          /\ out.index \in Indexes /\ res \in Nat
      BY <3>1 DEF ArchiveIndex, ArchiveGz, RunInvariant, TypeOK,
                  ProcessTypeOK, OutDirOfRun, BucketOfRun, Publishing,
                  Uploading, Archiving, Indexes
    <3>4. Version(live'.index) = res
      BY <3>2, <3>3, SentinelsAssumption DEF Version, Parses
    <3> QED BY <3>2, <3>3, <3>4 DEF Snapshot
  <2> QED BY <2>2, <2>3
<1> QED BY <1>1, <1>2, RunCorrect, CounterCorrect, PTL DEF Spec

\* Whatever fails, is exported by hand or lost, a publish loses more than a
\* quarter of some count only when the guard is off or has compared it with
\* other metadata than that of the published bundle (guardAgainstShrink).
THEOREM CollapseCorrect == GSpec => CollapseNeedsDrift
<1>1. GInit => Init /\ GuardInvariant
  BY DEF GInit, Init, GuardInvariant, Guarded, Uploading
<1>2. [GNext]_gvars => [Next]_vars
  BY DEF GNext, gvars
<1>3. RunInvariant /\ GuardInvariant /\ [GNext]_gvars =>
        [ live.index' # live.index /\ live.index # Absent
            /\ Shrunk(live.index.sha, live.index'.sha)
          => ForcePublish \/ against # live.index.sha ]_gvars
  <2> SUFFICES ASSUME RunInvariant, GuardInvariant, [Next]_vars,
                      live.index' # live.index, live.index # Absent,
                      ~ForcePublish, against = live.index.sha
               PROVE  ~Shrunk(live.index.sha, live.index'.sha)
    BY <1>2
  <2>1. UploadIndex
    BY LiveIndexStep DEF RunInvariant, TypeOK
  <2>2. live.index' = out.index
    BY <2>1 DEF UploadIndex, Put, RunInvariant, TypeOK, BucketTypeOK
  <2>3. out.index = [version |-> res, sha |-> snap]
    BY <2>1 DEF UploadIndex, RunInvariant, OutDirOfRun, Publishing, Uploading
  <2>4. against \in Bundles
    BY DEF RunInvariant, TypeOK, BucketTypeOK, Indexes
  <2>5. ~Refused(against, snap)
    BY <2>1 DEF UploadIndex, GuardInvariant, Guarded, Uploading
  <2>6. ~Shrunk(live.index.sha, snap)
    BY <2>4, <2>5 DEF Refused
  <2> QED BY <2>2, <2>3, <2>6
<1> QED BY <1>1, <1>2, <1>3, GuardStep, RunCorrect, PTL
        DEF Spec, GSpec, CollapseNeedsDrift

\* After a publish is reported as done its own snapshot is in the archive,
\* complete, and pruning has left no more than R2_KEEP: under CounterSafe and,
\* if old snapshots are pruned, as long as the versions sort as text the way
\* they do as numbers (UploadLive, PruneArchives).
THEOREM ArchiveComplete ==
    CounterSafe /\ (R2Cleanup => KeysInOrder) => (Spec => []PublishIsArchived)
<1> SUFFICES ASSUME CounterSafe, R2Cleanup => KeysInOrder
             PROVE  Spec => []PublishIsArchived
  OBVIOUS
<1>1. RunInvariant /\ CounterInvariant /\ ArchiveIsServed /\ ArchiveInvariant
      /\ [Next]_vars => ArchiveInvariant'
  BY ArchiveKept
<1>2. ArchiveInvariant => PublishIsArchived
  BY DEF ArchiveInvariant
<1> QED BY <1>1, <1>2, InitArchive, RunCorrect, CounterCorrect, ArchiveServed,
          PTL DEF Spec

\* With the faults of CounterSafe the pipeline implements LiveManifest.
THEOREM Refinement == CounterSafe => (Spec => Implements)
<1> SUFFICES ASSUME CounterSafe PROVE Spec => Implements
  OBVIOUS
<1>1. Init => LM!Init
  <2> SUFFICES ASSUME Init PROVE LM!Init
    OBVIOUS
  <2>1. CASE History = 0
    BY <2>1 DEF Init, NoFiles, LM!Init
  <2>2. CASE History # 0
    BY <2>2, ConstantsAssumption, MaxVersionAssumption
       DEF Init, Published, Datasets, LM!Init, LM!Naming
  <2> QED BY <2>1, <2>2
<1>2. RunInvariant /\ CounterInvariant /\ [Next]_vars => [LM!Next]_(LM!vars)
  <2> SUFFICES ASSUME RunInvariant, CounterInvariant, [Next]_vars,
                      ~UNCHANGED <<live.gz, live.index>>
               PROVE  LM!Next
    BY DEF LM!vars
  <2>1. CASE live.index' # live.index
    <3>1. UploadIndex
      BY <2>1, LiveIndexStep DEF RunInvariant, TypeOK
    <3>2. live.index' = out.index /\ live.gz' = live.gz
      BY <2>1, <3>1 DEF UploadIndex, Put, RunInvariant, TypeOK, BucketTypeOK
    <3>3. /\ out.index = [version |-> res, sha |-> snap] /\ res \in Nat \ {0}
          /\ live.gz = snap /\ snap \in Bundles \ Malformed
      BY <3>1 DEF UploadIndex, RunInvariant, TypeOK, ProcessTypeOK, OutDirOfRun,
                  BucketOfRun, Publishing, Uploading, Archiving
    <3>4. res > LM!Current
      BY <3>1, SentinelsAssumption
         DEF UploadIndex, CounterInvariant, NewVersion, Uploading, Version,
             Parses, LM!Current, RunInvariant, TypeOK, BucketTypeOK
    <3> QED BY <3>2, <3>3, <3>4 DEF LM!Next, LM!Cutover, LM!Naming
  <2>2. CASE live.index' = live.index
    <3>1. UploadGz
      BY <2>2, LiveGzStep DEF RunInvariant, TypeOK
    <3>2. live.gz' \in Bundles \ Malformed
      BY <2>2, <3>1 DEF UploadGz, PutIfPresent, Put, RunInvariant, TypeOK,
                        ProcessTypeOK, BucketTypeOK, OutDirOfRun, Publishing,
                        Uploading
    <3> QED BY <2>2, <3>2 DEF LM!Next, LM!Stage
  <2> QED BY <2>1, <2>2
<1> QED BY <1>1, <1>2, RunCorrect, CounterCorrect, PTL
        DEF Spec, Implements, LM!Spec

=============================================================================
