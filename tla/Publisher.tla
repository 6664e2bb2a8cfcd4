------------------------------ MODULE Publisher ------------------------------
(***************************************************************************)
(* The publish pipeline of vps-sync (internal/run, internal/publish,        *)
(* internal/validate and the writing half of internal/r2) as one process    *)
(* runs it: the weekly job and the `export` command over a mirror database, *)
(* an output directory and an R2 bucket, with the crashes, shutdowns and    *)
(* failed requests the code meets on the way.                               *)
(*                                                                         *)
(* Data is abstracted to what the pipeline tells apart.  A bundle is the    *)
(* content of the database and stands for every form that content takes:    *)
(* the mirror, its snapshot, manifest.json.gz and its SHA-256, and the      *)
(* manifest.meta.json that records its row counts and checksum.             *)
(***************************************************************************)
EXTENDS Integers, Sequences, FiniteSets, ArchiveKeys

CONSTANTS
    Bundles,        \* contents the mirror database can have
    NoRows,         \* the bundle exported from a database without rows
    CountNames,     \* the counts the shrink guard compares
    Counts,         \* Counts[b][c] is count c of bundle b
    Malformed,      \* the bundles validate.validateBundle refuses
    Absent,         \* no such file or object
    Torn,           \* a file whose write did not complete
    EmptyFile       \* a database file of zero bytes

CONSTANTS
    FetchProdDB,    \* FETCH_PROD_DB: refresh the mirror before each run
    ProdDBSrc,      \* PROD_DB_SRC is set
    AutoBootstrap,  \* AUTO_BOOTSTRAP: serve seeds a missing database
    RunPCGWSync,    \* RUN_PCGW_SYNC
    ForcePublish,   \* FORCE_PUBLISH=1: the shrink guard is off
    DBBackup,       \* DB_BACKUP
    DBBackupKeep,   \* DB_BACKUP_KEEP
    R2Cleanup,      \* R2_CLEANUP
    R2Keep          \* R2_KEEP

CONSTANTS
    Commands,       \* the commands started: a subset of {"weekly", "export"}
    Faults,         \* what may go wrong: a subset of FaultKinds
    History,        \* versions published before the behaviour starts
    MaxBackups      \* bound: the database backups with which a run may start

FaultKinds == { "crash",        \* the process dies between or inside steps
                "sigterm",      \* docker stop, ^C: the context is cancelled
                "step",         \* a local step fails: rsync, sqlite3, export
                "write",        \* os.WriteFile fails, the file is truncated
                "put",          \* an R2 request fails
                "live_get",     \* the published index.json cannot be fetched
                "outdir_lost" } \* OUT_DIR is wiped: a rebuilt host, a redeploy

ASSUME ConstantsAssumption ==
    /\ NoRows \in Bundles
    /\ Counts \in [Bundles -> [CountNames -> Nat]]
    /\ Malformed \subseteq Bundles
    /\ {Absent, Torn, EmptyFile} \cap Bundles = {}
    /\ Absent # Torn /\ Absent # EmptyFile /\ Torn # EmptyFile
    /\ DBBackupKeep \in Nat /\ R2Keep \in Nat
    /\ Faults \subseteq FaultKinds
    /\ Commands \subseteq {"weekly", "export"}
    /\ History \in 0..MaxVersion

\* index.json: the version counter and the checksum of the bundle it names.
Indexes == [version : Nat \ {0}, sha : Bundles]

ASSUME SentinelsAssumption == {Absent, Torn} \cap Indexes = {}

VARIABLES
    \* the process
    pc,         \* the step it is at; "idle" between runs, "down" when dead
    cmd,        \* the command it is running
    ctx,        \* "active" until a signal cancels the context
    snap,       \* the database snapshot of this run
    res,        \* res.ManifestVersion of this run
    report,     \* how the last weekly run ended
    \* the host's disk
    db,         \* gsbs.db
    out,        \* OUT_DIR: manifest.json.gz, manifest.meta.json, index.json
    \* the R2 bucket
    live,       \* the three published objects
    archive,    \* archive/v<N>-<timestamp>/ snapshots
    backups     \* db-backup/ objects, oldest first

run    == <<pc, cmd, ctx, snap, res, report>>
disk   == <<db, out>>
bucket == <<live, archive, backups>>
vars   == <<pc, cmd, ctx, snap, res, report, db, out, live, archive, backups>>

Datasets == Bundles \ {NoRows}

NoFiles == [gz |-> Absent, meta |-> Absent, index |-> Absent]

NoReport == [status |-> "none", version |-> 0]

\* ParsePCGWBundleIndex accepts the file, and the version it then reports.
Parses(i) == i \notin {Absent, Torn}
Version(i) == IF Parses(i) THEN i.version ELSE 0

\* A deployment that has published the same bundle in versions 1..History.
Published(b) ==
    [gz |-> b, meta |-> b, index |-> [version |-> History, sha |-> b]]

Init ==
    /\ pc = "idle" /\ cmd = "none" /\ ctx = "active"
    /\ snap = Absent /\ res = 0 /\ report = NoReport
    /\ IF History = 0
       THEN /\ db \in Datasets \cup {Absent}
            /\ out = NoFiles /\ live = NoFiles
            /\ archive = {} /\ backups = <<>>
       ELSE \E b \in Datasets \ Malformed :
            /\ db = b /\ out = Published(b) /\ live = Published(b)
            /\ archive = { [version |-> v, gz |-> b,
                            index |-> [version |-> v, sha |-> b]] :
                           v \in {n \in 1..History : n > History - R2Keep} }
            /\ backups = <<b>>

-----------------------------------------------------------------------------
(* How a step goes on, and how a run ends.                                  *)

\* The run goes on with step p.
Continue(p) == pc' = p /\ UNCHANGED <<cmd, snap, res, report>>

\* The run returns and its snapshot is removed.  A serve whose context is
\* done exits, any other waits for the next tick.  execute reports a weekly
\* run with its version, which an export that fails does not return, and one
\* that failed after a shutdown as interrupted.
Return(failed) ==
    /\ pc' = IF ctx' = "cancelled" THEN "down" ELSE "idle"
    /\ cmd' = "none" /\ snap' = Absent /\ res' = 0
    /\ report' = IF cmd = "weekly"
                 THEN [ version |-> IF pc = "write_index" THEN 0 ELSE res,
                        status  |-> IF ~failed THEN "ok"
                                    ELSE IF ctx' = "cancelled"
                                         THEN "interrupted" ELSE "failed" ]
                 ELSE report

\* A local step that fails leaves its outputs as they were.
StepFails ==
    /\ "step" \in Faults
    /\ UNCHANGED <<ctx, db, out, live, archive, backups>>
    /\ Return(TRUE)

\* The signal arrives while a request is in flight.
Interrupted == "sigterm" \in Faults /\ ctx = "active" /\ ctx' = "cancelled"

\* A request carries the run's context: it is not sent once that is done.
RequestOK == ctx = "active" /\ UNCHANGED ctx

\* A request that fails may still have taken effect, unless it was never sent.
RequestFails(applied) ==
    \/ "put" \in Faults /\ ctx = "active" /\ UNCHANGED ctx
    \/ Interrupted
    \/ ctx = "cancelled" /\ ~applied /\ UNCHANGED ctx

-----------------------------------------------------------------------------
(* Starting.                                                                *)

\* The bounds on the versions and on the backups that pruning failed to delete.
BelowBound ==
    /\ Version(out.index) < MaxVersion /\ Version(live.index) < MaxVersion
    /\ Len(backups) <= MaxBackups

\* run.Weekly is entered: at a tick of serve, on start, or by hand.
StartWeekly ==
    /\ pc = "idle" /\ "weekly" \in Commands /\ BelowBound
    /\ cmd' = "weekly" /\ report' = NoReport
    /\ pc' = IF FetchProdDB THEN "fetch_prod_db" ELSE "check_database"
    /\ UNCHANGED <<ctx, snap, res, db, out, live, archive, backups>>

\* `vps-sync export`: snapshot, export and validate, without an upload.
StartExport ==
    /\ pc = "idle" /\ "export" \in Commands /\ BelowBound
    /\ cmd' = "export" /\ pc' = "snapshot_db"
    /\ UNCHANGED <<ctx, snap, res, report, db, out, live, archive, backups>>

\* What SeedDB can make of a missing database: a copy of production, or the
\* newest db-backup/ object when no source is configured.
Seeds == IF ProdDBSrc THEN Datasets
         ELSE IF backups = <<>> THEN {} ELSE {backups[Len(backups)]}

\* serve starts.  A database that is missing is seeded first; without one to
\* seed from serve exits again, and the restart policy retries.
Boot ==
    /\ pc = "down"
    /\ \/ db = Absent /\ AutoBootstrap /\ db' \in Seeds
       \/ (db # Absent \/ ~AutoBootstrap) /\ UNCHANGED db
    /\ pc' = "idle" /\ ctx' = "active"
    /\ UNCHANGED <<cmd, snap, res, report, out, live, archive, backups>>
-----------------------------------------------------------------------------
(* run.Weekly up to the export.                                             *)

\* fetch.ProdDB replaces the mirror, by a rename, with what production holds.
FetchProd ==
    /\ pc = "fetch_prod_db"
    /\ \/ /\ ProdDBSrc /\ db' \in Datasets /\ Continue("check_database")
          /\ UNCHANGED <<ctx, out, live, archive, backups>>
       \/ /\ ~ProdDBSrc \/ "step" \in Faults
          /\ UNCHANGED <<ctx, db, out, live, archive, backups>>
          /\ Return(TRUE)

CheckDatabase ==
    /\ pc = "check_database"
    /\ UNCHANGED <<ctx, db, out, live, archive, backups>>
    /\ IF db \in {Absent, EmptyFile}
       THEN Return(TRUE)
       ELSE Continue(IF RunPCGWSync THEN "pcgw_sync" ELSE "snapshot_db")

\* pcgw.Sync upserts rows into the mirror until it is done or fails; either
\* way the run goes on with what the mirror then holds.
PCGWSync ==
    /\ pc = "pcgw_sync"
    /\ db' \in IF ctx = "active" THEN Datasets \cup {db} ELSE {db}
    /\ Continue("snapshot_db")
    /\ UNCHANGED <<ctx, out, live, archive, backups>>

\* mutant: cp instead of .backup
CopyOf(file) == file

\* sqlite3 opens a database that is missing by creating it, and backs up a
\* file of zero bytes as a database without tables.
SnapshotOf(file) == IF file \in Bundles THEN file ELSE NoRows

SnapshotDB ==
    /\ pc = "snapshot_db"
    /\ \/ /\ snap' = SnapshotOf(db)
          /\ db' = IF db = Absent THEN EmptyFile ELSE db
          /\ pc' = "export_bundle"
          /\ UNCHANGED <<cmd, ctx, res, report, out, live, archive, backups>>
       \/ StepFails

-----------------------------------------------------------------------------
(* publish.Export.                                                          *)

\* A count fell by more than a quarter: float64(old-new)/float64(old) > 0.25.
Shrunk(old, new) ==
    \E c \in CountNames :
        /\ Counts[old][c] > 0
        /\ 4 * (Counts[old][c] - Counts[new][c]) > Counts[old][c]

\* mutant: the two sides of the comparison are swapped
RefusedSwapped(old, new) == ~ForcePublish /\ old \in Bundles /\ Shrunk(new, old)

\* guardAgainstShrink compares with the manifest.meta.json the last export
\* left in OUT_DIR, and lets everything pass when it cannot read one.
Refused(old, new) == ~ForcePublish /\ old \in Bundles /\ Shrunk(old, new)

\* The queries of the export carry the run's context.
ExportBundle ==
    /\ pc = "export_bundle"
    /\ UNCHANGED <<ctx, db, out, live, archive, backups>>
    /\ \/ ctx = "active" /\ ~Refused(out.meta, snap) /\ Continue("write_gz")
       \/ (ctx = "cancelled" \/ Refused(out.meta, snap)) /\ Return(TRUE)
       \/ StepFails

\* os.WriteFile truncates the file and then fills it.
Write(f, content, next) ==
    /\ UNCHANGED <<ctx, db, live, archive, backups>>
    /\ \/ out' = [out EXCEPT ![f] = content] /\ Continue(next)
       \/ "write" \in Faults /\ out' = [out EXCEPT ![f] = Torn] /\ Return(TRUE)

WriteGz   == pc = "write_gz"   /\ Write("gz", snap, "write_meta")
WriteMeta == pc = "write_meta" /\ Write("meta", snap, "previous_index")

\* mutant: no fallback to the published index
NoLiveFallback == res' = 1 /\ UNCHANGED ctx

\* previousIndex: the local copy, else the published one, else version 0.
LivePrevious ==
    \/ ctx = "active" /\ res' = Version(live.index) + 1 /\ UNCHANGED ctx
    \/ /\ res' = 1
       /\ \/ ctx = "cancelled" /\ UNCHANGED ctx
          \/ "live_get" \in Faults /\ UNCHANGED ctx
          \/ Interrupted

\* mutant: the published index is preferred to the local one
PreviousIndexLiveFirst ==
    /\ pc = "previous_index" /\ pc' = "write_index"
    /\ LivePrevious
    /\ UNCHANGED <<cmd, snap, report, db, out, live, archive, backups>>

\* AdvanceBundleIndex counts on from it, or fails.
PreviousIndex ==
    /\ pc = "previous_index"
    /\ \/ /\ pc' = "write_index"
          /\ IF Parses(out.index)
             THEN res' = Version(out.index) + 1 /\ UNCHANGED ctx
             ELSE LivePrevious
          /\ UNCHANGED <<cmd, snap, report, db, out, live, archive, backups>>
       \/ StepFails

WriteIndex ==
    /\ pc = "write_index"
    /\ Write("index", [version |-> res, sha |-> snap], "validate_artifacts")

-----------------------------------------------------------------------------
(* validate.Dir.                                                            *)

\* mutant: a bundle is valid when it decompresses
ValidGzip(d) == d.gz # Torn

\* Each check is made only of files that are there; a checksum of a file that
\* is missing is not compared.
ValidIndex(d) == d.index # Absent =>
    Parses(d.index) /\ d.gz \in {Absent, d.index.sha}
ValidBundle(d) == d.gz # Absent => d.gz \in Bundles \ Malformed
ValidMeta(d) == d.meta # Absent => d.meta # Torn /\ d.gz \in {Absent, d.meta}
ValidDir(d) ==
    /\ ValidIndex(d) /\ ValidBundle(d) /\ ValidMeta(d)
    /\ d.index = Absent => d.gz = Absent

Validate ==
    /\ pc = "validate_artifacts"
    /\ UNCHANGED <<ctx, db, out, live, archive, backups>>
    /\ IF cmd = "weekly" /\ ValidDir(out)
       THEN Continue("upload_gz")
       ELSE Return(~ValidDir(out))

-----------------------------------------------------------------------------
(* r2.UploadLive: the bundle, its metadata, the index, then the archive.    *)

\* putFile reads file f of OUT_DIR and puts it in the place of the live object.
Put(f, next) ==
    /\ \/ RequestOK /\ live' = [live EXCEPT ![f] = out[f]] /\ Continue(next)
       \/ \E applied \in BOOLEAN :
             /\ RequestFails(applied) /\ Return(TRUE)
             /\ live' = IF applied THEN [live EXCEPT ![f] = out[f]] ELSE live
    /\ UNCHANGED <<db, out, archive, backups>>

\* The bundle and its metadata are skipped when there is no such file.
PutIfPresent(f, next) ==
    IF out[f] = Absent
    THEN Continue(next) /\ UNCHANGED <<ctx, db, out, live, archive, backups>>
    ELSE Put(f, next)

\* mutants: a failed upload is only a warning; the archive comes first
Warned(next) ==
    /\ \E applied \in BOOLEAN : RequestFails(applied)
    /\ Continue(next) /\ UNCHANGED <<db, out, live, archive, backups>>
UploadGzWarned ==
    /\ pc = "upload_gz"
    /\ PutIfPresent("gz", "upload_meta") \/ Warned("upload_meta")
UploadIndexWarned ==
    /\ pc = "upload_index"
    /\ Put("index", "archive_index") \/ Warned("archive_index")
UploadMetaThenArchive ==
    pc = "upload_meta" /\ PutIfPresent("meta", "archive_index")

UploadGz    == pc = "upload_gz"    /\ PutIfPresent("gz", "upload_meta")
UploadMeta  == pc = "upload_meta"  /\ PutIfPresent("meta", "upload_index")
UploadIndex == pc = "upload_index" /\ Put("index", "archive_index")

\* The snapshot's prefix is named by the version the export returned.  Two
\* snapshots of one version differ by a timestamp the model does not keep.
Snapshot(gz) == [version |-> res, index |-> out.index, gz |-> gz]

PutSnapshot(new, next) ==
    /\ \/ RequestOK /\ archive' = new /\ next
       \/ \E applied \in BOOLEAN :
             /\ RequestFails(applied) /\ Return(TRUE)
             /\ archive' = IF applied THEN new ELSE archive
    /\ UNCHANGED <<db, out, live, backups>>

\* UploadLive is done, and the publish with it unless a later step is on.
Uploaded == IF DBBackup THEN Continue("db_backup")
            ELSE IF R2Cleanup THEN Continue("r2_cleanup") ELSE Return(FALSE)

ArchiveIndex ==
    /\ pc = "archive_index"
    /\ PutSnapshot(archive \cup {Snapshot(Absent)}, Continue("archive_gz"))

ArchiveGz ==
    /\ pc = "archive_gz"
    /\ PutSnapshot((archive \ {Snapshot(Absent)}) \cup {Snapshot(out.gz)},
                   Uploaded)

-----------------------------------------------------------------------------
(* What follows the publish.                                                *)

\* PruneDBBackups keeps the newest keep objects.
Newest(s, keep) ==
    IF Len(s) <= keep THEN s ELSE SubSeq(s, Len(s) - keep + 1, Len(s))

\* UploadDBBackup and PruneDBBackups; a failure of either is only a warning.
DBBackupStep ==
    /\ pc = "db_backup"
    /\ LET added == Append(backups, snap)
       IN  \/ RequestOK /\ backups' = Newest(added, DBBackupKeep)
           \/ \E applied \in BOOLEAN :
                 /\ RequestFails(applied)
                 /\ backups' = IF applied THEN added ELSE backups
    /\ IF R2Cleanup THEN Continue("r2_cleanup") ELSE Return(FALSE)
    /\ UNCHANGED <<db, out, live, archive>>

\* mutant: sorted the other way round
LastKeys(gone) ==
    \A g \in gone, k \in archive \ gone : ~KeyLess(g.version, k.version)

\* The snapshots in gone are the first ones of archive in key order.
FirstKeys(gone) ==
    \A g \in gone, k \in archive \ gone : ~KeyLess(k.version, g.version)

Excess == IF Cardinality(archive) <= R2Keep THEN 0
          ELSE Cardinality(archive) - R2Keep

\* PruneArchives lists the snapshots and deletes the first ones in key order,
\* one by one; a deletion that fails ends it, and fails the run.
R2CleanupStep ==
    /\ pc = "r2_cleanup"
    /\ \E gone \in SUBSET archive :
          /\ FirstKeys(gone) /\ archive' = archive \ gone
          /\ \/ Cardinality(gone) = Excess /\ RequestOK /\ Return(FALSE)
             \/ /\ Cardinality(gone) <= Excess
                /\ RequestFails(gone # {}) /\ Return(TRUE)
    /\ UNCHANGED <<db, out, live, backups>>

-----------------------------------------------------------------------------
(* The environment.                                                         *)

\* The steps that send requests: a signal during one is an outcome of it.
Requesting == { "previous_index", "upload_gz", "upload_meta", "upload_index",
                "archive_index", "archive_gz", "db_backup", "r2_cleanup" }

\* SIGTERM cancels the context; serve returns at once when no run is on.
Sigterm ==
    /\ "sigterm" \in Faults /\ ctx = "active"
    /\ pc \notin Requesting \cup {"down"}
    /\ ctx' = "cancelled"
    /\ pc' = IF pc = "idle" THEN "down" ELSE pc
    /\ UNCHANGED <<cmd, snap, res, report, db, out, live, archive, backups>>

\* The file that os.WriteFile is filling at step pc.
BeingWritten == CASE pc = "write_gz" -> {"gz"} [] pc = "write_meta" -> {"meta"}
                  [] pc = "write_index" -> {"index"} [] OTHER -> {}

\* The process is killed, and may leave the file it was writing torn.
Crash ==
    /\ "crash" \in Faults /\ pc # "down"
    /\ pc' = "down" /\ ctx' = "cancelled"
    /\ cmd' = "none" /\ snap' = Absent /\ res' = 0 /\ report' = NoReport
    /\ \/ UNCHANGED out
       \/ \E f \in BeingWritten : out' = [out EXCEPT ![f] = Torn]
    /\ UNCHANGED <<db, live, archive, backups>>

\* The host is rebuilt or redeployed: OUT_DIR is empty, the database may be
\* gone with it.
LoseOutDir ==
    /\ "outdir_lost" \in Faults /\ pc = "down"
    /\ out' = NoFiles /\ db' \in {db, Absent}
    /\ UNCHANGED <<run, live, archive, backups>>

\* Between runs the operator puts another database in place (fetch-prod,
\* restore-db, pcgw-sync, a copy by hand).
ProvideDB ==
    /\ pc \in {"idle", "down"}
    /\ db' \in Datasets
    /\ UNCHANGED <<run, out, live, archive, backups>>

Weekly ==
    \/ StartWeekly \/ FetchProd \/ CheckDatabase \/ PCGWSync \/ SnapshotDB
    \/ ExportBundle \/ WriteGz \/ WriteMeta \/ PreviousIndex \/ WriteIndex
    \/ Validate \/ UploadGz \/ UploadMeta \/ UploadIndex
    \/ ArchiveIndex \/ ArchiveGz \/ DBBackupStep \/ R2CleanupStep

Environment == Boot \/ Sigterm \/ Crash \/ LoseOutDir \/ ProvideDB

Next == Weekly \/ StartExport \/ Environment

Spec == Init /\ [][Next]_vars

-----------------------------------------------------------------------------
(* Properties.                                                              *)

ProcessTypeOK ==
    /\ pc \in { "down", "idle", "fetch_prod_db", "check_database",
                "pcgw_sync", "snapshot_db", "export_bundle", "write_gz",
                "write_meta", "write_index", "validate_artifacts" }
              \cup Requesting
    /\ cmd \in {"none", "weekly", "export"}
    /\ ctx \in {"active", "cancelled"}
    /\ snap \in Bundles \cup {Absent}
    /\ res \in Nat
    /\ report \in [ status : {"none", "ok", "failed", "interrupted"},
                    version : Nat ]

DiskTypeOK ==
    /\ db \in Bundles \cup {Absent, EmptyFile}
    /\ out \in [ gz : Bundles \cup {Absent, Torn},
                 meta : Bundles \cup {Absent, Torn},
                 index : Indexes \cup {Absent, Torn} ]

BucketTypeOK ==
    /\ live \in [ gz : Bundles \cup {Absent}, meta : Bundles \cup {Absent},
                  index : Indexes \cup {Absent} ]
    /\ archive \subseteq [ version : Nat, gz : Bundles \cup {Absent},
                           index : Indexes ]
    /\ backups \in Seq(Bundles)

\* Every variable keeps its type.  In particular a torn file is never
\* published, and a snapshot is never taken of anything but a database.
TypeOK == ProcessTypeOK /\ DiskTypeOK /\ BucketTypeOK

\* The published objects only ever change the way the servers are promised:
\* a validated bundle is put in place, or index.json moves in one step to a
\* larger version that names the bundle in place (UploadLive, previousIndex).
LM == INSTANCE LiveManifest
        WITH Bundle <- Bundles \ Malformed, bundle <- live.gz,
             index <- live.index
Implements == LM!Spec

\* Whatever fails, the published index only ever changes to one that names the
\* published bundle, and that bundle passed validation (UploadLive, Dir).
CutoverNamesBundle ==
    [][ live.index' # live.index =>
            live.index'.sha = live.gz' /\ live.gz' \notin Malformed ]_vars

\* A publish that was reported as done is what the servers read until the
\* next run starts, at the reported version and with its own metadata
\* (execute, UploadLive).
ReportedPublishIsLive ==
    report.status = "ok" =>
        /\ live.index # Absent
        /\ live = [ gz |-> live.index.sha, meta |-> live.index.sha,
                    index |-> [version |-> report.version,
                               sha |-> live.index.sha] ]

\* Right after a publish was reported as done its own archive snapshot is in
\* the bucket, complete, and the bucket keeps at most R2_KEEP of them.
PublishIsArchived ==
    report.status = "ok" /\ R2Keep > 0 =>
        /\ [ version |-> report.version, index |-> live.index,
             gz |-> live.gz ] \in archive
        /\ R2Cleanup => Cardinality(archive) <= R2Keep

\* Every archive snapshot is of a version that was served: its index has the
\* version in its key and names its bundle.
ArchiveIsServed ==
    \A a \in archive :
        /\ a.index.version = a.version /\ a.version <= Version(live.index)
        /\ a.gz \in {Absent, a.index.sha}

\* The database backup that a rebuilt host would restore holds what the
\* servers read at the time it was made.
BackupIsPublished ==
    [][ backups' # backups /\ backups' # <<>> =>
            backups'[Len(backups')] = live.gz /\ live.gz = live.index.sha
      ]_vars

\* From one published version to the next no count falls by more than a
\* quarter (guardAgainstShrink).
PublishedNeverCollapses ==
    [][ live.index' # live.index /\ live.index # Absent =>
            ~Shrunk(live.index.sha, live.index'.sha) ]_vars

-----------------------------------------------------------------------------
(* What the documentation says of the program; runs of their own show what  *)
(* the code does instead.                                                   *)

\* README: index.json is "uploaded last (atomic cutover)".  The index and
\* the bundle that servers read belong together.
AtomicCutover == live.index # Absent => live.gz = live.index.sha

\* main.go: cancelling the context "lets an in-flight publish finish its
\* current step and unwind instead of being killed partway through an
\* upload".  A run that a shutdown ended left one publish in the bucket.
ShutdownNeverSplitsUpload ==
    report.status = "interrupted" /\ live.index # Absent =>
        live.gz = live.index.sha /\ live.meta = live.index.sha

\* README: the publisher re-seeds the counter "so manifest_version never
\* regresses".
VersionNeverRegresses ==
    [][Version(live.index') >= Version(live.index)]_vars

\* README: archive snapshots are "pruned automatically (R2_KEEP newest
\* kept)".  No version is pruned before an older one.
Archived == {a.version : a \in archive}
OldestPrunedFirst ==
    [][ \A gone \in Archived \ Archived', kept \in Archived \cap Archived' :
            gone < kept ]_vars

-----------------------------------------------------------------------------
(* The inductive invariants.                                                *)

Uploading == {"upload_gz", "upload_meta", "upload_index"}
Archiving == {"archive_index", "archive_gz", "db_backup", "r2_cleanup"}
Publishing == {"validate_artifacts"} \cup Uploading \cup Archiving

\* OUT_DIR holds this run's bundle, file by file as they are written.
OutDirOfRun ==
    /\ pc \in { "export_bundle", "write_gz", "write_meta", "previous_index",
               "write_index" } \cup Publishing => snap \in Bundles
    /\ pc \in {"write_meta", "previous_index", "write_index"} \cup Publishing
       => out.gz = snap
    /\ pc \in {"previous_index", "write_index"} \cup Publishing
       => out.meta = snap
    /\ pc \in {"write_index"} \cup Publishing => res > 0
    /\ pc \in Publishing => out.index = [version |-> res, sha |-> snap]
    /\ pc \in Uploading \cup Archiving
       => snap \notin Malformed /\ cmd = "weekly"

\* The bucket holds what this run has uploaded so far, and an export does not
\* disturb what the last weekly run reported.
BucketOfRun ==
    /\ live.gz \notin Malformed
    /\ live.index # Absent => live.gz # Absent
    /\ pc \in {"upload_meta", "upload_index"} \cup Archiving => live.gz = snap
    /\ pc \in {"upload_index"} \cup Archiving => live.meta = snap
    /\ pc \in Archiving => live.index = out.index
    /\ report.status = "ok" => cmd # "weekly"

\* What a run relies on, whatever fails: OUT_DIR holds its own bundle, the
\* bucket what it has uploaded, and both are left alone by everyone else.
RunInvariant == TypeOK /\ OutDirOfRun /\ BucketOfRun /\ ReportedPublishIsLive

\* The faults under which the version counter survives.  Either the published
\* index can be read whenever the local one cannot, or the local one is never
\* lost.  A signal counts with the first kind: it cancels the request.
CounterSafe ==
    \/ Faults \cap {"live_get", "sigterm"} = {}
    \/ Faults \cap {"crash", "write", "outdir_lost"} = {}

\* The counter in OUT_DIR, when it can be read, is not behind the published
\* one.
CounterNeverBehind ==
    Parses(out.index) => out.index.version >= Version(live.index)

\* The version a run is about to publish is a new one.
NewVersion ==
    pc \in {"write_index", "validate_artifacts"} \cup Uploading
    => res > Version(live.index)

\* A local index that is never lost and cannot be read was never written;
\* without signals the context stays active.
CounterSource ==
    /\ Faults \cap {"crash", "write", "outdir_lost"} = {} /\ ~Parses(out.index)
       => live.index = Absent
    /\ "sigterm" \notin Faults /\ pc # "down" => ctx = "active"

\* Every version a run writes is larger than the published one, as long as
\* the faults leave one of the two copies of the counter (previousIndex).
CounterInvariant == CounterNeverBehind /\ NewVersion /\ CounterSource

=============================================================================
