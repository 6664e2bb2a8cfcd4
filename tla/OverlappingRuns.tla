--------------------------- MODULE OverlappingRuns ---------------------------
(***************************************************************************)
(* The serve container and a second vps-sync process beside it, as          *)
(* `docker compose run --rm sync run` starts one.  serve never overlaps a   *)
(* run of its own with another, but nothing keeps the two processes apart:  *)
(* they share the mirror database, OUT_DIR and the bucket, and no lock.     *)
(***************************************************************************)
EXTENDS Integers, Sequences, FiniteSets

CONSTANTS
    Bundles, NoRows, CountNames, Counts, Malformed, Absent, Torn, EmptyFile,
    FetchProdDB, ProdDBSrc, AutoBootstrap, RunPCGWSync, ForcePublish,
    DBBackup, DBBackupKeep, R2Cleanup, R2Keep,
    Commands, Faults, History, MaxVersion, MaxBackups

VARIABLES
    pc, cmd, ctx, snap, res, report,                \* the serve process
    pc2, cmd2, ctx2, snap2, res2, report2,          \* the other one
    db, out, live, archive, backups                 \* what they share

run  == <<pc, cmd, ctx, snap, res, report>>
run2 == <<pc2, cmd2, ctx2, snap2, res2, report2>>

Serve == INSTANCE Publisher
Other == INSTANCE Publisher WITH
            pc <- pc2, cmd <- cmd2, ctx <- ctx2, snap <- snap2, res <- res2,
            report <- report2

vars == <<run, run2, db, out, live, archive, backups>>

\* Both processes are idle, over the same disk and bucket.
Init == Serve!Init /\ Other!Init

\* One process takes a step of its run.
ServeStep == Serve!Next /\ UNCHANGED run2
OtherStep == Other!Next /\ UNCHANGED run

Next == ServeStep \/ OtherStep

Spec == Init /\ [][Next]_vars

-----------------------------------------------------------------------------

\* "The bundle and metadata go first; index.json goes last so a reader can
\* never see a new index that points at a bundle that has not finished
\* uploading" (r2.go, UploadLive): when the published index changes, the
\* bundle it names is in place.
IndexNamesUploadedBundle ==
    [][live.index' # live.index => live.gz' = live.index'.sha]_vars

=============================================================================
