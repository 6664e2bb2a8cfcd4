# vps-sync in TLA+

A verification project for vps-sync, the publisher of the GSBS manifest. Once a
week the program turns a SQLite mirror of PCGamingWiki into a compressed bundle
and puts it, with an `index.json` that names it, into an R2 bucket that GSBS
servers poll. The modules here model that pipeline and what surrounds it: the
scheduler, the files of the mirror, the pruning of the bucket, the caches
between the bucket and the servers, the log, the repair of the schema and the
configuration. TLC checks them on small instances, and TLAPS proves the main
results for every instance.

    tlasany Publisher.tla
    tlc -workers 2 -config publisher_crash.cfg MCPublisher.tla
    tlapm PublisherProofs.tla

## 1. The system

### Components, state, operations

| component | source | state | operations |
|---|---|---|---|
| pipeline | `internal/run` | the step reached, the snapshot, the result | `Weekly`, `Bootstrap`, `SeedDB` |
| export | `internal/publish` | `OUT_DIR`: `manifest.json.gz`, `manifest.meta.json`, `index.json`, `manifest.releases.json` | `Export`, `guardAgainstShrink`, `previousIndex` |
| validation | `internal/validate` | none | `Dir` |
| R2 client | `internal/r2` | the bucket: live objects, `archive/`, `db-backup/` | `UploadLive`, `UploadDBBackup`, `PruneDBBackups`, `PruneArchives`, `RestoreDBBackup` |
| scheduler | `internal/schedule` | the context, the next tick | `Serve`, `execute` |
| command line | `cmd/vps-sync` | the context | `serve`, `run`, `bootstrap`, `export`, `validate`, `fetch-prod`, `restore-db`, `pcgw-sync`, `repair-db` |
| snapshot, fetch, PCGW sync | `internal/snapshot`, `fetch`, `pcgw` | the mirror `gsbs.db` and the files around it | `Backup`, `ProdDB`, `Sync` |
| repair | `internal/repair` | the schema of the mirror | `DB` |
| logging | `internal/logx` | the log file, the pipe behind stderr | `Setup`, `Close` |
| configuration, notification | `internal/config`, `notify` | none | `Load`, `RunResult` |
| deployment | `scripts`, `deploy`, compose, the release workflow | | build, install, release |

### How they interact

`serve` (or a cron line, or an operator) calls `Weekly`, one run after the
other within a process. `Weekly` passes data on through the file system:
`snapshot` reads the mirror, `publish` writes `OUT_DIR`, `validate` and `r2`
read it again. Two copies of the version counter exist, in
`OUT_DIR/index.json` and in the published `index.json`; `previousIndex` reads
the first and falls back to the second. The mirror has its own copy in
`db-backup/`, from which a rebuilt host is seeded. One context runs through all
of it and is cancelled by SIGTERM or ^C. Between processes nothing is shared
but the disk and the bucket, and no lock protects either.

### What is hard

* Three published objects are replaced by three requests, each of which may
  fail, be cut off, or succeed although it is reported as failed.
* A crash leaves torn files, and `OUT_DIR` may hold files of two exports.
* A host is rebuilt with an empty `OUT_DIR` and perhaps no database.
* A shutdown lets file writes go on and makes every later request fail.
* The counter and the shrink guard read what an *export* left, not what a
  *publish* left, and `export` can be run on its own.
* Two processes can publish, prune, or use the database at once.
* Keys are ordered as text.
* A failed run is retried by nothing but the next tick; a container is stopped
  in the middle of a run and restarted with what it left.
* The database is three files, replaced by renames while others have it open.
* What is to be pruned is decided on a listing that is old when it is used.
* Servers, and the publisher itself, read the bucket through caches.
* The log passes through a pipe that is closed while it is being drained.

`PROJECT.json` lists each as a hazard, at its line, with the properties that
cover it.

### What makes each component correct

* Pipeline and R2: a reported publish is what is served; the index only moves
  to a larger version, naming a validated bundle that is in place.
* Export: the counter never falls behind the published one; no bundle that
  collapses passes a comparison with the published one.
* Archive: every publish is archived, the archive holds only what was served,
  and the oldest snapshots go first.
* Backups: the newest backup is of published data, so a seeded host does not
  publish something else.
* Scheduler: every failed run is followed by another; runs never overlap.
* Database lifecycle: no operation leaves a half-written or a mixed database,
  and a snapshot has every committed row.
* Retention: what a prune deletes is never among the newest.
* Servers: an index is never ahead of its bundle, and all servers catch up.
* Repair: what is stamped as migrated is migrated, and a repaired database
  opens. Logging: the outcome of a run is never lost, and the log never holds
  up the publisher. Configuration: the first source that has a value wins.

## 2. The modules

| module | models |
|---|---|
| `ArchiveKeys` | the text order of `archive/v<N>-...` keys |
| `Publisher` | the pipeline of one process, its disk, the bucket, and what goes wrong |
| `ShrinkGuard` | `Publisher` with the metadata the shrink guard compared a run's bundle with |
| `LiveManifest` | the abstract promise to the servers; `Publisher` is shown to implement it |
| `OverlappingRuns` | two processes over one disk and one bucket: two instances of `Publisher` |
| `Serve` | the tick loop under docker: shutdown, restart, seeding, outages, notification |
| `Database` | `gsbs.db`, its log and the temporary files, one file operation at a time |
| `Retention` | listing and deleting snapshots, request by request, beside uploads and restores |
| `EdgeCache` | servers and the publisher as readers of the bucket through caches |
| `LogTee` | the pipe behind stderr, its goroutine, and `Close` |
| `Repair` | `repair-db` and the migrations of the library before and after it |
| `Config` | where each setting comes from |
| `MC...` | the constants of the runs of each module |
| `PublisherProofs`, `DatabaseProofs`, `RetentionProofs`, `EdgeCacheProofs`, `ServeProofs`, `LogTeeProofs`, `RepairProofs`, `ConfigProofs` | the theorems |

The modules cut one program at different depths, and meet at the steps they
share. `Serve` takes a run of `Publisher` as three steps that an outage or a
shutdown can tell apart. `Publisher` takes a fetch, a restore, a snapshot and a
prune as one step each; `Database` and `Retention` take these apart. `EdgeCache`
keeps of the publisher what `LiveManifest` shows of it and adds the age of what
is read. Only `OverlappingRuns` and `Publisher`/`LiveManifest` are joined by
`INSTANCE`; the others share a step with `Publisher` but not their state.

### Publisher

`pc` is the step of `run.Weekly` a process is at, under the names the code
gives to `step(...)`; `export_bundle` and `upload_r2` are split into their
file writes (`write_gz`, `write_meta`, `previous_index`, `write_index`) and
their requests (`upload_gz`, `upload_meta`, `upload_index`, `archive_index`,
`archive_gz`), because a crash or a shutdown may fall between any two. `idle`
is a process between runs and `down` one that has exited. `ctx` is the context,
`snap` the snapshot, `res` is `res.ManifestVersion`, and `report` is what
`execute` reports of the last weekly run. `db` is the mirror, `out` the files
of `OUT_DIR`, `live`, `archive` and `backups` the bucket.

A **bundle** is the content of a mirror. The same value stands for the mirror,
its snapshot, the compressed bundle, the SHA-256 of it and the metadata with
its counts, since each of them is determined by the content and compared only
for equality or by its counts. `Counts` gives the counts the guard reads,
`Malformed` the bundles `validateBundle` refuses. An index is a version with
the checksum of a bundle. `Absent`, `Torn` and `EmptyFile` are the other
contents a file can have.

Every action is a step of the code with all its outcomes. `Return` is what
happens when `Weekly` or `export` returns: the deferred cleanup, the report,
the exit of a process whose context is done. `StepFails` is a local command
that fails. `Write` is `os.WriteFile`, which truncates before it fills.
`RequestOK` and `RequestFails` are the outcomes of a request: a request on a
cancelled context is not sent; one that fails, or is cut off by the signal,
may have taken effect. The steps that only warn (`PCGWSync`, `DBBackupStep`)
go on. The environment boots a process that is down (with `SeedDB`), sends
SIGTERM, kills the process, loses `OUT_DIR` with or without the database, and
puts another database in place between runs. `Faults` selects what may go
wrong in a run of TLC; the proofs hold for every selection.

`Init` is either a blank deployment (`History` = 0, with or without a
database) or one that has published the same bundle in versions 1..`History`,
as `UploadLive` and the pruning leave it.

**What is abstracted.**

* Time: timestamps are dropped. Two archive snapshots of one version and one
  content are one in the model. Export times play no part in any decision.
* The listing and deletion of one archive prefix are one step; a failure
  leaves any prefix of the sorted list deleted. A database backup and its
  pruning are one step with the three outcomes their errors allow.
* A failed request takes effect at once or never, not at a later time.
* The published index is read from the bucket, without the cache before it
  (`EdgeCache`), and a prune is one step (`Retention`).
* `manifest.releases.json`, the removal of the old delta files, logging and
  notifications, the temporary and `.bak` files around the database, the
  `gsbs_version == "pending"` exemption of `validateMeta`.
* `FORCE_PUBLISH`, an environment variable, is a constant like the rest of the
  configuration.

**The properties.**

| property | kind | says |
|---|---|---|
| `TypeOK` | invariant | types; a torn file is never published |
| `RunInvariant` | invariant | what a run relies on: its own files, its own uploads |
| `CounterInvariant` | invariant | each version written is larger than the published one |
| `ReportedPublishIsLive` | invariant | reported as done means served, at that version |
| `PublishIsArchived` | invariant | its archive snapshot is there, complete, and the limit is kept |
| `ArchiveIsServed` | invariant | a snapshot is of a version that was served |
| `CutoverNamesBundle` | action | the index changes only to one that names the validated bundle in place |
| `BackupIsPublished` | action | the newest backup is of what is served |
| `CollapseNeedsDrift` | action | a publish loses more than a quarter of some count only past a guard that is off, had nothing to compare with, or compared with an export that was not published |
| `Implements` | refinement | `live.gz` and `live.index` behave as `LiveManifest` |

`Implements` maps `LiveManifest`'s `bundle` to `live.gz`, its `index` to
`live.index` and its set `Bundle` to the bundles that pass validation. It is
deliberately weaker than the README's "atomic cutover": staging a bundle under
an old index is allowed, because the code does it.

`CollapseNeedsDrift` is about two states and a file between them: the guard
reads the metadata of the last *export*, servers see the last *publish*.
`ShrinkGuard` keeps in `against` what the guard had before it, from the
comparison to the upload of the index, however the run ends. That published
counts never collapse (`PublishedNeverCollapses`) does not hold
(`shrink_drift`), and in the run `shrink_guard` collapses do occur, with failed
uploads, crashes and exports by hand; the property says that there is no other
way.

### Serve

`pc` is where `schedule.Serve` is: `seeding`, `waiting` in its select, in a run
(`fetching`, `working`, `uploading`), `notifying`, or `down` when there is no
process. `timer` is the timer of the select, `ctx` the context, `wanted` and
`grace` are docker's restart policy (`unless-stopped`) and stop grace period.
`now` is the time modulo the cycle of the cron expression; `UntilNext` is
`sched.Next`. `setting` is the configuration, chosen initially. A step that the
context or a local disk ends at once is `Urgent`: time does not pass over it.
rsync does not carry the context, so it may outlast the grace period, and an
upload that nobody cancels may overrun a tick.

The world stops and starts the container, crashes it, rebuilds the host, takes
R2 or production away and gives it back, and runs `export` on a blank host.

`StepFails` is a step that fails although all it needs is there: the quick
check, the snapshot, an export that the shrink guard refuses or that cannot be
written, the validation, a request. It ends the run as failed, a seeding with
the process.

| property | kind | says |
|---|---|---|
| `TypeOK` | invariant | the timer never outruns the schedule; an interruption is never reported as an outcome |
| `WaitsForNextTick` | invariant | a waiting process wakes at the first tick after now, however long its last run took |
| `NeverKilledMidUpload` | invariant | when SIGKILL comes no upload is under way |
| `OneRunPerTick` | action | a tick starts one run |
| `FailureRetried` | liveness | a failed run is followed by another |
| `PublishesRecur` | liveness | once the trouble is over and no step fails any more, publishes happen again and again |

### Database

`main` is `gsbs.db`, with the operation that put it in place and what became of
it: `whole`, `partial` (half written), `torn` (its blocks were not on the disk
when the power failed), `stripped` (its log was deleted with rows in it) or
`mixed` (the log of another file was replayed into it). `cut` is history: a
sync of this file was killed. `wal` names the file the log was written for.
`tmp[p]` is the temporary file of `p`'s operation, `conn[p]` its connection.
Files have identities because a rename leaves those who have the old file open
with the old file.

SQLite itself is external, modelled by what the code relies on; that the
database is in WAL mode follows from `prod.go:54-55` and from the cleanup of
`snapshot.go`, which remove `-wal` and `-shm` files. The rows of a database are
not modelled: "whole" means that what was committed is there.

| property | says |
|---|---|
| `NeverHalfWritten` | what is in place is never half written; a power failure can only tear what was fetched, not what was restored |
| `NeverMixed` | the log of one file is never replayed into another, but by `restore-db` over a database in use |
| `SnapshotIsWhole` | what is exported and backed up has all that was committed, unless a fetch deleted the log of a sync that was killed |

`NeverMixed` and `SnapshotIsWhole` need that one process both fetches and
syncs, as serve does: `pcgw-sync` by hand while serve fetches can begin a new
log between the removal of the old one and the rename (`sync_beside_fetch`).
`ProdDB` deletes the log before the new database is in place (`RemoveWal`,
`prod.go:54-58`). The log then holds committed rows only if a sync was killed:
one that ends checkpoints them. If the fetch is killed in turn or its rename
fails, the old database stays without those rows (`lost_log`). And the rename
of a fetched database is not synced (`prod.go:58`): after a power failure it
may be torn, which `NeverHalfWritten` allows.

### Retention

Snapshots are numbered in the order of their keys. `doomed[p]` is what pruner
`p` has decided to delete and not deleted yet: `Beyond` is the arithmetic of
`PruneArchives` and `PruneDBBackups`, `Request` the keys of the next request
(one prefix for archives, all keys for backups). A deletion may fail as a whole,
or key by key in a result that is not read. Uploads are named before they
arrive, so that an older key may arrive late. A restore lists, then reads.

`PruneInvariant` says that whatever is doomed is older than `Keep` snapshots
that nobody has doomed. From it follow `NewestAreKept` (no overlap of prunes
and uploads deletes one of the newest) and `MissedMeansNewer` (a restore whose
object is gone finds a newer one). `ExcessIsPruned` is liveness: what a failed
deletion left is deleted by a later prune.

### EdgeCache

Bundles are numbered by content. `edge[n]` is what the cache holds under a name
and its age in ticks; it is filled by whoever asks, evicted at any time and
expires at its max-age. Servers read the index, and if its version is new to
them the bundle under the URL in it (which carries a hash), and throw a bundle
away whose checksum is not the advertised one. The publisher exports, uploads
in the order of `UploadLive`, is interrupted, and loses `OUT_DIR`; then
`previousIndex` asks the cache.

| property | kind | says |
|---|---|---|
| `IndexNeverAhead` | invariant | whoever follows an index, cached or fresh, gets a bundle at least as new |
| `ServersCatchUp` | liveness | every server ends up with a published bundle that is news to it |

`Previous` has the three outcomes of `previousIndex`: the local version, that of
the copy the cache answers with, however old, and 0 when the fetch fails. So a
version may be published twice, with two bundles, or fall back to 1
(`edge_stale_seed`). `IndexNeverAhead` holds all the same. `ServersCatchUp` is
about a published index whose version is larger than the server's
(`Offered`): a server takes no other. Both assume that the content of the mirror
moves forward.

### LogTee

`pc` is main: `running`, then `Close` piece by piece (write end, read end, log
file), then `os.Exit`. `drain` and `buf` are the goroutine of `teeStderr`,
`pipe` what is in the pipe, `pending` the line that waits for room in it. Own
lines go to the file and, mirrored, to the pipe; the goroutine writes them to
the file again, so a mirrored line is in the file twice. Lines printed with
Go's standard `log` package are not modelled.

`LibraryOnceInOrder`: a line of the library is logged at most once, and after
those written before it. `OwnLinesOutliveClose`: the publisher's own lines are
in the file when the process is gone, or the disk refused them. `CommandEnds`:
no full disk and no full pipe stops a command.

### Repair

The shape of a table or an index is the set of migrations it has been through.
`Opened` is the library's `NewSQLite`: it runs the pending migrations up to the
first that fails (`Stops`), and `After` is the database they leave.
`ReadVersion`, `ReadNames`, `Commit` and `Abort` are `repair.DB`, which reads
twice, outside the transaction it writes in, while the same image or another
opens and migrates the mirror. A repair keeps the library it began with
(`snapshot`). Two repairs at once are left out. `steps` is the history of the
schema, `seed` the version of the database the mirror was seeded from and
`careful` whether repair is used as documented (all user tables dropped, images
that move forward, a repair only when the hint asks for it); all three are
chosen initially. `covered` is history: a library not older than the mirror has
repaired it. So is `overtaken`: between the reads of a repair and its commit a
newer image migrated the mirror past the library that repairs. `Outcomes` tells
the errors of an open apart: only a missing table brings the hint
(`IsSchemaError`).

`RepairedOpens`: once covered, and if none was overtaken, every library opens
the mirror. `Reconciled`: used as documented, and as long as migrations alter
only what the seed was stripped of, each object is what the stamp says.
`SecondRepairIsNoop`: a second repair by the same library changes nothing.

The conditions are needed. An overtaken repair puts the stamp back, and
migrations that have run are run again (`repair_overtaken`); a careful operator
is safe from it, because no image gets past the migration that made the first
one fail. A repair by an older image than the one that last
opened the mirror leaves what is newer missing, and the next open may fail. And
the stamp of a repair passes over the pending migrations of every table that is
there, which includes a user table that a migration created in the mirror after
it was seeded: `AltersOnlyDropped` excludes those as well as the kept ones. Not
careful, an index on a kept and unaltered table can also make the repair fail,
and an older image leaves older shapes under the newer stamp; `RepairedOpens`
holds all the same.

### Config

`given`, `secrets` and `dotenv` are the environment, `ENV_FILE` and `.env`: in
the run all small files, and the environments with at most one setting;
`ReadFile` is `loadDotEnv` line by line, `Parsed` the readers of flags, numbers
and credentials. `Offer` lists what a setting is offered, by the environment
first and then by each line. `FirstSourceWins`: each setting has the value of
the first source that has one, and is read as its kind is, by itself.

## 3. The runs

| run | what is on | states | shows |
|---|---|---|---|
| `publisher_crash` | crashes, torn writes, failed steps and requests, a lost host; weekly and export | 619,558 | `TypeOK`, `RunInvariant`, `PublishIsArchived`, `ArchiveIsServed`, `CutoverNamesBundle`, `Implements` |
| `publisher_shutdown` | shutdowns, failed steps and requests, no live index; production refresh and PCGW sync | 697,117 | `CounterInvariant`, `ReportedPublishIsLive`, `BackupIsPublished` |
| `shrink_guard` | crashes, torn writes, failed steps and requests, a lost `OUT_DIR`; weekly and export | 698,967 | `CollapseNeedsDrift` |
| `serve` | crashes, stops, failed steps, outages, lost disks; six configurations; fairness | 131,408 | all of `Serve` |
| `database` | two processes; kills, power failures, errors | 983 | all of `Database` |
| `retention` | two pruners, four snapshots of two objects, `Keep` 2; fairness | 127,671 | all of `Retention` |
| `edge` | two servers, three versions, two contents; fairness | 429,533 | all of `EdgeCache` |
| `log` | mirrored or not, three lines, a pipe of one, a disk that fills up; fairness | 19,450 | all of `LogTee` |
| `repair` | four tables, two indexes, seven migrations, two histories | 1,069,188 | all of `Repair` |
| `config_sources` | three kinds, five values, files of two lines and one | 414,804 | all of `Config` |

**Bounds.** In `Publisher`, `MaxVersion` (a run starts only while both counters
are below it), `MaxBackups`, the set `Bundles`, the keep settings and
`History`. Two versions are enough for a publish over a publish and its
regression; three and four add a lost counter between two publishes. Four
bundles are the least that tell the guard's cases apart: no rows, a full
mirror, one that lost exactly the quarter allowed, and one that lost more than
that of the full mirror but less of the smaller one. No symmetry is declared:
the bundles differ in their counts.

In `Serve` a cycle of four units with ticks one and three units apart has a run
that overruns a short gap and one that does not; two units of grace let an
rsync end in it or not. The six configurations are all that seed
(`AUTO_BOOTSTRAP`) and fetch only from a source they name. In `Database` five
file identities are enough for the one in place, the one the log is for, two
open ones and one to rename; they are symmetric. `retention` has `Batch` off:
what one request for all keys can do, requests key by key can do too, and the
proofs cover both. Four keys and `Keep` 2 leave room for two late uploads and
two prunes at work on different listings. In `edge` three versions and an index
that is cached for two ticks let a version be repeated and the repeat be seen
beside the original, and two contents tell the two apart; the proof of
`IndexNeverAhead` covers all bounds. Three lines and a pipe of one line let a
line be in each place at once: pending, in the pipe, in the goroutine's buffer.
The migrations of `repair` create, alter and index, tables that are kept,
tables that are dropped and one (`users`) that a migration creates before or
after the seed. Two keys of the same kind would add nothing to
`config_sources`: keys only meet in the files.

**Fairness.** Weak fairness throughout. In `Serve`: a process that can take a
step does, docker starts what is to run and kills what outstays its grace, time
passes. `FailureRetried` assumes nothing of runs. `PublishesRecur` assumes that
from some point on there are no stops, crashes and outages and no step fails: a
mirror that the shrink guard refuses, or that does not validate, is refused at
every tick until somebody steps in, and nothing is published meanwhile. In
`Retention`: every run prunes and there is always another run. In `EdgeCache`:
time passes and each server goes on polling; nobody has to publish. In
`LogTee`: both goroutines are scheduled and the command comes to its end. The
Go scheduler, docker's restart policy and the poll loop of a server justify
these, and none is strong.

**Deadlock** is checked in `Publisher`, `Serve`, `Database` and `Retention`. A
command that has ended, an edge at its bounds, a repair with no newer image and
a configuration that is read do stop, so it is off in the other four.

### Where the documentation says otherwise

Two runs check what a comment or the README says and find that the code does
something else (`findings` in `PROJECT.json` quotes the lines):

| run | claim | what happens |
|---|---|---|
| `archive_order` | README.md:195: the newest snapshots are kept | keys sort as text: v10 before v8, so the newest is pruned |
| `overlapping_runs` | r2.go:66: no new index points at a bundle that is not uploaded | a second process replaces the bundle in between |

The other configurations of this directory show the same kind of thing, each
with the one property it names; run them in the same way.

| configuration | module | property | claim | what happens |
|---|---|---|---|---|
| `atomic_cutover` | `MCPublisher` | `AtomicCutover` | README.md:192 "atomic cutover" | the bundle is replaced before the index that names it |
| `shutdown_mid_upload` | `MCPublisher` | `ShutdownNeverSplitsUpload` | main.go:55 an in-flight publish finishes its current step | the requests of the step carry the cancelled context |
| `version_regress_fetch` | `MCPublisher` | `VersionNeverRegresses` | README.md:199 the version never regresses | it does when `OUT_DIR` is lost and the published index cannot be read |
| `version_regress_shutdown` | `MCPublisher` | `VersionNeverRegresses` | schedule.go:70 "the next start simply resumes" | a shutdown during that read leaves version 1 on disk |
| `shrink_drift` | `MCPublisher` | `PublishedNeverCollapses` | README.md:254 compared with the previous publish | it is compared with the previous export |
| `serve_prod_gone` | `MCServe` | `RecoversFromBackup` | run.go:212 the R2 path makes a rebuilt host recoverable | with `PROD_DB_SRC` set and production gone, the backup is never tried |
| `serve_empty_db` | `MCServe` | `PublishesRecur` | README.md:255 serve seeds when it finds no database | `export` on a blank host leaves an empty file, and serve never seeds or publishes |
| `serve_after_cancel` | `MCServe` | `NoRunAfterCancel` | schedule.go:33 runs until the context is cancelled | a run begins after the cancellation |
| `restore_over_log` | `MCDatabase` | `RestoreIsBackup` | README.md:255 `restore-db` pulls the newest backup back | the old log is replayed into the restored file |
| `sync_beside_fetch` | `MCDatabase` | `NeverMixed` | prod.go:54 the log of the old database is removed first | a `pcgw-sync` by hand begins another before the rename |
| `lost_log` | `MCDatabase` | `SnapshotHasEveryRow` | none is made; a fetch that fails should leave the old database as it was | the log of a killed sync is deleted, the fetch is cut off, and the old database is exported without those rows |
| `edge_stale_seed` | `MCEdgeCache` | `SeedIsPublished` | publish.go:139-144 the version is counted on from the live published index | a rebuild within 120 s takes it from an outdated copy and repeats a version |
| `log_close` | `MCLogTee` | `LibraryOutputCaptured` | cron.gsbs-vps-sync:14 library output is captured | `Close` discards what is not drained |
| `log_terminal` | `MCLogTee` | `TerminalHasAll` | README.md:214 `docker compose logs` has everything | the last mirrored lines go the same way |
| `repair_kept_tables` | `MCRepair` | `AlwaysReconciled` | repair.go:15 the schema is reconciled | migrations that alter kept tables are stamped and not run |
| `repair_overtaken` | `MCRepair` | `EveryRepairOpens` | repair.go:26 covered migrations do not run again | a newer image migrates the mirror during a repair, which puts the stamp back |

The passing runs are their counterparts. `publisher_crash` and
`publisher_shutdown` have every fault but those that take both copies of the
counter. `shrink_guard` is that of `shrink_drift`: it has the same faults and
more, and says when the guard fails to protect what is published. `serve` is
that of the three `serve_` configurations, `database` that of `lost_log`,
`repair` that of `repair_overtaken`, and so on.

## 4. The proofs

### Publisher

`PublisherProofs` proves, for all constants that satisfy the three assumptions
(`ConstantsAssumption`, `SentinelsAssumption`, `MaxVersionAssumption`: types,
and that the sentinels are neither bundles nor indexes):

| theorem | statement |
|---|---|
| `RunCorrect` | `Spec => []RunInvariant` |
| `TypeCorrect` | `Spec => []TypeOK` |
| `ReportCorrect` | `Spec => []ReportedPublishIsLive` |
| `CutoverCorrect` | `Spec => CutoverNamesBundle` |
| `BackupCorrect` | `Spec => BackupIsPublished` |
| `CounterCorrect` | `CounterSafe => (Spec => []CounterInvariant)` |
| `ArchiveServed` | `CounterSafe => (Spec => []ArchiveIsServed)` |
| `ArchiveComplete` | `CounterSafe /\ (R2Cleanup => KeysInOrder) => (Spec => []PublishIsArchived)` |
| `CollapseCorrect` | `GSpec => CollapseNeedsDrift` |
| `Refinement` | `CounterSafe => (Spec => Implements)` |

**The argument.** `ReportedPublishIsLive` is not inductive: that the index
upload leaves the bucket consistent depends on what the requests before it
uploaded, and these depend on what the export wrote and the validation accepted
(`ArchivingLive`). `OutDirOfRun` says, step by step, which files of `OUT_DIR`
already hold this run's snapshot; `BucketOfRun` which objects do, and that only
a validated bundle is ever live. With `TypeOK` they make `RunInvariant`, which
is inductive for every set of faults (`InitRun`, `RunStep`). `CutoverCorrect`
needs it only at `UploadIndex`, the one action that changes the index
(`LiveIndexStep`); `BackupCorrect` only at `DBBackupStep` (`BackupsStep`), with
`NewestLast`: pruning a sequence keeps its last element.

The counter has two copies, and a regression needs both to be gone at once.
`CounterSafe` says that the faults cannot take both: either the published index
can always be read (no `live_get`, no signal to cut the request off), or the
local one is never lost (no `crash`, `write`, `outdir_lost`). Under either
half `CounterInvariant` is inductive relative to `RunInvariant`: a readable
local counter is not behind the published one, the version about to be
published is larger, and (`CounterSource`) a local index that cannot be read
means that nothing was published or that the published one can be read. The two
`version_regress` configurations show that the condition is needed.
`ArchiveIsServed` is inductive relative to both: a snapshot is only added while
the published index is that of the run (`ArchiveStep`), and later versions are
larger. `Refinement` combines both: `LiveGzStep` and `LiveIndexStep` map a
change of the bundle to `Stage` and one of the index to `Cutover`.

That a publish is in the archive when it is reported needs, besides the counter,
that pruning by name spares it. `KeysInOrder` says that the versions sort as
text as they do as numbers; it is only asked for where old snapshots are pruned
(`R2Cleanup`), and by `SameDigitsInOrder` it holds while all versions have the
same number of digits (up to 9, or from 10 to 99). `archive_order` shows that it
is needed. `ArchiveInvariant` is inductive relative to the others: every other
snapshot is of a smaller version (`ArchiveOfRun`), so that `PruneKeepsNewest`
applies to this run's.

`CollapseCorrect` has no condition and no bound on what fails. `GuardInvariant`
says that from the guard to the upload of the index (`Guarded`) the guard would
not refuse the run's snapshot against `against`; a run enters those steps only
through `ExportBundle` and keeps its snapshot in them (`GuardPassed`). At the
upload of the index `RunInvariant` makes that snapshot the bundle the new index
names, so that, had the guard seen the published metadata, nothing collapsed.

### Database

`DatabaseProofs` proves, for any number of processes, any operations they may
start and every set of faults (`DatabaseAssumption`, `AbsentAssumption`):

| theorem | statement |
|---|---|
| `FileCorrect` | `Spec => []FileInvariant` |
| `TypeCorrect` | `Spec => []TypeOK` |
| `NeverHalf` | `Spec => []NeverHalfWritten` |
| `SnapshotWhole` | `OneWriter => (Spec => SnapshotIsWhole)` |
| `NeverMixedUp` | `OneWriter => (Spec => []NeverMixed)` |

`FileInvariant` says what each step of an operation may rely on: past its check
a download is whole, what came from a backup was synced before its rename, and
a connection has a log only while its sync runs. `LogInvariant` says where a
log may lie: beside no database, never; beside one from production, only its
own; and beside none at all from the moment `ProdDB` has removed it to its
rename, which holds because under `OneWriter` the process that could write one
is the process that is fetching (`LogStep`, at `BeginSync`). That it does not
hold otherwise is `sync_beside_fetch`. It also says whose the log of the
database in place is: that of a sync that goes on (`SyncGoesOn`), or of one that
was cut off. Under `OneWriter` the first cannot be there when `ProdDB` removes
the log, so a database is `stripped` only after a cut, which is what
`SnapshotWhole` needs.

### Retention

`RetentionProofs` proves, for any number of pruners, snapshots and parts, both
forms of request and every `Keep` (`RetentionAssumption`):

| theorem | statement |
|---|---|
| `PruneSafe` | `Spec => []PruneInvariant` |
| `NewestKept` | `Spec => NewestAreKept` |
| `MissedNewer` | `Spec => []MissedMeansNewer` |

A pruner's own listing says nothing about what others have doomed or deleted
since, so "the newest `Keep` of the listing are still there" is not inductive.
`DoomedAreOld` says instead that everything doomed, by anyone, is older than
`Keep` snapshots that are present and doomed by no one. A new listing preserves
it because the newest `Keep` it spares are nobody's prey (`NewestAreSafe`: a
doomed one among them would be outlived by `Keep` others of them, which are
only `Keep`), a deletion because it only removes what is doomed.

### EdgeCache

`EdgeCacheProofs` proves, for any servers, cache times and bounds
(`EdgeAssumption`):

| theorem | statement |
|---|---|
| `TypeCorrect` | `Spec => []TypeOK` |
| `NeverAhead` | `Spec => []IndexNeverAhead` |

`NotAheadInvariant` says of every place an index or a bundle may be (the bucket,
the cache, a server's hands) that it is not ahead of the bucket's bundle, and
of every cached bundle that it is no older than its name. It does not speak of
versions, and holds whatever version an export is seeded with.

### Serve

`ServeProofs` proves, for every schedule, every grace period, every set of
configurations and every set of faults (`ServeAssumption`):

| theorem | statement |
|---|---|
| `ServeCorrect` | `Spec => []ServeInvariant` |
| `TypeCorrect` | `Spec => []TypeOK` |
| `WaitsCorrect` | `Spec => []WaitsForNextTick` |
| `NeverKilled` | `Spec => []NeverKilledMidUpload` |
| `OneRun` | `Spec => OneRunPerTick` |

`UntilNextIsNext` is the lemma about `sched.Next`: the smallest distance to a
tick is at least one, at most a cycle, and nothing lies in between. The
invariant adds that a container meant to stop has had its SIGTERM, so that an
upload, which carries the context, has ended before the grace period does; and
that a timer that has started a run was set again to a later time
(`NextIsLater`), which is why a run that is over within the same unit of time
is not repeated.

### LogTee

`LogTeeProofs` proves, for any lines, a pipe of any size and a disk that fills
up at any time (`LogAssumption`):

| theorem | statement |
|---|---|
| `TeeCorrect` | `Spec => []TeeInvariant` |
| `TypeCorrect` | `Spec => []TypeOK` |
| `LibraryInOrder` | `Spec => []LibraryOnceInOrder` |
| `OwnLinesSurvive` | `Spec => []OwnLinesOutliveClose` |

The order of the file is not inductive. `Stream` says it of the whole way of a
line: what is in the file comes before what is in the goroutine's buffer, that
before what is in the pipe, and that before what waits for room in it. The
lemmas on sequences (`JoinInOrder`, `Cut`, `PartsInOrder`) say that cutting a
stream and joining the parts in that order keeps it. `OwnLinesLogged` holds from
the write on and does not depend on what becomes of the pipe.

### Repair

`RepairProofs` proves, for every history of a schema that creates no index
before its table (`RepairAssumption`), whatever is dropped, deployed, opened and
repaired, in any order:

| theorem | statement |
|---|---|
| `RepairCorrect` | `Spec => []RepairInvariant` |
| `TypeCorrect` | `Spec => []TypeOK` |
| `OpensAfterRepair` | `Spec => []RepairedOpens` |
| `RepairReconciles` | `Spec => []Reconciled` |
| `SecondRepair` | `Spec => SecondRepairIsNoop` |

`OpenRuns` says of an open, without recursion, that each migration before the
one it stops at ran on what the earlier ones left. `CoveredHas` is what makes a
mirror open: whatever is missing is created by a migration behind the stamp, so
that every pending migration finds what it alters and nothing it creates
(`CoveredOpens`). `ReadIsOlder` relates the mirror to what a repair has read of
it: opens in between, by whatever image, only add to it; `WithinStamp` and
`CoveredHas` follow it until a repair is overtaken. `RepairedHas` gives
`SecondRepair`: nothing ever drops what was recreated. That a careful repair is
not overtaken is `Stuck`: the mirror is at a migration that failed, where it
fails for every image (`OpenStops`, `StuckStays`). `CarefulShape` follows the
mirror of a careful operator from the seed to the repair; that a library cannot
touch a dropped table, because the first migration that alters it stops the
open, is `DroppedUntouched`.

### Config

`ConfigProofs` proves, for any settings, environments and files of any length
(`ConfigAssumption`):

| theorem | statement |
|---|---|
| `LoadCorrect` | `Spec => []ConfigInvariant` |
| `TypeCorrect` | `Spec => []TypeOK` |
| `SourcesInOrder` | `Spec => []FirstSourceWins` |

At every line the environment has, for each setting, the first offer so far that
is not empty (`HasFirstOffer`); `NextOffer` adds a line.

### Only model-checked

Every safety invariant and action property of the passing runs is proved. What
stays with TLC are the liveness properties (`FailureRetried`, `PublishesRecur`,
`ExcessIsPruned`, `ServersCatchUp`, `CommandEnds`): liveness under fairness and
`ENABLED` are out of the provers' reach. So is induction over data with an
operator as its hypothesis, which is why `Decimal` is only proved to be what it
should below 100 (`DecimalBelow100`), and `KeysInOrder` for versions of one or
two digits. For each condition of a theorem (`CounterSafe`, `KeysInOrder`,
`OneWriter`, `AltersOnlyDropped`, `overtaken`, `cut`) a configuration of
section 3 shows what happens without it.

## 5. Not modelled

| part | reason |
|---|---|
| GSBS library and server | not in this repository; `EdgeCache` and `LiveManifest` have what this code says of them |
| the crawl of `pcgw.Sync` | in the GSBS library; here the mirror changes its content, also half way |
| `releases.go` | a local file nothing else reads |
| release workflow, `next-version.sh`, install and update scripts | they build and install the program and are not part of it; the order of push, test and tag is a listed hazard |
| `config/summary.go`, wording of logs and messages | no state |
| the panic of a negative `R2_KEEP` or `DB_BACKUP_KEEP` | `Keep` is a natural number in the models; the panic is evident from `r2.go:274` |
| durable storage of R2 | a put that succeeded is there |
