------------------------------ MODULE Database ------------------------------
(***************************************************************************)
(* The mirror database as a set of files: gsbs.db, the write-ahead log      *)
(* beside it and the temporary files of the operations that replace or copy *)
(* it: fetch.ProdDB, r2.RestoreDBBackup (with run.SeedDB's choice between   *)
(* them), pcgw.Sync and snapshot.Backup, one file operation at a time.      *)
(* The serve process and one that an operator starts share the directory.   *)
(*                                                                         *)
(* SQLite is modelled by what the code relies on.  Rows are committed to    *)
(* gsbs.db-wal; the last connection that closes moves them into gsbs.db and *)
(* removes the log; whoever opens gsbs.db replays the log that lies beside  *)
(* it, whichever file it was written for.  -shm shares the fate of -wal.    *)
(***************************************************************************)
EXTENDS Integers, FiniteSets

CONSTANTS
    Procs,      \* the processes
    Ops,        \* Ops[p] is the set of operations p may start
    Files,      \* identities of database files
    ProdDBSrc,  \* PROD_DB_SRC is set
    Absent,     \* no such file
    Faults      \* what may go wrong: a subset of FaultKinds

FaultKinds == { "killed",   \* a process dies between two file operations
                "power",    \* the host loses power, with what was not synced
                "error" }   \* a download, a check or a file operation fails

Operations == {"fetch", "seed", "restore", "sync", "snapshot"}

ASSUME DatabaseAssumption ==
    /\ Ops \in [Procs -> SUBSET Operations]
    /\ Faults \subseteq FaultKinds
    /\ Absent \notin Files

VARIABLES
    main,       \* gsbs.db
    wal,        \* gsbs.db-wal: the file it was written for
    pc,         \* pc[p] is the next step of p's operation
    tmp,        \* tmp[p] is the temporary file of p's operation
    conn        \* conn[p] is p's connection: the file, and if its log is ours

vars == <<main, wal, pc, tmp, conn>>

NoConn == [file |-> Absent, log |-> FALSE]

\* A file that is not in use by anybody.
Fresh(f) ==
    /\ main # Absent => f # main.file
    /\ f # wal /\ \A p \in Procs : f # conn[p].file

\* A database just renamed into place.  state is "whole", "partial", "torn" by
\* a power failure, "stripped" of rows whose log was deleted, some of which a
\* checkpoint may have moved, or, with the log of another file replayed into
\* it, "mixed".  cut says that a sync of it was cut off, and is history: no
\* step of the program depends on it.
Installed(f, from, state, synced) ==
    [ file |-> f, from |-> from, state |-> state, synced |-> synced,
      cut |-> FALSE ]

Init ==
    /\ \/ main = Absent
       \/ \E f \in Files : main = Installed(f, "prod", "whole", TRUE)
    /\ wal = Absent
    /\ pc = [p \in Procs |-> "idle"] /\ tmp = [p \in Procs |-> "none"]
    /\ conn = [p \in Procs |-> NoConn]

-----------------------------------------------------------------------------
(* Steps and ends of an operation.                                          *)

At(p, step) == pc[p] = step
Goto(p, step) == pc' = [pc EXCEPT ![p] = step]
Temp(p, content) == tmp' = [tmp EXCEPT ![p] = content]

\* The operation returns an error, and is done with its temporary file.
Discard(p) ==
    /\ Goto(p, "idle") /\ Temp(p, "none")
    /\ UNCHANGED <<main, wal, conn>>

Fail(p) == "error" \in Faults /\ Discard(p)

\* os.Rename of the temporary file over gsbs.db.
Install(p, from, synced) ==
    /\ \E f \in {g \in Files : Fresh(g)} :
          main' = Installed(f, from, tmp[p], synced)
    /\ Goto(p, "idle") /\ Temp(p, "none")
    /\ UNCHANGED <<wal, conn>>

\* An operation begins, with a temporary file or without.
Begin(p, op, step, content) ==
    /\ op \in Ops[p] /\ At(p, "idle") /\ Goto(p, step) /\ Temp(p, content)
    /\ UNCHANGED <<main, wal, conn>>

-----------------------------------------------------------------------------
(* fetch.ProdDB.                                                            *)

\* The temporary file is created first.
BeginFetch(p) == ProdDBSrc /\ Begin(p, "fetch", "rsync", "partial")

\* rsync fills it; production may write to its database meanwhile.
Rsync(p) ==
    /\ At(p, "rsync")
    /\ \/ /\ \E content \in {"whole", "partial"} : Temp(p, content)
          /\ Goto(p, "quick_check")
          /\ UNCHANGED <<main, wal, conn>>
       \/ Fail(p)

\* mutant: what rsync delivered is not checked
QuickCheckSkipped(p) ==
    /\ At(p, "quick_check") /\ Goto(p, "copy_bak")
    /\ UNCHANGED <<main, wal, tmp, conn>>

\* PRAGMA quick_check finds out a copy that is not whole, and removes it.
QuickCheck(p) ==
    /\ At(p, "quick_check")
    /\ IF tmp[p] = "whole"
       THEN Goto(p, "copy_bak") /\ UNCHANGED <<main, wal, tmp, conn>>
       ELSE Discard(p)

\* A database that is there is copied to .bak.<time>.
CopyBak(p) ==
    /\ At(p, "copy_bak")
    /\ \/ /\ Goto(p, IF main = Absent THEN "rename" ELSE "remove_wal")
          /\ UNCHANGED <<main, wal, tmp, conn>>
       \/ main # Absent /\ Fail(p)

\* mutant: the log of the old database stays
KeepWal(p) ==
    /\ At(p, "remove_wal") /\ Goto(p, "rename")
    /\ UNCHANGED <<main, wal, tmp, conn>>

\* What is left of a database whose log is deleted.
WithoutLog ==
    IF main # Absent /\ main.file = wal /\ main.state = "whole"
    THEN [main EXCEPT !.state = "stripped"] ELSE main

\* The log is unlinked, with the rows that are nowhere else, and also for
\* those who have it open.
RemoveWal(p) ==
    /\ At(p, "remove_wal") /\ Goto(p, "rename")
    /\ wal' = Absent /\ main' = WithoutLog
    /\ conn' = [q \in Procs |-> [conn[q] EXCEPT !.log = FALSE]]
    /\ UNCHANGED tmp

\* The download is renamed into place without a sync.
Rename(p) ==
    /\ At(p, "rename")
    /\ Install(p, "prod", FALSE) \/ Fail(p)

-----------------------------------------------------------------------------
(* r2.RestoreDBBackup.                                                      *)

\* `restore-db`, whether there is a database or not.
BeginRestore(p) == Begin(p, "restore", "download", "none")

\* run.SeedDB, which serve and bootstrap call when there is no database.
BeginSeed(p) ==
    /\ main = Absent
    /\ IF ProdDBSrc THEN Begin(p, "seed", "rsync", "partial")
       ELSE Begin(p, "seed", "download", "none")

\* The newest key is listed, the object opened and the temporary file made.
Download(p) ==
    /\ At(p, "download")
    /\ \/ /\ Temp(p, "partial") /\ Goto(p, "decompress")
          /\ UNCHANGED <<main, wal, conn>>
       \/ Fail(p)

\* io.Copy fills the file, a damaged download fails the gzip checksum.
Decompress(p) ==
    /\ At(p, "decompress")
    /\ \/ /\ Temp(p, "whole") /\ Goto(p, "restored")
          /\ UNCHANGED <<main, wal, conn>>
       \/ Fail(p)

\* mutant: tmp.Sync is left out
RestoredUnsynced(p) ==
    At(p, "restored") /\ (Install(p, "backup", FALSE) \/ Fail(p))

\* Sync, Close and Rename; the log beside the old database is left alone.
Restored(p) ==
    At(p, "restored") /\ (Install(p, "backup", TRUE) \/ Fail(p))

-----------------------------------------------------------------------------
(* SQLite, as pcgw.Sync and the sqlite3 of snapshot.Backup use it.          *)

Usable == main # Absent /\ main.state \notin {"partial", "torn"}

\* Opening replays the log that lies beside the file.
Opened ==
    [main EXCEPT !.state = IF wal \in {Absent, main.file} THEN @ ELSE "mixed"]

\* Nobody but p has the file open, with its log.
LastOne(p) == \A q \in Procs \ {p} : ~conn[q].log

\* store.NewSQLite opens the database, StartPCGWSyncRun writes its first row.
BeginSync(p) ==
    /\ "sync" \in Ops[p] /\ At(p, "idle") /\ Usable /\ Goto(p, "sync")
    /\ main' = Opened /\ wal' = main.file
    /\ conn' = [conn EXCEPT ![p] = [file |-> main.file, log |-> TRUE]]
    /\ UNCHANGED tmp

\* st.Close: the last connection to the file in place checkpoints its log.
Close(p) ==
    /\ At(p, "sync") /\ Goto(p, "idle")
    /\ conn' = [conn EXCEPT ![p] = NoConn]
    /\ IF conn[p].log /\ LastOne(p) /\ main.file = conn[p].file
       THEN wal' = Absent /\ main' = [main EXCEPT !.synced = TRUE]
       ELSE UNCHANGED <<main, wal>>
    /\ UNCHANGED tmp

\* mutant: the snapshot is a copy of gsbs.db alone
SnapshotCopied(p) ==
    /\ "snapshot" \in Ops[p] /\ At(p, "idle") /\ main # Absent
    /\ Temp(p, IF wal = Absent THEN main.state ELSE "stale")
    /\ Goto(p, "snapshot")
    /\ UNCHANGED <<main, wal, conn>>

\* .backup into a temporary file: sqlite3 opens the database, copies it with
\* the rows of its log, and closes it.  The copy, or its check, may fail.
Snapshot(p) ==
    /\ "snapshot" \in Ops[p] /\ At(p, "idle") /\ Usable
    /\ main' = [Opened EXCEPT !.synced = @ \/ LastOne(p)]
    /\ wal' = IF LastOne(p) THEN Absent ELSE wal
    /\ \/ Temp(p, main'.state) /\ Goto(p, "snapshot")
       \/ "error" \in Faults /\ UNCHANGED <<pc, tmp>>
    /\ UNCHANGED conn

\* The deferred cleanup, after an export that worked or did not.
Cleanup(p) ==
    /\ At(p, "snapshot") /\ Goto(p, "idle") /\ Temp(p, "none")
    /\ UNCHANGED <<main, wal, conn>>

-----------------------------------------------------------------------------
(* Crashes.                                                                 *)

\* The database once the connections of ps are gone without a close.
CutOff(ps) ==
    IF main # Absent
       /\ \E p \in ps : conn[p] = [file |-> main.file, log |-> TRUE]
    THEN [main EXCEPT !.cut = TRUE] ELSE main

\* A process is killed: its connection is gone, its log and its files stay.
Killed(p) ==
    /\ "killed" \in Faults /\ ~At(p, "idle") /\ Goto(p, "idle")
    /\ Temp(p, "none")
    /\ main' = CutOff({p}) /\ conn' = [conn EXCEPT ![p] = NoConn]
    /\ UNCHANGED wal

\* A file renamed into place before its blocks reached the disk may be torn.
PowerLoss ==
    /\ "power" \in Faults
    /\ \/ main' = CutOff(Procs)
       \/ /\ main # Absent /\ ~main.synced
          /\ main' = [CutOff(Procs) EXCEPT !.state = "torn"]
    /\ pc' = [p \in Procs |-> "idle"] /\ tmp' = [p \in Procs |-> "none"]
    /\ conn' = [p \in Procs |-> NoConn]
    /\ UNCHANGED wal

\* The host is rebuilt.
LoseDisk ==
    /\ \A p \in Procs : At(p, "idle")
    /\ main' = Absent /\ wal' = Absent
    /\ UNCHANGED <<pc, tmp, conn>>

Step(p) ==
    \/ BeginFetch(p) \/ Rsync(p) \/ QuickCheck(p) \/ CopyBak(p)
    \/ RemoveWal(p) \/ Rename(p)
    \/ BeginSeed(p) \/ BeginRestore(p) \/ Download(p) \/ Decompress(p)
    \/ Restored(p)
    \/ BeginSync(p) \/ Close(p) \/ Snapshot(p) \/ Cleanup(p)

Next == (\E p \in Procs : Step(p) \/ Killed(p)) \/ PowerLoss \/ LoseDisk

Spec == Init /\ [][Next]_vars

-----------------------------------------------------------------------------
(* Properties.                                                              *)

Databases ==
    [ file : Files, from : {"prod", "backup"}, synced : BOOLEAN,
      state : {"whole", "partial", "torn", "stripped", "mixed"},
      cut : BOOLEAN ]

ASSUME AbsentAssumption == Absent \notin Databases

Steps == { "idle", "rsync", "quick_check", "copy_bak", "remove_wal",
           "rename", "download", "decompress", "restored", "sync",
           "snapshot" }

\* The state has its type.
TypeOK ==
    /\ main \in Databases \cup {Absent}
    /\ wal \in Files \cup {Absent}
    /\ pc \in [Procs -> Steps]
    /\ tmp \in [Procs -> {"none", "partial", "whole", "stripped", "mixed"}]
    /\ conn \in [Procs -> [file : Files \cup {Absent}, log : BOOLEAN]]

\* restore.go: an interrupted restore "cannot leave a half-written database
\* where the pipeline expects a whole one"; nor can anything else, of however
\* many operations, whenever they are killed.  A power failure can only tear
\* what production sent, which ProdDB renames without a sync.
NeverHalfWritten ==
    main # Absent =>
        /\ main.state # "partial"
        /\ main.from = "backup" => main.state # "torn"

\* The database is what one operation put in place and the rows committed to
\* it since: the log of one file is never replayed into another (ProdDB's
\* removal of -wal, SeedDB only without a database).  What restore-db puts
\* over a database that is in use is exempt.  It takes that one process both
\* fetches and syncs: another that syncs may begin a new log right after the
\* old one is removed.
NeverMixed == main # Absent /\ main.state = "mixed" => main.from = "backup"

\* What is exported and backed up has all that was committed to the database,
\* log and file together (snapshot.Backup, not a copy of gsbs.db).  Rows are
\* missing only when a sync was cut off and ProdDB, before it had replaced the
\* database, removed the log that sync left behind (prod.go:54-58); rows of
\* another file are there only in what restore-db put over a log.  As for
\* NeverMixed one process fetches and syncs.
SnapshotIsWhole ==
    [][ \A p \in Procs : ~At(p, "snapshot") /\ At(p, "snapshot")' =>
            \/ tmp'[p] = "whole"
            \/ tmp'[p] = "stripped" /\ main.cut
            \/ tmp'[p] = "mixed" /\ main.from = "backup"
      ]_vars

-----------------------------------------------------------------------------
(* What does not hold; runs of their own show it.                           *)

\* Nothing in the repository promises it: the rows of a sync that was killed
\* survive until the next fetch has replaced the database.
SnapshotHasEveryRow ==
    \A p \in Procs : At(p, "snapshot") => tmp[p] # "stripped"

\* README: "`vps-sync restore-db` pulls the newest one back".  What is in
\* place after it, and whoever opens it, has the content of the backup.
RestoreIsBackup ==
    main # Absent /\ main.from = "backup" => main.state # "mixed"

=============================================================================
