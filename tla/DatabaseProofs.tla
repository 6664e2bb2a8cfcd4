---------------------------- MODULE DatabaseProofs ----------------------------
(***************************************************************************)
(* Theorems about Database, for any processes, any operations they may      *)
(* start and any faults.  That a process is killed between two steps is one *)
(* of the steps, so each theorem covers the crashes as well.                *)
(***************************************************************************)
EXTENDS Database, TLAPS

-----------------------------------------------------------------------------
(* The inductive invariants.                                                *)

\* A download that passed its check, and a restore that was decompressed.
Checked == {"copy_bak", "remove_wal", "rename", "restored"}

\* What is renamed over gsbs.db is whole; a restored database was synced
\* first; only a connection of a running sync has a log.
FileInvariant ==
    /\ TypeOK
    /\ \A p \in Procs :
          /\ pc[p] \in Checked => tmp[p] = "whole"
          /\ conn[p].log => pc[p] = "sync"
          /\ pc[p] = "sync" => main # Absent
    /\ main # Absent =>
          /\ main.state # "partial"
          /\ main.from = "backup" => main.synced /\ main.state # "torn"

\* The processes that can put a download of production in place.
Fetchers == {p \in Procs : Ops[p] \cap {"fetch", "seed"} # {}}

\* Only one process fetches and syncs, as in a deployment where serve is the
\* only one that does either.
OneWriter == \A p \in Fetchers, q \in Procs : "sync" \in Ops[q] => p = q

Fetching == {"rsync", "quick_check", "copy_bak", "remove_wal", "rename"}

\* A sync of the database in place that has not ended.
SyncGoesOn ==
    \E p \in Procs :
        pc[p] = "sync" /\ conn[p] = [file |-> main.file, log |-> TRUE]

\* A log lies only beside the database it was written for, once production's
\* copy is in place and from the moment ProdDB is ready to put it there.  The
\* log of the database in place belongs to a sync that goes on, or to one that
\* was cut off; only the second can be there when ProdDB removes it.
LogInvariant ==
    /\ \A p \in Procs :
          /\ pc[p] \in Fetching => p \in Fetchers
          /\ pc[p] = "sync" => "sync" \in Ops[p]
          /\ pc[p] = "rename" => wal = Absent
    /\ main = Absent => wal = Absent
    /\ main # Absent /\ main.from = "prod" =>
          wal \in {Absent, main.file} /\ main.state # "mixed"
    /\ main # Absent =>
          /\ main.state = "stripped" => main.cut
          /\ Fetchers # {} /\ wal = main.file /\ ~main.cut => SyncGoesOn

-----------------------------------------------------------------------------
(* FileInvariant.                                                           *)

\* Nobody has the database open when the system starts.
LEMMA InitFile == Init => FileInvariant
<1> SUFFICES ASSUME Init PROVE FileInvariant
  OBVIOUS
<1> USE DatabaseAssumption DEF Init
<1>1. \/ main = Absent
      \/ \E f \in Files : main = Installed(f, "prod", "whole", TRUE)
  OBVIOUS
<1>2. \A f \in Files : Installed(f, "prod", "whole", TRUE) \in Databases
  BY DEF Installed, Databases
<1>3. main # Absent => main.state # "partial" /\ main.from # "backup"
  BY <1>1 DEF Installed
<1>4. TypeOK
  BY <1>1, <1>2 DEF TypeOK, Steps, NoConn
<1>5. \A p \in Procs : pc[p] = "idle" /\ conn[p] = NoConn
  OBVIOUS
<1> QED BY <1>3, <1>4, <1>5 DEF FileInvariant, Checked, NoConn

\* What is renamed into place is whole, has a fresh identity, and is synced
\* when it comes from a backup (os.Rename in ProdDB and RestoreDBBackup).
LEMMA InstallStep ==
    ASSUME FileInvariant, NEW p \in Procs, pc[p] \in Checked,
           NEW from \in {"prod", "backup"}, NEW synced \in BOOLEAN,
           from = "backup" => synced, Install(p, from, synced)
    PROVE  FileInvariant'
<1> USE DEF FileInvariant, TypeOK
<1>1. PICK f \in Files : main' = Installed(f, from, tmp[p], synced)
  BY DEF Install
<1>2. /\ main' = Installed(f, from, "whole", synced)
      /\ main' \in Databases /\ main' # Absent
  <2>1. main' = Installed(f, from, "whole", synced)
    BY <1>1 DEF Checked
  <2>2. FALSE \in BOOLEAN
    OBVIOUS
  <2>3. Installed(f, from, "whole", synced) \in Databases
    BY <2>2 DEF Installed, Databases
  <2> HIDE DEF FileInvariant, TypeOK
  <2> QED BY <2>1, <2>3, AbsentAssumption
<1>3. /\ main'.state = "whole"
      /\ main'.from = "backup" => main'.synced
  BY <1>2 DEF Installed
<1>4. /\ pc' = [pc EXCEPT ![p] = "idle"] /\ tmp' = [tmp EXCEPT ![p] = "none"]
      /\ UNCHANGED <<wal, conn>>
  BY DEF Install, Goto, Temp
<1> QED BY <1>2, <1>3, <1>4 DEF Steps, Checked

\* No step of an operation and no crash breaks FileInvariant.
LEMMA FileStep == FileInvariant /\ [Next]_vars => FileInvariant'
<1> SUFFICES ASSUME FileInvariant, [Next]_vars PROVE FileInvariant'
  OBVIOUS
<1> USE DatabaseAssumption, AbsentAssumption
<1> USE DEF FileInvariant, TypeOK, Checked, Steps, At, Goto, Temp
<1>1. ASSUME NEW p \in Procs, Step(p) PROVE FileInvariant'
  <2>1. CASE BeginFetch(p)
    BY <2>1 DEF BeginFetch, Begin
  <2>2. CASE Rsync(p)
    <3>1. PICK content \in {"whole", "partial", "none"} :
            /\ tmp' = [tmp EXCEPT ![p] = content]
            /\ pc' \in {[pc EXCEPT ![p] = s] : s \in {"quick_check", "idle"}}
            /\ UNCHANGED <<main, wal, conn>>
      BY <2>2 DEF Rsync, Fail, Discard
    <3>2. pc[p] = "rsync"
      BY <2>2 DEF Rsync
    <3> QED BY <3>1, <3>2
  <2>3. CASE QuickCheck(p)
    BY <2>3 DEF QuickCheck, Discard
  <2>4. CASE CopyBak(p)
    BY <2>4 DEF CopyBak, Fail, Discard
  <2>5. CASE RemoveWal(p)
    <3>1. /\ conn' \in [Procs -> [file : Files \cup {Absent}, log : BOOLEAN]]
          /\ \A q \in Procs : ~conn'[q].log
      BY <2>5 DEF RemoveWal
    <3>2. main # Absent => main \in Databases
      OBVIOUS
    <3>3. /\ main' \in Databases \cup {Absent}
          /\ main = Absent <=> main' = Absent
          /\ main' # Absent =>
                /\ main'.from = main.from /\ main'.synced = main.synced
                /\ main'.state \in {main.state, "stripped"}
      BY <2>5, <3>2 DEF RemoveWal, WithoutLog, Databases
    <3> QED BY <2>5, <3>1, <3>3 DEF RemoveWal
  <2>6. CASE Rename(p)
    <3>1. CASE Install(p, "prod", FALSE)
      BY <2>6, <3>1, InstallStep DEF Rename
    <3>2. CASE Fail(p)
      BY <2>6, <3>2 DEF Rename, Fail, Discard
    <3> QED BY <2>6, <3>1, <3>2 DEF Rename
  <2>7. CASE BeginSeed(p)
    <3>1. Begin(p, "seed", "rsync", "partial")
          \/ Begin(p, "seed", "download", "none")
      BY <2>7 DEF BeginSeed
    <3> QED BY <3>1 DEF Begin
  <2>8. CASE BeginRestore(p)
    BY <2>8 DEF BeginRestore, Begin
  <2>9. CASE Download(p)
    BY <2>9 DEF Download, Fail, Discard
  <2>10. CASE Decompress(p)
    BY <2>10 DEF Decompress, Fail, Discard
  <2>11. CASE Restored(p)
    <3>1. CASE Install(p, "backup", TRUE)
      BY <2>11, <3>1, InstallStep DEF Restored
    <3>2. CASE Fail(p)
      BY <2>11, <3>2 DEF Restored, Fail, Discard
    <3> QED BY <2>11, <3>1, <3>2 DEF Restored
  <2>12. CASE BeginSync(p)
    BY <2>12 DEF BeginSync, Usable, Opened, Databases
  <2>13. CASE Close(p)
    <3>1. /\ pc[p] = "sync" /\ pc' = [pc EXCEPT ![p] = "idle"]
          /\ conn' = [conn EXCEPT ![p] = [file |-> Absent, log |-> FALSE]]
          /\ UNCHANGED tmp
      BY <2>13 DEF Close, NoConn
    <3>2. CASE UNCHANGED <<main, wal>>
      BY <3>1, <3>2
    <3>3. CASE wal' = Absent /\ main' = [main EXCEPT !.synced = TRUE]
      <4>1. main \in Databases
        BY <3>1
      <4>2. /\ main' \in Databases /\ main' # Absent /\ main'.synced
            /\ main'.state = main.state /\ main'.from = main.from
        BY <3>3, <4>1 DEF Databases
      <4> QED BY <3>1, <3>3, <4>1, <4>2
    <3> QED BY <2>13, <3>2, <3>3 DEF Close
  <2>14. CASE Snapshot(p)
    <3>1. /\ main \in Databases /\ main' \in Databases /\ main' # Absent
          /\ main'.from = main.from /\ main'.state \in {main.state, "mixed"}
          /\ main.synced => main'.synced
          /\ main'.state \in {"whole", "stripped", "mixed"}
      BY <2>14 DEF Snapshot, Usable, Opened, Databases
    <3>2. \/ pc' = [pc EXCEPT ![p] = "snapshot"]
             /\ tmp' = [tmp EXCEPT ![p] = main'.state]
          \/ UNCHANGED <<pc, tmp>>
      BY <2>14 DEF Snapshot
    <3>3. pc[p] = "idle" /\ UNCHANGED conn /\ wal' \in {wal, Absent}
      BY <2>14 DEF Snapshot
    <3>4. pc' \in [Procs -> Steps] /\ \A q \in Procs :
            /\ pc'[q] \in Checked => pc[q] \in Checked /\ tmp'[q] = tmp[q]
            /\ pc'[q] = "sync" <=> pc[q] = "sync"
      BY <3>1, <3>2, <3>3
    <3>5. tmp' \in [Procs -> {"none", "partial", "whole", "stripped", "mixed"}]
      BY <3>1, <3>2
    <3> QED BY <3>1, <3>3, <3>4, <3>5
  <2>15. CASE Cleanup(p)
    BY <2>15 DEF Cleanup
  <2> QED BY <1>1, <2>1, <2>2, <2>3, <2>4, <2>5, <2>6, <2>7, <2>8, <2>9,
             <2>10, <2>11, <2>12, <2>13, <2>14, <2>15 DEF Step
<1>2. ASSUME NEW p \in Procs, Killed(p) PROVE FileInvariant'
  BY <1>2 DEF Killed, CutOff, NoConn, Databases
<1>3. CASE PowerLoss
  BY <1>3 DEF PowerLoss, CutOff, NoConn, Databases
<1>4. CASE LoseDisk
  BY <1>4 DEF LoseDisk
<1>5. CASE UNCHANGED vars
  BY <1>5 DEF vars
<1> QED BY <1>1, <1>2, <1>3, <1>4, <1>5 DEF Next

-----------------------------------------------------------------------------
(* LogInvariant.                                                            *)

\* No log lies beside the database when the system starts.
LEMMA InitLog == Init => LogInvariant
<1> SUFFICES ASSUME Init PROVE LogInvariant
  OBVIOUS
<1>1. main # Absent => main.state = "whole" /\ main.file \in Files
  BY DEF Init, Installed
<1>2. wal = Absent /\ \A p \in Procs : pc[p] = "idle"
  BY DEF Init
<1> QED BY <1>1, <1>2, DatabaseAssumption DEF LogInvariant, Fetching

\* A step of one operation that leaves the database, its log and the
\* connections alone, and neither begins nor ends a sync.
LEMMA LogKept ==
    ASSUME FileInvariant, LogInvariant, UNCHANGED <<main, wal, conn>>,
           NEW p \in Procs, NEW s \in Steps, pc' = [pc EXCEPT ![p] = s],
           pc[p] # "sync", s # "sync",
           s \in Fetching => p \in Fetchers, s = "rename" => wal = Absent
    PROVE  LogInvariant'
<1> USE DEF LogInvariant, FileInvariant, TypeOK
<1>1. \A q \in Procs :
        /\ q = p => pc'[q] = s
        /\ q # p => pc'[q] = pc[q]
  OBVIOUS
<1>2. \A q \in Procs :
        /\ pc'[q] \in Fetching => q \in Fetchers
        /\ pc'[q] = "sync" => "sync" \in Ops[q]
        /\ pc'[q] = "rename" => wal = Absent
  BY <1>1
<1>3. SyncGoesOn <=> SyncGoesOn'
  <2>1. \A q \in Procs : pc'[q] = "sync" <=> pc[q] = "sync"
    BY <1>1
  <2> QED BY <2>1 DEF SyncGoesOn
<1> QED BY <1>2, <1>3 DEF Fetchers

\* The same step when it gives up.
LEMMA LogFail ==
    ASSUME FileInvariant, LogInvariant, NEW p \in Procs, pc[p] # "sync",
           Discard(p) \/ Fail(p)
    PROVE  LogInvariant'
<1>1. pc' = [pc EXCEPT ![p] = "idle"] /\ UNCHANGED <<main, wal, conn>>
  BY DEF Discard, Fail, Goto
<1> QED BY <1>1, LogKept DEF Fetching, Steps

\* What is renamed into place meets no log unless it comes from a backup.
LEMMA InstallLog ==
    ASSUME FileInvariant, LogInvariant, NEW p \in Procs, pc[p] \in Checked,
           NEW from \in {"prod", "backup"}, NEW synced \in BOOLEAN,
           from = "prod" => pc[p] = "rename", Install(p, from, synced)
    PROVE  LogInvariant'
<1> USE DEF FileInvariant, TypeOK, LogInvariant
<1>1. PICK f \in Files :
        Fresh(f) /\ main' = Installed(f, from, "whole", synced)
  BY DEF Install, Checked
<1>2. main' # Absent
  <2>1. Installed(f, from, "whole", synced) \in Databases
    <3>1. FALSE \in BOOLEAN
      OBVIOUS
    <3> QED BY <3>1 DEF Installed, Databases
  <2> QED BY <1>1, <2>1, AbsentAssumption
<1>3. /\ pc' = [pc EXCEPT ![p] = "idle"]
      /\ UNCHANGED <<wal, conn>>
  BY DEF Install, Goto
<1>4. main'.from = from /\ main'.state = "whole" /\ main'.file = f
  BY <1>1 DEF Installed
<1>5. wal # main'.file
  BY <1>1, <1>4 DEF Fresh
<1>6. \A q \in Procs :
        /\ pc'[q] \in Fetching => q \in Fetchers
        /\ pc'[q] = "sync" => "sync" \in Ops[q]
        /\ pc'[q] = "rename" => wal = Absent
  BY <1>3 DEF Fetching
<1>7. from = "prod" => wal = Absent
  OBVIOUS
<1> QED BY <1>2, <1>3, <1>4, <1>5, <1>6, <1>7 DEF Fetchers

\* Whoever removes a log finds that of a sync that was cut off.
LEMMA RemoveWalLog ==
    ASSUME OneWriter, FileInvariant, LogInvariant,
           NEW p \in Procs, RemoveWal(p)
    PROVE  LogInvariant'
<1> USE DEF FileInvariant, TypeOK, LogInvariant, At, Goto
<1>1. /\ p \in Fetchers /\ pc[p] = "remove_wal" /\ wal' = Absent
      /\ pc' = [pc EXCEPT ![p] = "rename"] /\ main' = WithoutLog
  BY DEF RemoveWal, Fetching
<1>2. ~SyncGoesOn
  <2> SUFFICES ASSUME NEW q \in Procs, pc[q] = "sync" PROVE FALSE
    BY DEF SyncGoesOn
  <2> QED BY <1>1 DEF OneWriter
<1>3. main # Absent /\ wal = main.file => main.cut
  BY <1>1, <1>2, Zenon
<1>4. main # Absent => main \in Databases
  OBVIOUS
<1>5. main' # Absent =>
        /\ main # Absent /\ main'.from = main.from /\ main'.cut = main.cut
        /\ main'.state \in {main.state, "stripped"}
        /\ main'.state = "stripped" => main.cut
        /\ main'.file \in Files
  BY <1>1, <1>3, <1>4, AbsentAssumption DEF WithoutLog, Databases
<1>6. \A q \in Procs :
        /\ pc'[q] \in Fetching => q \in Fetchers
        /\ pc'[q] = "sync" => "sync" \in Ops[q]
  BY <1>1
<1> QED BY <1>1, <1>5, <1>6, DatabaseAssumption DEF Fetchers

\* The end of a sync removes the log it wrote.
LEMMA CloseLog ==
    ASSUME OneWriter, FileInvariant, LogInvariant, NEW p \in Procs, Close(p)
    PROVE  LogInvariant'
<1> USE DEF FileInvariant, TypeOK, LogInvariant, At, Goto
<1>1. /\ pc[p] = "sync" /\ pc' = [pc EXCEPT ![p] = "idle"]
      /\ main # Absent /\ main \in Databases
      /\ conn' = [conn EXCEPT ![p] = NoConn]
  BY DEF Close
<1>2. \A q \in Procs :
        /\ pc'[q] \in Fetching => q \in Fetchers
        /\ pc'[q] = "sync" => "sync" \in Ops[q]
        /\ pc'[q] = "rename" => wal = Absent
  BY <1>1 DEF Fetching
<1>3. CASE wal' = Absent /\ main' = [main EXCEPT !.synced = TRUE]
  <2>1. /\ main' # Absent /\ main'.from = main.from /\ main'.cut = main.cut
        /\ main'.state = main.state /\ main'.file \in Files
    <3>1. main' \in Databases
      BY <1>1, <1>3 DEF Databases
    <3> QED BY <1>1, <1>3, <3>1, AbsentAssumption DEF Databases
  <2> QED BY <1>1, <1>2, <1>3, <2>1, DatabaseAssumption DEF Fetchers
<1>4. CASE /\ UNCHANGED <<main, wal>>
           /\ ~(conn[p].log /\ LastOne(p) /\ main.file = conn[p].file)
  <2>1. ASSUME Fetchers # {}, wal = main.file, ~main.cut PROVE SyncGoesOn'
    <3>1. PICK q \in Procs :
            pc[q] = "sync" /\ conn[q] = [file |-> main.file, log |-> TRUE]
      BY <1>1, <2>1 DEF SyncGoesOn
    <3>2. PICK f \in Fetchers : TRUE
      BY <2>1
    <3>3. \A r \in Procs : pc[r] = "sync" => r = f
      BY DEF OneWriter, Fetchers
    <3>4. q = p /\ LastOne(p)
      BY <1>1, <3>1, <3>3 DEF LastOne
    <3> QED BY <1>4, <3>1, <3>4
  <2> QED BY <1>2, <1>4, <2>1 DEF Fetchers
<1> QED BY <1>3, <1>4 DEF Close

\* With one writer no step breaks LogInvariant, a crash included.
LEMMA LogStep ==
    OneWriter /\ FileInvariant /\ LogInvariant /\ [Next]_vars => LogInvariant'
<1> SUFFICES ASSUME OneWriter, FileInvariant, LogInvariant, [Next]_vars
             PROVE  LogInvariant'
  OBVIOUS
<1> USE DatabaseAssumption, AbsentAssumption
<1> USE DEF FileInvariant, LogInvariant, TypeOK, Fetching, At, Goto, Temp
<1>d. main # Absent => main \in Databases
  OBVIOUS
<1>1. ASSUME NEW p \in Procs, Step(p) PROVE LogInvariant'
  <2>1. CASE BeginFetch(p)
    BY <2>1, LogKept DEF BeginFetch, Begin, Fetchers, Steps
  <2>2. CASE Rsync(p)
    BY <2>2, LogKept, LogFail DEF Rsync, Steps, Fetchers
  <2>3. CASE QuickCheck(p)
    BY <2>3, LogKept, LogFail DEF QuickCheck, Steps, Fetchers
  <2>4. CASE CopyBak(p)
    BY <2>4, LogKept, LogFail DEF CopyBak, Steps, Fetchers
  <2>5. CASE RemoveWal(p)
    BY <2>5, RemoveWalLog
  <2>6. CASE Rename(p)
    BY <2>6, InstallLog, LogFail DEF Rename, Checked
  <2>7. CASE BeginSeed(p)
    <3>1. Begin(p, "seed", "rsync", "partial")
          \/ Begin(p, "seed", "download", "none")
      BY <2>7 DEF BeginSeed
    <3> QED BY <3>1, LogKept DEF Begin, Fetchers, Steps
  <2>8. CASE BeginRestore(p)
    BY <2>8, LogKept DEF BeginRestore, Begin, Steps
  <2>9. CASE Download(p)
    BY <2>9, LogKept, LogFail DEF Download, Steps
  <2>10. CASE Decompress(p)
    BY <2>10, LogKept, LogFail DEF Decompress, Steps
  <2>11. CASE Restored(p)
    BY <2>11, InstallLog, LogFail DEF Restored, Checked
  <2>12. CASE BeginSync(p)
    <3>1. \A q \in Procs : pc'[q] # "rename"
      BY <2>12 DEF BeginSync, OneWriter
    <3>2. /\ main \in Databases /\ main' \in Databases /\ main' # Absent
          /\ main'.file = main.file /\ main'.from = main.from
          /\ main.from = "prod" => main'.state = main.state
          /\ main'.state \in {main.state, "mixed"} /\ main'.cut = main.cut
          /\ wal' = main.file
      BY <2>12 DEF BeginSync, Usable, Opened, Databases
    <3>3. /\ pc' = [pc EXCEPT ![p] = "sync"] /\ "sync" \in Ops[p]
          /\ conn' = [conn EXCEPT ![p] = [file |-> main.file, log |-> TRUE]]
      BY <2>12 DEF BeginSync
    <3>4. SyncGoesOn'
      BY <3>2, <3>3 DEF SyncGoesOn
    <3>5. \A q \in Procs :
            /\ pc'[q] \in Fetching => q \in Fetchers
            /\ pc'[q] = "sync" => "sync" \in Ops[q]
      BY <3>3
    <3> QED BY <3>1, <3>2, <3>4, <3>5 DEF Fetchers
  <2>13. CASE Close(p)
    BY <2>13, CloseLog
  <2>14. CASE Snapshot(p)
    <3>1. /\ main \in Databases /\ main' \in Databases /\ main' # Absent
          /\ main'.file = main.file /\ main'.from = main.from
          /\ main.from = "prod" => main'.state = main.state
          /\ main'.state \in {main.state, "mixed"} /\ main'.cut = main.cut
          /\ wal' \in {wal, Absent}
      BY <2>14 DEF Snapshot, Usable, Opened, Databases
    <3>2. /\ pc[p] = "idle" /\ UNCHANGED conn
          /\ pc' \in {pc, [pc EXCEPT ![p] = "snapshot"]}
      BY <2>14 DEF Snapshot
    <3>3. SyncGoesOn => SyncGoesOn'
      BY <3>1, <3>2 DEF SyncGoesOn
    <3>4. \A q \in Procs :
            /\ pc'[q] \in Fetching => q \in Fetchers
            /\ pc'[q] = "sync" => "sync" \in Ops[q]
            /\ pc'[q] = "rename" => wal = Absent
      BY <3>2
    <3>5. main.file \in Files
      BY <3>1 DEF Databases
    <3> QED BY <3>1, <3>3, <3>4, <3>5 DEF Fetchers
  <2>15. CASE Cleanup(p)
    BY <2>15, LogKept DEF Cleanup, Steps
  <2> QED BY <1>1, <2>1, <2>2, <2>3, <2>4, <2>5, <2>6, <2>7, <2>8, <2>9,
             <2>10, <2>11, <2>12, <2>13, <2>14, <2>15 DEF Step
<1>2. ASSUME NEW p \in Procs, Killed(p) PROVE LogInvariant'
  <2>1. /\ main' = CutOff({p}) /\ UNCHANGED wal
        /\ pc' = [pc EXCEPT ![p] = "idle"]
        /\ conn' = [conn EXCEPT ![p] = NoConn]
    BY <1>2 DEF Killed
  <2>2. main' # Absent =>
          /\ main # Absent /\ main'.file = main.file
          /\ main'.from = main.from /\ main'.state = main.state
          /\ main.cut => main'.cut
          /\ conn[p] = [file |-> main.file, log |-> TRUE] => main'.cut
    BY <1>d, <2>1 DEF CutOff, Databases
  <2>3. main' # Absent /\ SyncGoesOn => main'.cut \/ SyncGoesOn'
    BY <2>1, <2>2 DEF SyncGoesOn
  <2>4. \A q \in Procs :
          /\ pc'[q] \in Fetching => q \in Fetchers
          /\ pc'[q] = "sync" => "sync" \in Ops[q]
          /\ pc'[q] = "rename" => wal = Absent
    BY <2>1
  <2>5. main = Absent => main' = Absent
    BY <2>1 DEF CutOff
  <2>6. main' = Absent => main = Absent
    BY <1>d, <2>1 DEF CutOff, Databases
  <2> QED BY <2>1, <2>2, <2>3, <2>4, <2>5, <2>6 DEF Fetchers
<1>3. CASE PowerLoss
  <2>1. /\ \/ main' = CutOff(Procs)
           \/ main # Absent /\ main' = [CutOff(Procs) EXCEPT !.state = "torn"]
        /\ UNCHANGED wal /\ pc' = [p \in Procs |-> "idle"]
    BY <1>3 DEF PowerLoss
  <2>2. main # Absent =>
          /\ CutOff(Procs) \in Databases
          /\ CutOff(Procs).file = main.file /\ CutOff(Procs).from = main.from
          /\ CutOff(Procs).state = main.state
          /\ main.cut \/ SyncGoesOn => CutOff(Procs).cut
    BY <1>d DEF CutOff, SyncGoesOn, Databases
  <2>3. main = Absent <=> main' = Absent
    <3>1. CASE main = Absent
      BY <2>1, <3>1 DEF CutOff
    <3>2. CASE main # Absent
      <4>1. [CutOff(Procs) EXCEPT !.state = "torn"] \in Databases
        BY <2>2, <3>2 DEF Databases
      <4> QED BY <2>1, <2>2, <3>2, <4>1
    <3> QED BY <3>1, <3>2
  <2>4. main' # Absent =>
          /\ main'.file = main.file /\ main'.from = main.from
          /\ main'.state \in {main.state, "torn"}
          /\ main.cut \/ SyncGoesOn => main'.cut
    BY <2>1, <2>2, <2>3 DEF Databases
  <2> QED BY <2>1, <2>3, <2>4 DEF Fetchers
<1>4. CASE LoseDisk
  BY <1>4 DEF LoseDisk, Fetchers
<1>5. CASE UNCHANGED vars
  BY <1>5 DEF vars, SyncGoesOn, Fetchers
<1> QED BY <1>1, <1>2, <1>3, <1>4, <1>5 DEF Next

\* Only the step that takes a snapshot leads to one being there.
LEMMA SnapshotBegins ==
    ASSUME FileInvariant, [Next]_vars, NEW p \in Procs,
           ~At(p, "snapshot"), At(p, "snapshot")'
    PROVE  Snapshot(p) /\ Temp(p, main'.state)
<1> USE DEF FileInvariant, TypeOK, At, Goto, Temp
<1>1. \E q \in Procs : Step(q)
  <2>1. CASE \E q \in Procs : Killed(q)
    BY <2>1 DEF Killed
  <2>2. CASE PowerLoss
    BY <2>2 DEF PowerLoss
  <2>3. CASE LoseDisk \/ UNCHANGED vars
    BY <2>3 DEF LoseDisk, vars
  <2> QED BY <2>1, <2>2, <2>3 DEF Next
<1>2. PICK q \in Procs : Step(q)
  BY <1>1
<1>3. \A s : pc' = [pc EXCEPT ![q] = s] => q = p /\ s = "snapshot"
  OBVIOUS
<1>4. pc' # pc
  OBVIOUS
<1>5. Snapshot(q)
  BY <1>2, <1>3, <1>4
     DEF Step, BeginFetch, Begin, Rsync, Fail, Discard, QuickCheck, CopyBak,
         RemoveWal, Rename, Install, BeginSeed, BeginRestore, Download,
         Decompress, Restored, BeginSync, Close, Cleanup
<1>6. Temp(q, main'.state) /\ pc' = [pc EXCEPT ![q] = "snapshot"]
  BY <1>4, <1>5 DEF Snapshot
<1> QED BY <1>3, <1>5, <1>6

\* What sqlite3 copies: every committed row, unless the database was stripped
\* of some after a sync was cut off, or is a backup restored over a log.
LEMMA SnapshotTaken ==
    FileInvariant /\ LogInvariant /\ [Next]_vars =>
        \A p \in Procs : ~At(p, "snapshot") /\ At(p, "snapshot")' =>
            \/ tmp'[p] = "whole"
            \/ tmp'[p] = "stripped" /\ main.cut
            \/ tmp'[p] = "mixed" /\ main.from = "backup"
<1> SUFFICES ASSUME FileInvariant, LogInvariant, [Next]_vars, NEW p \in Procs,
                    ~At(p, "snapshot"), At(p, "snapshot")'
             PROVE  \/ tmp'[p] = "whole"
                    \/ tmp'[p] = "stripped" /\ main.cut
                    \/ tmp'[p] = "mixed" /\ main.from = "backup"
  OBVIOUS
<1>1. Snapshot(p) /\ tmp'[p] = main'.state
  BY SnapshotBegins DEF Temp, FileInvariant, TypeOK
<1>2. main \in Databases /\ main # Absent
  BY <1>1 DEF Snapshot, Usable, FileInvariant, TypeOK
<1>3. main'.state = Opened.state
  BY <1>1, <1>2 DEF Snapshot, Opened, Databases
<1>4. CASE wal \in {Absent, main.file}
  <2>1. Opened.state = main.state
    BY <1>2, <1>4 DEF Opened, Databases
  <2>2. main.state \in {"whole", "stripped", "mixed"}
    BY <1>1, <1>2 DEF Snapshot, Usable, Databases
  <2> QED BY <1>1, <1>2, <1>3, <2>1, <2>2 DEF LogInvariant, Databases
<1>5. CASE wal \notin {Absent, main.file}
  <2>1. Opened.state = "mixed"
    BY <1>2, <1>5 DEF Opened, Databases
  <2> QED BY <1>1, <1>2, <1>3, <1>5, <2>1 DEF LogInvariant, Databases
<1> QED BY <1>4, <1>5

-----------------------------------------------------------------------------
(* The theorems.                                                            *)

\* FileInvariant holds in every reachable state, whatever is started or fails.
THEOREM FileCorrect == Spec => []FileInvariant
BY InitFile, FileStep, PTL DEF Spec

\* Every variable keeps its type.
THEOREM TypeCorrect == Spec => []TypeOK
<1>1. FileInvariant => TypeOK
  BY DEF FileInvariant
<1> QED BY <1>1, FileCorrect, PTL

\* restore.go's promise for every operation: a half-written database is never
\* where the pipeline expects a whole one, and a backup is not torn either.
THEOREM NeverHalf == Spec => []NeverHalfWritten
<1>1. FileInvariant => NeverHalfWritten
  BY DEF FileInvariant, NeverHalfWritten
<1> QED BY <1>1, FileCorrect, PTL

\* Where one process fetches and syncs, a log is never replayed into a
\* database that production sent, although others restore and take snapshots.
THEOREM NeverMixedUp == OneWriter => (Spec => []NeverMixed)
<1> SUFFICES ASSUME OneWriter PROVE Spec => []NeverMixed
  OBVIOUS
<1>1. FileInvariant /\ LogInvariant /\ [Next]_vars => LogInvariant'
  BY LogStep
<1>2. FileInvariant /\ LogInvariant => NeverMixed
  BY AbsentAssumption
     DEF FileInvariant, TypeOK, LogInvariant, NeverMixed, Databases
<1> QED BY <1>1, <1>2, InitLog, FileCorrect, PTL DEF Spec

\* Under the same condition a snapshot has every committed row, unless a sync
\* was cut off and ProdDB has removed its log without replacing the database.
THEOREM SnapshotWhole == OneWriter => (Spec => SnapshotIsWhole)
<1> SUFFICES ASSUME OneWriter PROVE Spec => SnapshotIsWhole
  OBVIOUS
<1>1. FileInvariant /\ LogInvariant /\ [Next]_vars => LogInvariant'
  BY LogStep
<1>2. FileInvariant /\ LogInvariant /\ [Next]_vars =>
        [ \A p \in Procs : ~At(p, "snapshot") /\ At(p, "snapshot")' =>
            \/ tmp'[p] = "whole"
            \/ tmp'[p] = "stripped" /\ main.cut
            \/ tmp'[p] = "mixed" /\ main.from = "backup" ]_vars
  BY SnapshotTaken
<1> QED BY <1>1, <1>2, InitLog, FileCorrect, PTL DEF Spec, SnapshotIsWhole

=============================================================================
