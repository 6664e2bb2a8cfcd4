------------------------------- MODULE Repair -------------------------------
(***************************************************************************)
(* vps-sync repair-db (internal/repair/repair.go) on a mirror seeded from a *)
(* production database whose user tables were dropped, while the GSBS       *)
(* library that migrates it changes from one image to the next.  The shape  *)
(* of a table or index is the set of migrations that made it; the migrations *)
(* themselves belong to the library (store.NewSQLite), which runs the       *)
(* pending ones, in order, whenever a database is opened.  Opens by the      *)
(* same and by other images fall anywhere into a repair; two repairs at once *)
(* are left out.                                                            *)
(***************************************************************************)
EXTENDS Integers, FiniteSets, FiniteSetsExt

CONSTANTS
    Tables, Indexes,
    On,         \* On[i] is the table of index i
    UserTables, \* the tables a seed may have been stripped of
    Latest,     \* the newest migration of any library
    Schemas     \* histories: h[o] are the migrations that create and alter o

Objects == Tables \cup Indexes

ASSUME RepairAssumption ==
    /\ Tables \cap Indexes = {} /\ UserTables \subseteq Tables
    /\ On \in [Indexes -> Tables] /\ Latest \in Nat \ {0}
    /\ Schemas \subseteq [Objects -> (SUBSET (1..Latest)) \ {{}}]
    /\ \A h \in Schemas : \A i \in Indexes : \A k \in h[i] :
          \E t \in h[On[i]] : t <= k    \* no index before its table

VARIABLES
    steps,      \* the history of the schema; it never changes
    seed,       \* the version of the database the mirror was seeded from
    careful,    \* every user table was dropped, images only move forward,
                \* and an operator only repairs when the hint says so
    db,         \* the mirror: its version stamp and the shape of each object
    lib,        \* the version of the library of the image in use
    opened,     \* how its last open ended, or "never"
    snapshot,   \* a repair: its library and the stamp it read, or nothing
    listed,     \* the names it read, or nothing yet
    repairedBy, \* the library of the last repair that succeeded, or 0
    covered,    \* a library not older than the mirror has repaired it
    overtaken   \* the mirror was repaired by a library that a newer one
                \* had meanwhile migrated it past

deployment == <<steps, seed, careful>>
reads == <<snapshot, listed>>
repairs == <<repairedBy, covered, overtaken>>
vars == <<deployment, db, lib, opened, reads, repairs>>

\* The shape of o in a database that ran every migration up to v.
Shape(o, v) == {k \in steps[o] : k <= v}

Missing(d, o) == d.shape[o] = {}

Created(o) == Min(steps[o])

\* A library's own database, freshly migrated (buildPristine).
Pristine(v) == [version |-> v, shape |-> [o \in Objects |-> Shape(o, v)]]

\* Dropping tables drops their indexes.
Stripped(d, dropped) ==
    [d EXCEPT !.shape = [o \in Objects |->
        IF o \in dropped \/ (o \in Indexes /\ On[o] \in dropped) THEN {}
        ELSE d.shape[o]]]

Init ==
    \E l \in 1..Latest, dropped \in SUBSET UserTables :
        /\ seed \in 1..l
        /\ steps \in Schemas /\ careful \in BOOLEAN
        /\ careful => dropped = UserTables
        /\ lib = l
        /\ db = Stripped(Pristine(seed), dropped)
        /\ opened = "never" /\ snapshot = {} /\ listed = {}
        /\ repairedBy = 0 /\ covered = FALSE /\ overtaken = FALSE

-----------------------------------------------------------------------------
(* The library.                                                             *)

\* A migration creates what is not there, and alters what is there and was
\* not altered by it before; anything else is an error.
Runs(d, k) ==
    \A o \in Objects : k \in steps[o] =>
        /\ k \notin d.shape[o]
        /\ Missing(d, o) <=> k = Created(o)
        /\ o \in Indexes => ~ Missing(d, On[o]) \/ k = Created(On[o])

\* d after the pending migrations up to v.
After(d, v) ==
    [version |-> v,
     shape |-> [o \in Objects |->
        d.shape[o] \cup {k \in steps[o] : d.version < k /\ k <= v}]]

\* An open runs the pending migrations up to the first that fails.
Stops(d, l) == {v \in d.version..l : v = l \/ ~Runs(After(d, v), v + 1)}

Opened(d, l) == IF d.version >= l THEN d ELSE After(d, Min(Stops(d, l)))

Opens(d, l) == Opened(d, l).version >= l

Table(o) == IF o \in Indexes THEN On[o] ELSE o

\* A migration needs a table that is not there and that it does not create.
NoSuchTable(d, k) ==
    \E o \in Objects :
        k \in steps[o] /\ Missing(d, Table(o)) /\ k # Created(Table(o))

\* How an open that stopped at d may end: only a missing table brings the
\* hint to run repair-db (IsSchemaError, runMain).
Outcomes(d, l) ==
    IF d.version >= l THEN {"ok"}
    ELSE {"failed"}
         \cup {e \in {"schema_error"} : NoSuchTable(d, d.version + 1)}

\* Every sync and export opens the mirror, also while it is repaired.
Open ==
    /\ db' = Opened(db, lib) /\ opened' \in Outcomes(db', lib)
    /\ UNCHANGED <<deployment, lib, reads, repairs>>

\* A new image is deployed, or an older one pinned (SYNC_IMAGE).  Nothing
\* makes it wait for a repair by the image before, which keeps its library.
ChangeLibrary ==
    /\ lib' \in 1..Latest \ {lib} /\ (careful => lib' > lib)
    /\ opened' = "never"
    /\ UNCHANGED <<deployment, db, reads, repairs>>

-----------------------------------------------------------------------------
(* repair.DB.                                                               *)

\* The stamp and the names are read first, one after the other and outside
\* the transaction.
ReadVersion ==
    /\ careful => opened = "schema_error"
    /\ snapshot = {} /\ snapshot' = {[lib |-> lib, version |-> db.version]}
    /\ UNCHANGED <<deployment, db, lib, opened, listed, repairs>>

ReadNames ==
    /\ snapshot # {} /\ listed = {}
    /\ listed' = {{o \in Objects : ~ Missing(db, o)}}
    /\ UNCHANGED <<deployment, db, lib, opened, snapshot, repairs>>

\* What the pristine database of the repair r has and was not listed.
Wanted(r, names) == {o \in Objects : ~ Missing(Pristine(r.lib), o)} \ names

\* mutant: the stamp is left to the next open
StampKept(r) == db.version

\* mutant: the stamp is that of the pristine database, always
StampPristine(r) == r.lib

\* mutant: off by one
StampNext(r) == IF r.lib > r.version THEN r.lib + 1 ELSE db.version

\* The stamp moves forward, seen from the version that was read.
Stamp(r) == IF r.lib > r.version THEN r.lib ELSE db.version

\* mutant: the index of a table that is missing too is left out
RecreatedOnTables(r, names) ==
    [version |-> Stamp(r),
     shape |-> [o \in Objects |->
        IF /\ o \in Wanted(r, names)
           /\ o \in Indexes => On[o] \notin Wanted(r, names)
        THEN Shape(o, r.lib) ELSE db.shape[o]]]

Recreated(r, names) ==
    [version |-> Stamp(r),
     shape |-> [o \in Objects |->
        IF o \in Wanted(r, names) THEN Shape(o, r.lib) ELSE db.shape[o]]]

\* Tables come first.  Creating an object that has come into being since, or
\* an index on a table without its columns, is an error.
Creatable(r, names) ==
    \A o \in Wanted(r, names) :
        /\ Missing(db, o)
        /\ o \in Indexes =>
              Shape(On[o], Created(o))
                  \subseteq Recreated(r, names).shape[On[o]]

\* A newer library has migrated the mirror past that of the repair.
Overtaken(r) == db.version > r.lib /\ db.version # r.version

\* One transaction; with nothing to create, not even the stamp is written.
Commit ==
    \E r \in snapshot, names \in listed :
        /\ Creatable(r, names)
        /\ db' = IF Wanted(r, names) = {} THEN db ELSE Recreated(r, names)
        /\ snapshot' = {} /\ listed' = {} /\ opened' = "never"
        /\ repairedBy' = r.lib
        /\ covered' = (covered \/ r.lib >= db.version)
        /\ overtaken' = (overtaken \/ Overtaken(r))
        /\ UNCHANGED <<deployment, lib>>

\* An error or a kill; the transaction is rolled back.
Abort ==
    /\ snapshot # {} /\ snapshot' = {} /\ listed' = {}
    /\ UNCHANGED <<deployment, db, lib, opened, repairs>>

Next ==
    Open \/ ChangeLibrary \/ ReadVersion \/ ReadNames \/ Commit \/ Abort

Spec == Init /\ [][Next]_vars

-----------------------------------------------------------------------------
(* Properties.                                                              *)

Databases == [version : 1..Latest, shape : [Objects -> SUBSET (1..Latest)]]

\* The state has its type, and no object has a shape no migration made.
TypeOK ==
    /\ steps \in Schemas /\ careful \in BOOLEAN /\ seed \in 1..Latest
    /\ db \in Databases /\ \A o \in Objects : db.shape[o] \subseteq steps[o]
    /\ snapshot \subseteq [lib : 1..Latest, version : 1..Latest]
    /\ listed \subseteq SUBSET Objects /\ (listed # {} => snapshot # {})
    /\ Cardinality(snapshot) <= 1 /\ Cardinality(listed) <= 1
    /\ lib \in 1..Latest /\ repairedBy \in 0..Latest
    /\ covered \in BOOLEAN /\ overtaken \in BOOLEAN
    /\ opened \in {"never", "ok", "schema_error", "failed"}

\* A mirror that was repaired by a library not older than itself opens, with
\* any library from then on: no migration runs into a missing table, or a
\* second time into one that was created in current shape
\* (repair_test.go:12-14).  Other images open the mirror at any point of the
\* repair; what they may not do is migrate it past the library that repairs.
RepairedOpens == covered /\ ~overtaken => Opens(db, lib)

\* The same without the proviso: the repair would then put the stamp back, and
\* migrations that have run would run again.
EveryRepairOpens == covered => Opens(db, lib)

\* What a seed never drops.
Kept == (Tables \ UserTables) \cup {i \in Indexes : On[i] \notin UserTables}

IsReconciled == \A o \in Objects : db.shape[o] = Shape(o, db.version)

\* Migrations alter only what the seed was stripped of: no table that was
\* kept, and none that a migration created in the mirror before the repair.
AltersOnlyDropped ==
    \A o \in Objects :
        steps[o] # {Created(o)} => o \notin Kept /\ Created(o) <= seed

\* A database repaired as documented is the schema its stamp says, with that
\* proviso: each object has been through exactly the migrations up to that
\* version (repair.go:15, 22-26).
Reconciled ==
    careful /\ repairedBy # 0 /\ AltersOnlyDropped => IsReconciled

\* The same without the proviso, as repair.go states it.
AlwaysReconciled == careful /\ repairedBy # 0 => IsReconciled

\* A second repair with the same library changes nothing, whatever was opened
\* in between (repair_test.go:60).
SecondRepairIsNoop ==
    [][Commit /\ (\A r \in snapshot : r.lib = repairedBy)
       => UNCHANGED db]_vars

=============================================================================
