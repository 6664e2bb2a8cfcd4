---------------------------- MODULE RepairProofs ----------------------------
(***************************************************************************)
(* Theorems about Repair, for every schema history, every set of dropped    *)
(* tables and every order of images, opens and repairs.                     *)
(***************************************************************************)
EXTENDS Repair, FiniteSetTheorems, WellFoundedInduction, TLAPS

-----------------------------------------------------------------------------
(* The inductive invariant.                                                 *)

\* No object is newer than the stamp of the mirror.
WithinStamp ==
    ~overtaken => \A o \in Objects : \A k \in db.shape[o] : k <= db.version

\* What a repair has read of the mirror is still there.
ReadIsOlder ==
    /\ \A r \in snapshot : r.version <= db.version
    /\ \A names \in listed : \A o \in names : ~ Missing(db, o)

\* What the library of the last repair knows is there, and has been read.
RepairedHas ==
    repairedBy # 0 =>
        \A o \in Objects : Shape(o, repairedBy) # {} =>
            /\ ~ Missing(db, o)
            /\ \A names \in listed : o \in names

\* After a repair that covers the mirror, what is missing is still to come.
CoveredHas ==
    covered /\ ~overtaken =>
        \A o \in Objects : Missing(db, o) => Created(o) > db.version

\* No library gets past the stamp.
Stuck == ~Runs(db, db.version + 1)

\* A library that failed is newer than the mirror, and no other gets further.
ErrorIsOlder == opened = "schema_error" => db.version < lib /\ Stuck

\* A careful operator repairs once, with a library newer than the mirror, and
\* no other image can overtake it.
CarefulRepair ==
    careful =>
        /\ seed <= db.version /\ ~overtaken
        /\ \A r \in snapshot :
              r.version = db.version /\ db.version < r.lib /\ Stuck
        /\ repairedBy # 0 =>
              covered /\ snapshot = {} /\ opened # "schema_error"

\* Up to the repair only what the seed was stripped of is missing; a library
\* can neither create it, for it is behind the stamp, nor alter it.
CarefulShape ==
    careful /\ AltersOnlyDropped =>
        \A o \in Objects :
            IF repairedBy = 0 /\ o \notin Kept /\ Created(o) <= seed
            THEN Missing(db, o)
            ELSE db.shape[o] = Shape(o, db.version)

RepairInvariant ==
    /\ TypeOK /\ WithinStamp /\ ReadIsOlder /\ RepairedHas /\ CoveredHas
    /\ ErrorIsOlder /\ CarefulRepair /\ CarefulShape

-----------------------------------------------------------------------------
(* The operators.                                                           *)

\* Every set of naturals has a least member.
LEMMA Least ==
    ASSUME NEW S, S \subseteq Nat, S # {}
    PROVE  \E m \in S : \A k \in S : m <= k
<1> DEFINE R == OpToRel(<, Nat)
<1>1. IsWellFoundedOn(R, Nat)
  BY NatLessThanWellFounded
<1>2. PICK m \in S : \A k \in S : <<k, m>> \notin R
  <2> HIDE DEF R
  <2> QED BY <1>1, WFMin
<1>3. \A k \in S : k < m => <<k, m>> \in R
  BY DEF OpToRel
<1> HIDE DEF R
<1>4. ASSUME NEW k \in S PROVE m <= k
  <2>1. k \in Nat /\ m \in Nat
    OBVIOUS
  <2>2. ~(k < m)
    BY <1>2, <1>3
  <2> QED BY <2>1, <2>2
<1> QED BY <1>4

LEMMA OneElement ==
    ASSUME NEW x PROVE Cardinality({x}) <= 1
BY FS_Singleton

\* Min finds it.
LEMMA MinIsLeast ==
    ASSUME NEW S, S \subseteq Nat, S # {}
    PROVE  Min(S) \in S /\ \A k \in S : Min(S) <= k
BY Least DEF Min

\* The histories of a schema.
LEMMA History ==
    ASSUME steps \in Schemas, NEW o \in Objects
    PROVE  /\ steps[o] \subseteq 1..Latest /\ steps[o] # {}
           /\ Created(o) \in steps[o] /\ Created(o) \in 1..Latest
           /\ \A k \in steps[o] : Created(o) <= k
<1>1. steps \in [Objects -> (SUBSET (1..Latest)) \ {{}}]
  BY RepairAssumption
<1>2. steps[o] \subseteq 1..Latest /\ steps[o] # {} /\ steps[o] \subseteq Nat
  BY <1>1, RepairAssumption
<1> QED BY <1>2, MinIsLeast DEF Created

\* No index is created before its table.
LEMMA TableBefore ==
    ASSUME steps \in Schemas, NEW i \in Indexes, NEW k \in steps[i]
    PROVE  /\ On[i] \in Objects
           /\ Created(On[i]) <= k
<1>1. On[i] \in Objects /\ i \in Objects
  BY RepairAssumption DEF Objects
<1>2. PICK t \in steps[On[i]] : t <= k
  BY RepairAssumption
<1>3. k \in Nat /\ t \in Nat /\ Created(On[i]) \in Nat /\ Created(On[i]) <= t
  BY <1>1, History, RepairAssumption
<1> QED BY <1>1, <1>2, <1>3

\* An object is in the schema of a library from its creation on.
LEMMA ShapeFrom ==
    ASSUME steps \in Schemas, NEW o \in Objects, NEW v \in Int
    PROVE  Shape(o, v) # {} <=> Created(o) <= v
<1>1. /\ steps[o] \subseteq Nat /\ Created(o) \in steps[o]
      /\ \A k \in steps[o] : Created(o) <= k
  BY History, RepairAssumption
<1>2. ASSUME NEW k \in Shape(o, v) PROVE Created(o) <= v
  <2>1. k \in steps[o] /\ k <= v
    BY DEF Shape
  <2> QED BY <1>1, <2>1
<1>3. ASSUME Created(o) <= v PROVE Created(o) \in Shape(o, v)
  BY <1>1, <1>3 DEF Shape
<1> QED BY <1>2, <1>3

\* The migrations of an open run one after the other up to one that fails.
LEMMA OpenRuns ==
    ASSUME NEW d \in Databases, NEW l \in 1..Latest, d.version < l
    PROVE  \E m \in d.version..l :
              /\ Opened(d, l) = After(d, m)
              /\ m = l \/ ~Runs(After(d, m), m + 1)
              /\ \A v \in d.version..(m - 1) : Runs(After(d, v), v + 1)
<1>1. d.version \in 1..Latest /\ Latest \in Nat
  BY RepairAssumption DEF Databases
<1>2. Stops(d, l) \subseteq d.version..l /\ l \in Stops(d, l)
  BY <1>1 DEF Stops
<1> DEFINE m == Min(Stops(d, l))
<1>3. m \in Stops(d, l) /\ \A k \in Stops(d, l) : m <= k
  <2>1. Stops(d, l) \subseteq Nat /\ Stops(d, l) # {}
    BY <1>1, <1>2
  <2> QED BY <2>1, MinIsLeast
<1>4. Opened(d, l) = After(d, m)
  BY <1>1 DEF Opened
<1> HIDE DEF m
<1>5. m \in d.version..l /\ (m = l \/ ~Runs(After(d, m), m + 1))
  BY <1>3 DEF Stops
<1>6. ASSUME NEW v \in d.version..(m - 1)
      PROVE  Runs(After(d, v), v + 1)
  <2>1. v \in d.version..l /\ v < m
    BY <1>1, <1>5
  <2>2. v \notin Stops(d, l)
    BY <1>1, <1>3, <1>5, <2>1
  <2> QED BY <2>1, <2>2 DEF Stops
<1> QED BY <1>4, <1>5, <1>6

\* What an open leaves: nothing is taken away, what it adds are migrations
\* behind the old stamp and up to the new one.
LEMMA OpenGrows ==
    ASSUME TypeOK
    PROVE  /\ Opened(db, lib) \in Databases
           /\ db.version <= Opened(db, lib).version
           /\ \/ Opened(db, lib) = db /\ db.version >= lib
              \/ /\ Opened(db, lib).version <= lib
                 /\ Opened(db, lib) = After(db, Opened(db, lib).version)
                 /\ \A v \in db.version..(Opened(db, lib).version - 1) :
                       Runs(After(db, v), v + 1)
<1>1. /\ db \in Databases /\ db.version \in 1..Latest
      /\ lib \in 1..Latest /\ Latest \in Nat
  BY RepairAssumption DEF TypeOK, Databases
<1>2. CASE db.version >= lib
  BY <1>1, <1>2 DEF Opened
<1>3. CASE ~(db.version >= lib)
  <2>1. db.version < lib
    BY <1>1, <1>3
  <2>2. PICK m \in db.version..lib :
            /\ Opened(db, lib) = After(db, m)
            /\ \A v \in db.version..(m - 1) : Runs(After(db, v), v + 1)
    BY <1>1, <2>1, OpenRuns
  <2>3. After(db, m).version = m
    BY DEF After
  <2>4. After(db, m) \in Databases
    <3>1. m \in 1..Latest
      BY <1>1
    <3>2. ASSUME NEW o \in Objects
          PROVE  db.shape[o] \cup {k \in steps[o] : db.version < k /\ k <= m}
                    \in SUBSET (1..Latest)
      <4>1. steps[o] \subseteq 1..Latest
        BY History DEF TypeOK
      <4>2. db.shape[o] \subseteq 1..Latest
        BY <1>1 DEF Databases
      <4> QED BY <4>1, <4>2
    <3> QED BY <3>1, <3>2 DEF After, Databases
  <2> QED BY <1>1, <2>2, <2>3, <2>4
<1> QED BY <1>2, <1>3

\* An open goes as far as its library reaches, or stops where none gets past.
LEMMA OpenStops ==
    ASSUME TypeOK
    PROVE  \/ Opened(db, lib).version >= lib
           \/ ~Runs(Opened(db, lib), Opened(db, lib).version + 1)
<1>1. /\ db \in Databases /\ db.version \in 1..Latest
      /\ lib \in 1..Latest /\ Latest \in Nat
  BY RepairAssumption DEF TypeOK, Databases
<1>2. CASE db.version >= lib
  BY <1>2 DEF Opened
<1>3. CASE ~(db.version >= lib)
  <2>1. db.version < lib
    BY <1>1, <1>3
  <2>2. PICK m \in db.version..lib :
            /\ Opened(db, lib) = After(db, m)
            /\ m = lib \/ ~Runs(After(db, m), m + 1)
    BY <1>1, <2>1, OpenRuns
  <2>3. After(db, m).version = m
    BY DEF After
  <2> QED BY <1>1, <2>2, <2>3
<1> QED BY <1>2, <1>3

\* What stops one library stops every other.
LEMMA StuckStays ==
    ASSUME TypeOK, Stuck PROVE Opened(db, lib) = db
<1>1. /\ db \in Databases /\ db.version \in 1..Latest
      /\ lib \in 1..Latest /\ Latest \in Nat /\ steps \in Schemas
  BY RepairAssumption DEF TypeOK, Databases
<1>2. After(db, db.version) = db
  <2>1. \A o \in Objects :
           db.shape[o] \cup {k \in steps[o] : db.version < k
                                              /\ k <= db.version}
              = db.shape[o]
    <3> SUFFICES ASSUME NEW o \in Objects, NEW k \in steps[o],
                        db.version < k, k <= db.version
                 PROVE  FALSE
      OBVIOUS
    <3>1. k \in Nat
      BY <1>1, History
    <3> QED BY <1>1, <3>1
  <2>2. /\ db.shape \in [Objects -> SUBSET (1..Latest)]
        /\ db = [version |-> db.version, shape |-> db.shape]
    BY <1>1 DEF Databases
  <2>3. db.shape = [o \in Objects |-> db.shape[o]]
    BY <2>2
  <2>4. After(db, db.version).shape = db.shape
    BY <2>1, <2>3 DEF After
  <2> QED BY <2>2, <2>4 DEF After
<1>3. CASE db.version >= lib
  BY <1>3 DEF Opened
<1>4. CASE ~(db.version >= lib)
  <2>1. db.version < lib
    BY <1>1, <1>4
  <2>2. PICK m \in db.version..lib :
            /\ Opened(db, lib) = After(db, m)
            /\ \A v \in db.version..(m - 1) : Runs(After(db, v), v + 1)
    BY <1>1, <2>1, OpenRuns
  <2>3. ASSUME m # db.version PROVE FALSE
    <3>1. db.version \in db.version..(m - 1)
      BY <1>1, <2>3
    <3> QED BY <1>2, <2>2, <3>1 DEF Stuck
  <2> QED BY <1>2, <2>2, <2>3
<1> QED BY <1>3, <1>4

\* The shape of an object after an open.
LEMMA AfterShape ==
    ASSUME NEW d, NEW v, NEW o \in Objects
    PROVE  After(d, v).shape[o]
              = d.shape[o] \cup {k \in steps[o] : d.version < k /\ k <= v}
BY DEF After

-----------------------------------------------------------------------------
(* Init.                                                                    *)

\* The indexes of what is kept are kept, everything else was dropped.
LEMMA DroppedOrKept ==
    ASSUME NEW o \in Objects
    PROVE  o \in Kept <=>
              ~(o \in UserTables \/ (o \in Indexes /\ On[o] \in UserTables))
BY RepairAssumption DEF Kept, Objects

LEMMA InitRepair == Init => RepairInvariant
<1> SUFFICES ASSUME Init PROVE RepairInvariant
  OBVIOUS
<1>1. PICK l \in 1..Latest, dropped \in SUBSET UserTables :
          /\ seed \in 1..l
          /\ steps \in Schemas /\ careful \in BOOLEAN
          /\ careful => dropped = UserTables
          /\ lib = l
          /\ db = Stripped(Pristine(seed), dropped)
          /\ opened = "never" /\ snapshot = {} /\ listed = {}
          /\ repairedBy = 0 /\ covered = FALSE /\ overtaken = FALSE
  BY DEF Init
<1>2. /\ Latest \in Nat \ {0} /\ l \in 1..Latest /\ seed \in 1..Latest
      /\ seed <= lib
  BY <1>1, RepairAssumption
<1>3. /\ db.version = seed
      /\ db.shape = [o \in Objects |->
            IF o \in dropped \/ (o \in Indexes /\ On[o] \in dropped) THEN {}
            ELSE Shape(o, seed)]
      /\ db = [version |-> db.version, shape |-> db.shape]
  BY <1>1 DEF Stripped, Pristine
<1>4. \A o \in Objects : /\ Shape(o, seed) \subseteq steps[o]
                         /\ Shape(o, seed) \in SUBSET (1..Latest)
                         /\ \A k \in Shape(o, seed) : k <= seed
  BY <1>1, History DEF Shape
<1>5. TypeOK
  <2>1. db.shape \in [Objects -> SUBSET (1..Latest)]
    BY <1>3, <1>4
  <2>2. db \in Databases
    BY <1>2, <1>3, <2>1 DEF Databases
  <2>3. \A o \in Objects : db.shape[o] \subseteq steps[o]
    BY <1>3, <1>4
  <2>4. Cardinality(snapshot) <= 1 /\ Cardinality(listed) <= 1
    BY <1>1, FS_EmptySet
  <2>5. lib \in 1..Latest /\ repairedBy \in 0..Latest
    BY <1>1, <1>2
  <2>6. /\ covered \in BOOLEAN /\ careful \in BOOLEAN
        /\ overtaken \in BOOLEAN
        /\ opened \in {"never", "ok", "schema_error", "failed"}
        /\ steps \in Schemas
    BY <1>1, Zenon
  <2>7. /\ snapshot \subseteq [lib : 1..Latest, version : 1..Latest]
        /\ listed \subseteq SUBSET Objects /\ (listed # {} => snapshot # {})
    BY <1>1
  <2> QED BY <1>2, <2>2, <2>3, <2>4, <2>5, <2>6, <2>7 DEF TypeOK
<1>6. WithinStamp
  BY <1>3, <1>4 DEF WithinStamp
<1>7. /\ ReadIsOlder /\ RepairedHas /\ CoveredHas /\ ErrorIsOlder
      /\ CarefulRepair
  BY <1>1, <1>2, <1>3
     DEF ReadIsOlder, RepairedHas, CoveredHas, ErrorIsOlder, CarefulRepair
<1>8. CarefulShape
  <2> SUFFICES ASSUME careful, NEW o \in Objects
               PROVE  IF o \notin Kept /\ Created(o) <= seed
                      THEN Missing(db, o)
                      ELSE db.shape[o] = Shape(o, db.version)
    BY <1>1 DEF CarefulShape
  <2>1. CASE o \in Kept
    BY <1>1, <1>3, <2>1, DroppedOrKept
  <2>2. CASE o \notin Kept
    <3>1. Missing(db, o)
      BY <1>1, <1>3, <2>2, DroppedOrKept DEF Missing
    <3>2. Shape(o, seed) # {} => Created(o) <= seed
      BY <1>1, <1>2, ShapeFrom
    <3> QED BY <1>3, <2>2, <3>1, <3>2 DEF Missing
  <2> QED BY <2>1, <2>2
<1> QED BY <1>5, <1>6, <1>7, <1>8 DEF RepairInvariant

-----------------------------------------------------------------------------
(* The library.                                                             *)

\* A mirror that a repair has covered opens: its library creates what is
\* missing and alters what is not.
LEMMA CoveredOpens ==
    ASSUME TypeOK, WithinStamp, CoveredHas, covered, ~overtaken
    PROVE  Opens(db, lib)
<1>1. /\ db \in Databases /\ db.version \in 1..Latest
      /\ lib \in 1..Latest /\ Latest \in Nat /\ steps \in Schemas
      /\ \A o \in Objects : db.shape[o] \subseteq steps[o]
  BY RepairAssumption DEF TypeOK, Databases
<1>2. ASSUME NEW v \in db.version..(lib - 1) PROVE Runs(After(db, v), v + 1)
  <2>1. v \in Nat /\ db.version <= v
    BY <1>1
  <2>2. ASSUME NEW o \in Objects
        PROVE  Missing(After(db, v), o) <=> v < Created(o)
    <3>1. /\ steps[o] \subseteq 1..Latest /\ Created(o) \in steps[o]
          /\ Created(o) \in Nat /\ \A k \in steps[o] : Created(o) <= k
      BY <1>1, History
    <3>2. CASE v < Created(o)
      <4>1. \A k \in steps[o] : k \in Nat /\ ~(k <= v) /\ ~(k <= db.version)
        BY <1>1, <2>1, <3>1, <3>2
      <4>2. db.shape[o] = {}
        BY <1>1, <4>1 DEF WithinStamp
      <4> QED BY <3>2, <4>1, <4>2, AfterShape DEF Missing
    <3>3. CASE ~(v < Created(o))
      <4>1. Created(o) <= v
        BY <2>1, <3>1, <3>3
      <4>2. db.shape[o] # {} \/ db.version < Created(o)
        BY <1>1, <3>1 DEF CoveredHas, Missing
      <4>3. After(db, v).shape[o] # {}
        BY <3>1, <4>1, <4>2, AfterShape
      <4> QED BY <3>3, <4>3 DEF Missing
    <3> QED BY <3>2, <3>3
  <2>3. ASSUME NEW o \in Objects, v + 1 \in steps[o]
        PROVE  /\ v + 1 \notin After(db, v).shape[o]
               /\ Missing(After(db, v), o) <=> v + 1 = Created(o)
    <3>1. Created(o) \in Nat /\ Created(o) <= v + 1
      BY <1>1, <2>3, History
    <3>2. v + 1 \notin db.shape[o]
      BY <1>1, <2>1 DEF WithinStamp
    <3>3. ~(v + 1 <= v)
      BY <2>1
    <3>4. v + 1 \notin After(db, v).shape[o]
      BY <3>2, <3>3, AfterShape
    <3>5. v < Created(o) <=> v + 1 = Created(o)
      BY <2>1, <3>1
    <3> QED BY <2>2, <3>4, <3>5
  <2>4. ASSUME NEW i \in Indexes, v + 1 \in steps[i]
        PROVE  ~ Missing(After(db, v), On[i]) \/ v + 1 = Created(On[i])
    <3>1. On[i] \in Objects /\ Created(On[i]) <= v + 1
      BY <1>1, <2>4, TableBefore
    <3>2. Created(On[i]) \in Nat
      BY <1>1, <3>1, History
    <3>3. Missing(After(db, v), On[i]) => v + 1 = Created(On[i])
      BY <2>1, <2>2, <3>1, <3>2
    <3> QED BY <3>3
  <2> QED BY <2>3, <2>4 DEF Runs
<1>3. CASE db.version >= lib
  BY <1>3 DEF Opens, Opened
<1>4. CASE ~(db.version >= lib)
  <2>1. db.version < lib
    BY <1>1, <1>4
  <2>2. PICK m \in db.version..lib :
            /\ Opened(db, lib) = After(db, m)
            /\ m = lib \/ ~Runs(After(db, m), m + 1)
    BY <1>1, <2>1, OpenRuns
  <2>3. m = lib
    <3>1. m \in db.version..(lib - 1) \/ m = lib
      BY <1>1
    <3> QED BY <1>2, <2>2, <3>1
  <2> QED BY <1>1, <2>2, <2>3 DEF Opens, After
<1> QED BY <1>3, <1>4

\* A library that fails to alter what was dropped has not touched it, and one
\* that cannot alter it has nothing to do with it.
LEMMA DroppedUntouched ==
    ASSUME TypeOK, Opened(db, lib) # db,
           NEW o \in Objects, Missing(db, o), Created(o) <= db.version
    PROVE  Missing(Opened(db, lib), o)
<1>1. /\ db.version \in 1..Latest /\ Latest \in Nat /\ steps \in Schemas
      /\ Opened(db, lib).version \in 1..Latest
  BY OpenGrows, RepairAssumption DEF TypeOK, Databases
<1> DEFINE m == Opened(db, lib).version
           S == {k \in steps[o] : db.version < k /\ k <= m}
<1>2. /\ Opened(db, lib) = After(db, m)
      /\ \A v \in db.version..(m - 1) : Runs(After(db, v), v + 1)
  BY OpenGrows
<1>3. steps[o] \subseteq Nat /\ Created(o) \in Nat
  BY <1>1, History
<1> HIDE DEF m
<1>4. ASSUME S # {} PROVE FALSE
  <2>1. PICK k \in S : \A j \in S : k <= j
    <3>1. S \subseteq Nat
      BY <1>3
    <3> QED BY <1>4, <3>1, Least
  <2>2. k \in steps[o] /\ k \in Nat /\ db.version < k /\ k <= m
    BY <1>3, <2>1
  <2>3. k - 1 \in db.version..(m - 1) /\ (k - 1) + 1 = k
    BY <1>1, <2>2 DEF m
  <2>4. Runs(After(db, k - 1), k)
    BY <1>2, <2>3
  <2>5. k # Created(o)
    BY <1>1, <1>3, <2>2
  <2>6. ~ Missing(After(db, k - 1), o)
    BY <2>2, <2>4, <2>5 DEF Runs
  <2>7. PICK j \in steps[o] : db.version < j /\ j <= k - 1
    BY <2>6, AfterShape DEF Missing
  <2>8. j \in S /\ j \in Nat /\ m \in Nat
    BY <1>1, <1>3, <2>2, <2>7 DEF m
  <2> QED BY <2>1, <2>2, <2>7, <2>8
<1> QED BY <1>2, <1>4, AfterShape DEF Missing

\* A shape that is up to date stays so.
LEMMA ShapeKeepsUp ==
    ASSUME TypeOK, NEW o \in Objects, db.shape[o] = Shape(o, db.version)
    PROVE  Opened(db, lib).shape[o] = Shape(o, Opened(db, lib).version)
<1>1. /\ db.version \in Nat /\ Opened(db, lib).version \in Nat
      /\ db.version <= Opened(db, lib).version /\ steps[o] \subseteq Nat
  BY OpenGrows, History, RepairAssumption DEF TypeOK, Databases
<1>2. CASE Opened(db, lib) = db
  BY <1>2
<1>3. CASE Opened(db, lib) # db
  <2>1. Opened(db, lib).shape[o] = Shape(o, db.version) \cup
           {k \in steps[o] : db.version < k
                             /\ k <= Opened(db, lib).version}
    BY <1>3, OpenGrows, AfterShape
  <2> QED BY <1>1, <2>1 DEF Shape
<1> QED BY <1>2, <1>3

LEMMA OpenStep == RepairInvariant /\ Open => RepairInvariant'
<1> SUFFICES ASSUME RepairInvariant, Open PROVE RepairInvariant'
  OBVIOUS
<1>1. /\ db' = Opened(db, lib)
      /\ opened' \in Outcomes(db', lib)
      /\ steps' = steps /\ seed' = seed /\ careful' = careful
      /\ lib' = lib /\ snapshot' = snapshot /\ listed' = listed
      /\ repairedBy' = repairedBy /\ covered' = covered
      /\ overtaken' = overtaken
  BY DEF Open, deployment, reads, repairs
<1>2. /\ TypeOK /\ WithinStamp /\ ReadIsOlder /\ RepairedHas /\ CoveredHas
      /\ ErrorIsOlder /\ CarefulRepair /\ CarefulShape
  BY DEF RepairInvariant
<1>3. /\ db' \in Databases /\ db.version <= db'.version
      /\ \/ db' = db /\ db.version >= lib
         \/ db'.version <= lib /\ db' = After(db, db'.version)
  BY <1>1, <1>2, OpenGrows
<1>4. /\ db.version \in 1..Latest /\ db'.version \in 1..Latest
      /\ lib \in 1..Latest /\ Latest \in Nat /\ steps \in Schemas
      /\ seed \in 1..Latest
  BY <1>2, <1>3, RepairAssumption DEF TypeOK, Databases
<1>5. ASSUME NEW o \in Objects
      PROVE  /\ db.shape[o] \subseteq db'.shape[o]
             /\ \A k \in db'.shape[o] :
                   \/ k \in db.shape[o]
                   \/ k \in steps[o] /\ db.version < k /\ k <= db'.version
  <2>1. CASE db' = db
    BY <2>1
  <2>2. CASE db' = After(db, db'.version)
    <3>1. db'.shape[o] = db.shape[o] \cup
             {k \in steps[o] : db.version < k /\ k <= db'.version}
      BY <2>2, AfterShape
    <3> QED BY <3>1
  <2> QED BY <1>3, <2>1, <2>2
<1>6. TypeOK'
  <2>1. \A o \in Objects : db'.shape[o] \subseteq steps[o]
    BY <1>2, <1>5 DEF TypeOK
  <2>2. opened' \in {"never", "ok", "schema_error", "failed"}
    BY <1>1 DEF Outcomes
  <2> QED BY <1>1, <1>2, <1>3, <2>1, <2>2 DEF TypeOK
<1>7. WithinStamp'
  <2> SUFFICES ASSUME ~overtaken, NEW o \in Objects, NEW k \in db'.shape[o]
               PROVE  k <= db'.version
    BY <1>1 DEF WithinStamp
  <2>1. CASE k \in db.shape[o]
    <3>1. k \in 1..Latest /\ k <= db.version
      BY <1>2, <2>1 DEF TypeOK, Databases, WithinStamp
    <3> QED BY <1>3, <1>4, <3>1
  <2> QED BY <1>5, <2>1
<1>8. \A o \in Objects : Missing(db', o) => Missing(db, o)
  BY <1>5 DEF Missing
<1>9. ReadIsOlder'
  <2>1. ASSUME NEW r \in snapshot PROVE r.version <= db'.version
    <3>1. r.version \in 1..Latest /\ r.version <= db.version
      BY <1>2 DEF TypeOK, ReadIsOlder
    <3> QED BY <1>3, <1>4, <3>1
  <2>2. ASSUME NEW names \in listed, NEW o \in names
        PROVE  ~ Missing(db', o)
    <3>1. o \in Objects /\ ~ Missing(db, o)
      BY <1>2 DEF TypeOK, ReadIsOlder
    <3> QED BY <1>8, <3>1
  <2> QED BY <1>1, <2>1, <2>2 DEF ReadIsOlder, Missing
<1>10. RepairedHas'
  <2>1. \A o \in Objects : Shape(o, repairedBy)' = Shape(o, repairedBy)
    BY <1>1 DEF Shape
  <2>2. \A o \in Objects : Missing(db, o)' = Missing(db', o)
    BY DEF Missing
  <2> SUFFICES ASSUME repairedBy # 0,
                      NEW o \in Objects, Shape(o, repairedBy) # {}
               PROVE  /\ ~ Missing(db', o)
                      /\ \A names \in listed : o \in names
    BY <1>1, <2>1, <2>2 DEF RepairedHas
  <2> QED BY <1>2, <1>8 DEF RepairedHas
<1>11. CoveredHas'
  <2> SUFFICES ASSUME covered, ~overtaken,
                      NEW o \in Objects, db'.shape[o] = {}
               PROVE  Created(o) > db'.version
    BY <1>1 DEF CoveredHas, Missing, Created
  <2>1. Created(o) \in steps[o] /\ Created(o) \in 1..Latest
    BY <1>4, History
  <2>2. Created(o) > db.version
    BY <1>2, <1>8 DEF CoveredHas, Missing
  <2>3. CASE db' = db
    BY <2>2, <2>3
  <2>4. CASE db' = After(db, db'.version)
    <3>1. ~(db.version < Created(o) /\ Created(o) <= db'.version)
      BY <2>1, <2>4, AfterShape
    <3> QED BY <1>4, <2>1, <2>2, <3>1
  <2> QED BY <1>3, <2>3, <2>4
<1>12. ErrorIsOlder'
  <2> SUFFICES ASSUME opened' = "schema_error"
               PROVE  db'.version < lib /\ ~Runs(db', db'.version + 1)
    BY <1>1 DEF ErrorIsOlder, Stuck, Runs, Missing, Created
  <2>1. ~(db'.version >= lib)
    BY <1>1 DEF Outcomes
  <2> QED BY <1>1, <1>2, <1>4, <2>1, OpenStops
<1>13. CarefulRepair'
  <2> SUFFICES ASSUME careful
               PROVE  /\ seed <= db'.version /\ ~overtaken
                      /\ \A r \in snapshot :
                            /\ r.version = db'.version
                            /\ db'.version < r.lib
                            /\ ~Runs(db', db'.version + 1)
                      /\ repairedBy # 0 =>
                            covered /\ snapshot = {}
                            /\ opened' # "schema_error"
    BY <1>1 DEF CarefulRepair, Stuck, Runs, Missing, Created
  <2>1. seed <= db'.version /\ ~overtaken
    BY <1>2, <1>3, <1>4 DEF CarefulRepair
  <2>2. covered => opened' # "schema_error"
    BY <1>1, <1>2, <2>1, CoveredOpens DEF Opens, Outcomes
  <2>3. ASSUME NEW r \in snapshot
        PROVE  /\ r.version = db'.version /\ db'.version < r.lib
               /\ ~Runs(db', db'.version + 1)
    <3>1. r.version = db.version /\ db.version < r.lib /\ Stuck
      BY <1>2 DEF CarefulRepair
    <3>2. db' = db
      BY <1>1, <1>2, <3>1, StuckStays
    <3> QED BY <3>1, <3>2 DEF Stuck
  <2> QED BY <1>2, <2>1, <2>2, <2>3 DEF CarefulRepair
<1>14. CarefulShape'
  <2>1. \A o \in Objects : Created(o)' = Created(o)
    BY <1>1 DEF Created
  <2>2. AltersOnlyDropped' = AltersOnlyDropped
    BY <1>1 DEF AltersOnlyDropped, Created
  <2>3. \A o \in Objects : Shape(o, db.version)' = Shape(o, db'.version)
    BY <1>1 DEF Shape
  <2> SUFFICES ASSUME careful, AltersOnlyDropped, NEW o \in Objects
               PROVE  IF repairedBy = 0 /\ o \notin Kept /\ Created(o) <= seed
                      THEN Missing(db', o)
                      ELSE db'.shape[o] = Shape(o, db'.version)
    BY <1>1, <2>1, <2>2, <2>3 DEF CarefulShape, Missing
  <2>4. CASE repairedBy = 0 /\ o \notin Kept /\ Created(o) <= seed
    <3>1. Missing(db, o)
      BY <1>2, <2>4 DEF CarefulShape
    <3>2. Created(o) <= db.version
      <4>1. Created(o) \in 1..Latest /\ seed <= db.version
        BY <1>2, <1>4, History DEF CarefulRepair
      <4> QED BY <1>4, <2>4, <4>1
    <3>3. Missing(db', o)
      BY <1>1, <1>2, <3>1, <3>2, DroppedUntouched
    <3> QED BY <2>4, <3>3
  <2>5. CASE ~(repairedBy = 0 /\ o \notin Kept /\ Created(o) <= seed)
    <3>1. db.shape[o] = Shape(o, db.version)
      BY <1>2, <2>5 DEF CarefulShape
    <3> QED BY <1>1, <1>2, <2>5, <3>1, ShapeKeepsUp
  <2> QED BY <2>4, <2>5
<1> QED BY <1>6, <1>7, <1>9, <1>10, <1>11, <1>12, <1>13, <1>14
        DEF RepairInvariant

\* Another image may be deployed at any time, also during a repair.
LEMMA ChangeLibraryStep == RepairInvariant /\ ChangeLibrary => RepairInvariant'
<1> SUFFICES ASSUME RepairInvariant, ChangeLibrary PROVE RepairInvariant'
  OBVIOUS
<1>1. /\ lib' \in 1..Latest /\ opened' = "never" /\ db' = db
      /\ steps' = steps /\ seed' = seed /\ careful' = careful
      /\ snapshot' = snapshot /\ listed' = listed
      /\ repairedBy' = repairedBy /\ covered' = covered
      /\ overtaken' = overtaken
  BY DEF ChangeLibrary, deployment, reads, repairs
<1>2. TypeOK'
  BY <1>1 DEF RepairInvariant, TypeOK
<1>3. WithinStamp' /\ ReadIsOlder' /\ ErrorIsOlder'
  BY <1>1 DEF RepairInvariant, WithinStamp, ReadIsOlder, ErrorIsOlder, Missing
<1>4. RepairedHas' /\ CoveredHas'
  BY <1>1 DEF RepairInvariant, RepairedHas, CoveredHas, Shape, Missing,
              Created
<1>5. CarefulRepair'
  BY <1>1 DEF RepairInvariant, CarefulRepair, Stuck, Runs, Missing, Created
<1>6. CarefulShape'
  BY <1>1 DEF RepairInvariant, CarefulShape, AltersOnlyDropped, Shape, Missing,
              Created
<1> QED BY <1>2, <1>3, <1>4, <1>5, <1>6 DEF RepairInvariant

-----------------------------------------------------------------------------
(* repair.DB.                                                               *)

LEMMA ReadVersionStep == RepairInvariant /\ ReadVersion => RepairInvariant'
<1> SUFFICES ASSUME RepairInvariant, ReadVersion PROVE RepairInvariant'
  OBVIOUS
<1>1. /\ careful => opened = "schema_error"
      /\ snapshot = {} /\ snapshot' = {[lib |-> lib, version |-> db.version]}
      /\ steps' = steps /\ seed' = seed /\ careful' = careful
      /\ db' = db /\ lib' = lib /\ opened' = opened /\ listed' = listed
      /\ repairedBy' = repairedBy /\ covered' = covered
      /\ overtaken' = overtaken
  BY DEF ReadVersion, deployment, repairs
<1>2. db.version \in 1..Latest /\ lib \in 1..Latest /\ Latest \in Nat
  BY RepairAssumption DEF RepairInvariant, TypeOK, Databases
<1>3. TypeOK'
  <2>1. Cardinality(snapshot') <= 1
    BY <1>1, OneElement
  <2>2. /\ snapshot' \subseteq [lib : 1..Latest, version : 1..Latest]
        /\ snapshot' # {}
    BY <1>1, <1>2
  <2> QED BY <1>1, <2>1, <2>2 DEF RepairInvariant, TypeOK
<1>4. WithinStamp' /\ ErrorIsOlder'
  BY <1>1 DEF RepairInvariant, WithinStamp, ErrorIsOlder, Stuck, Runs, Missing,
              Created
<1>5. ReadIsOlder'
  BY <1>1, <1>2 DEF RepairInvariant, ReadIsOlder, Missing
<1>6. RepairedHas' /\ CoveredHas'
  BY <1>1 DEF RepairInvariant, RepairedHas, CoveredHas, Shape, Missing,
              Created
<1>7. CarefulRepair'
  <2>1. careful => repairedBy = 0 /\ db.version < lib /\ Stuck
    BY <1>1 DEF RepairInvariant, CarefulRepair, ErrorIsOlder
  <2>2. careful => seed <= db.version /\ ~overtaken
    BY DEF RepairInvariant, CarefulRepair
  <2>3. Stuck' = Stuck
    BY <1>1 DEF Stuck, Runs, Missing, Created
  <2>4. \A r \in snapshot' : r.lib = lib /\ r.version = db.version
    BY <1>1
  <2> QED BY <1>1, <2>1, <2>2, <2>3, <2>4 DEF CarefulRepair
<1>8. CarefulShape'
  BY <1>1 DEF RepairInvariant, CarefulShape, AltersOnlyDropped, Shape, Missing,
              Created
<1> QED BY <1>3, <1>4, <1>5, <1>6, <1>7, <1>8 DEF RepairInvariant

LEMMA ReadNamesStep == RepairInvariant /\ ReadNames => RepairInvariant'
<1> SUFFICES ASSUME RepairInvariant, ReadNames PROVE RepairInvariant'
  OBVIOUS
<1>1. /\ snapshot # {} /\ listed' = {{o \in Objects : ~ Missing(db, o)}}
      /\ steps' = steps /\ seed' = seed /\ careful' = careful
      /\ db' = db /\ lib' = lib /\ opened' = opened /\ snapshot' = snapshot
      /\ repairedBy' = repairedBy /\ covered' = covered
      /\ overtaken' = overtaken
  BY DEF ReadNames, deployment, repairs
<1>2. TypeOK'
  <2>1. Cardinality(listed') <= 1
    BY <1>1, OneElement
  <2>2. listed' \subseteq SUBSET Objects
    BY <1>1
  <2> QED BY <1>1, <2>1, <2>2 DEF RepairInvariant, TypeOK
<1>3. WithinStamp' /\ ReadIsOlder' /\ ErrorIsOlder'
  BY <1>1 DEF RepairInvariant, WithinStamp, ReadIsOlder, ErrorIsOlder, Stuck,
              Runs, Missing, Created
<1>4. RepairedHas' /\ CoveredHas'
  BY <1>1 DEF RepairInvariant, RepairedHas, CoveredHas, Shape, Missing,
              Created
<1>5. CarefulRepair'
  BY <1>1 DEF RepairInvariant, CarefulRepair, Stuck, Runs, Missing, Created
<1>6. CarefulShape'
  BY <1>1 DEF RepairInvariant, CarefulShape, AltersOnlyDropped, Shape, Missing,
              Created
<1> QED BY <1>2, <1>3, <1>4, <1>5, <1>6 DEF RepairInvariant

LEMMA AbortStep == RepairInvariant /\ Abort => RepairInvariant'
<1> SUFFICES ASSUME RepairInvariant, Abort PROVE RepairInvariant'
  OBVIOUS
<1>1. /\ snapshot' = {} /\ listed' = {}
      /\ steps' = steps /\ seed' = seed /\ careful' = careful
      /\ db' = db /\ lib' = lib /\ opened' = opened
      /\ repairedBy' = repairedBy /\ covered' = covered
      /\ overtaken' = overtaken
  BY DEF Abort, deployment, repairs
<1>2. TypeOK'
  BY <1>1, FS_EmptySet DEF RepairInvariant, TypeOK
<1>3. WithinStamp' /\ ReadIsOlder' /\ ErrorIsOlder'
  BY <1>1 DEF RepairInvariant, WithinStamp, ReadIsOlder, ErrorIsOlder, Stuck,
              Runs, Missing, Created
<1>4. RepairedHas' /\ CoveredHas'
  BY <1>1 DEF RepairInvariant, RepairedHas, CoveredHas, Shape, Missing,
              Created
<1>5. CarefulRepair'
  BY <1>1 DEF RepairInvariant, CarefulRepair
<1>6. CarefulShape'
  BY <1>1 DEF RepairInvariant, CarefulShape, AltersOnlyDropped, Shape, Missing,
              Created
<1> QED BY <1>2, <1>3, <1>4, <1>5, <1>6 DEF RepairInvariant

\* What a repair recreates: all that its library knows and that was missing
\* when it read the mirror.
LEMMA WantedIs ==
    ASSUME NEW r, NEW names, NEW o \in Objects
    PROVE  o \in Wanted(r, names) <=> Shape(o, r.lib) # {} /\ o \notin names
BY DEF Wanted, Missing, Pristine

\* What a repair leaves of each object, and the stamp that goes with it.
LEMMA Repairs ==
    ASSUME RepairInvariant, NEW r \in snapshot, NEW names \in listed,
           db' = IF Wanted(r, names) = {} THEN db ELSE Recreated(r, names)
    PROVE  /\ db' \in Databases
           /\ ~Overtaken(r) => db.version <= db'.version
           /\ \/ db'.version = db.version
              \/ db'.version = r.lib /\ r.version < r.lib
           /\ Wanted(r, names) # {} /\ r.version < r.lib
                  => db'.version = r.lib
           /\ \A o \in Objects :
                 \/ db'.shape[o] = db.shape[o] /\ o \notin Wanted(r, names)
                 \/ db'.shape[o] = Shape(o, r.lib) /\ o \in Wanted(r, names)
<1>1. /\ db \in Databases /\ r.lib \in 1..Latest /\ Latest \in Nat
      /\ db.version \in 1..Latest /\ r.version \in 1..Latest
      /\ steps \in Schemas
  BY RepairAssumption DEF RepairInvariant, TypeOK, Databases
<1>2. ~Overtaken(r) => db.version <= r.lib \/ db.version = r.version
  BY <1>1 DEF Overtaken
<1>3. CASE Wanted(r, names) = {}
  BY <1>1, <1>3
<1>4. CASE Wanted(r, names) # {}
  <2>1. /\ db'.version = IF r.lib > r.version THEN r.lib ELSE db.version
        /\ db'.shape = [o \in Objects |->
               IF o \in Wanted(r, names) THEN Shape(o, r.lib)
               ELSE db.shape[o]]
        /\ db' = [version |-> db'.version, shape |-> db'.shape]
    BY <1>4 DEF Recreated, Stamp
  <2>2. \A o \in Objects : Shape(o, r.lib) \in SUBSET (1..Latest)
    BY <1>1, History DEF Shape
  <2>3. \A o \in Objects : db.shape[o] \in SUBSET (1..Latest)
    BY <1>1 DEF Databases
  <2>4. db'.shape \in [Objects -> SUBSET (1..Latest)]
    BY <2>1, <2>2, <2>3
  <2>5. db'.version \in 1..Latest
    BY <1>1, <2>1
  <2>6. db' \in Databases
    BY <2>1, <2>4, <2>5 DEF Databases
  <2>7. /\ ~Overtaken(r) => db.version <= db'.version
        /\ \/ db'.version = db.version
           \/ db'.version = r.lib /\ r.version < r.lib
        /\ r.version < r.lib => db'.version = r.lib
    BY <1>1, <1>2, <2>1
  <2>8. \A o \in Objects :
           \/ db'.shape[o] = db.shape[o] /\ o \notin Wanted(r, names)
           \/ db'.shape[o] = Shape(o, r.lib) /\ o \in Wanted(r, names)
    BY <2>1
  <2> QED BY <2>6, <2>7, <2>8
<1> QED BY <1>3, <1>4

LEMMA CommitStep == RepairInvariant /\ Commit => RepairInvariant'
<1> SUFFICES ASSUME RepairInvariant, Commit PROVE RepairInvariant'
  OBVIOUS
<1>1. PICK r \in snapshot, names \in listed :
          /\ db' = IF Wanted(r, names) = {} THEN db ELSE Recreated(r, names)
          /\ snapshot' = {} /\ listed' = {} /\ opened' = "never"
          /\ repairedBy' = r.lib
          /\ covered' = (covered \/ r.lib >= db.version)
          /\ overtaken' = (overtaken \/ Overtaken(r))
          /\ steps' = steps /\ seed' = seed /\ careful' = careful
          /\ lib' = lib
  BY DEF Commit, deployment
<1>2. /\ TypeOK /\ WithinStamp /\ ReadIsOlder /\ RepairedHas /\ CoveredHas
      /\ CarefulRepair /\ CarefulShape
  BY DEF RepairInvariant
<1>3. /\ db' \in Databases
      /\ ~Overtaken(r) => db.version <= db'.version
      /\ \/ db'.version = db.version
         \/ db'.version = r.lib /\ r.version < r.lib
      /\ Wanted(r, names) # {} /\ r.version < r.lib => db'.version = r.lib
  BY <1>1, Repairs
<1>4. ASSUME NEW o \in Objects
      PROVE  \/ db'.shape[o] = db.shape[o] /\ o \notin Wanted(r, names)
             \/ db'.shape[o] = Shape(o, r.lib) /\ o \in Wanted(r, names)
  BY <1>1, Repairs
<1>5. /\ db.version \in 1..Latest /\ r.version \in 1..Latest
      /\ db'.version \in 1..Latest /\ seed \in 1..Latest
      /\ r.lib \in 1..Latest /\ lib \in 1..Latest /\ Latest \in Nat
      /\ steps \in Schemas
  BY <1>2, <1>3, RepairAssumption DEF TypeOK, Databases
<1>6. /\ r.version <= db.version
      /\ \A o \in names : ~ Missing(db, o)
      /\ ~Overtaken(r) => db.version <= r.lib \/ db.version = r.version
  BY <1>2, <1>5 DEF ReadIsOlder, Overtaken
<1>7. ASSUME NEW o \in Objects, o \notin Wanted(r, names), Shape(o, r.lib) # {}
      PROVE  ~ Missing(db, o)
  BY <1>6, <1>7, WantedIs
<1>8. ASSUME NEW o \in Objects
      PROVE  Missing(db', o) => Missing(db, o) /\ Shape(o, r.lib) = {}
  BY <1>4, <1>7, WantedIs DEF Missing
<1>9. TypeOK'
  <2>1. \A o \in Objects : db'.shape[o] \subseteq steps[o]
    BY <1>2, <1>4 DEF TypeOK, Shape
  <2>2. repairedBy' \in 0..Latest /\ lib' \in 1..Latest
    BY <1>1, <1>5
  <2>3. Cardinality(snapshot') <= 1 /\ Cardinality(listed') <= 1
    BY <1>1, FS_EmptySet
  <2>4. /\ snapshot' \subseteq [lib : 1..Latest, version : 1..Latest]
        /\ listed' \subseteq SUBSET Objects
        /\ listed' # {} => snapshot' # {}
    BY <1>1
  <2>5. covered' \in BOOLEAN /\ overtaken' \in BOOLEAN
    BY <1>1, <1>2, Zenon DEF TypeOK, Overtaken
  <2>6. opened' \in {"never", "ok", "schema_error", "failed"}
    BY <1>1
  <2> QED BY <1>1, <1>2, <1>3, <2>1, <2>2, <2>3, <2>4, <2>5, <2>6
          DEF TypeOK
<1>10. WithinStamp'
  <2> SUFFICES ASSUME ~overtaken, ~Overtaken(r),
                      NEW o \in Objects, NEW k \in db'.shape[o]
               PROVE  k <= db'.version
    BY <1>1 DEF WithinStamp
  <2>1. k \in 1..Latest
    BY <1>3 DEF Databases
  <2>2. CASE k \in db.shape[o]
    BY <1>2, <1>3, <1>5, <2>1, <2>2 DEF WithinStamp
  <2>3. CASE k \in Shape(o, r.lib) /\ o \in Wanted(r, names)
    <3>1. k <= r.lib
      BY <2>3 DEF Shape
    <3>2. r.lib <= db'.version
      BY <1>3, <1>5, <1>6, <2>3
    <3> QED BY <1>5, <2>1, <3>1, <3>2
  <2> QED BY <1>4, <2>2, <2>3
<1>11. ReadIsOlder' /\ ErrorIsOlder'
  BY <1>1 DEF ReadIsOlder, ErrorIsOlder
<1>12. RepairedHas'
  <2> SUFFICES ASSUME NEW o \in Objects, Shape(o, r.lib) # {}
               PROVE  ~ Missing(db', o)
    BY <1>1 DEF RepairedHas, Shape, Missing
  <2> QED BY <1>8
<1>13. CoveredHas'
  <2> SUFFICES ASSUME covered', ~overtaken, ~Overtaken(r),
                      NEW o \in Objects, Missing(db', o)
               PROVE  Created(o) > db'.version
    BY <1>1 DEF CoveredHas, Missing, Created
  <2>1. Missing(db, o) /\ ~(Created(o) <= r.lib)
    BY <1>5, <1>8, ShapeFrom
  <2>2. Created(o) \in 1..Latest
    BY <1>5, History
  <2>3. CASE covered
    <3>1. Created(o) > db.version
      BY <1>2, <2>1, <2>3 DEF CoveredHas
    <3> QED BY <1>3, <1>5, <2>1, <2>2, <3>1
  <2>4. CASE r.lib >= db.version
    BY <1>3, <1>5, <1>6, <2>1, <2>2, <2>4
  <2> QED BY <1>1, <2>3, <2>4
<1>14. careful => /\ repairedBy = 0 /\ seed <= db.version /\ ~overtaken
                  /\ r.version = db.version /\ db.version < r.lib
                  /\ ~Overtaken(r)
  BY <1>2 DEF CarefulRepair, Overtaken
<1>15. CarefulRepair'
  <2> SUFFICES ASSUME careful
               PROVE  seed <= db'.version /\ covered' /\ ~overtaken'
    BY <1>1 DEF CarefulRepair
  <2>1. seed <= db'.version
    BY <1>3, <1>5, <1>14
  <2>2. r.lib >= db.version
    BY <1>5, <1>14
  <2>3. covered' /\ ~overtaken'
    BY <1>1, <1>14, <2>2, Zenon
  <2> QED BY <2>1, <2>3
<1>16. CarefulShape'
  <2>1. \A o \in Objects : Shape(o, db.version)' = Shape(o, db'.version)
    BY <1>1 DEF Shape
  <2>2. AltersOnlyDropped' = AltersOnlyDropped
    BY <1>1 DEF AltersOnlyDropped, Created
  <2>3. repairedBy' # 0
    BY <1>1, <1>5
  <2> SUFFICES ASSUME careful, AltersOnlyDropped, NEW o \in Objects
               PROVE  db'.shape[o] = Shape(o, db'.version)
    BY <1>1, <2>1, <2>2, <2>3 DEF CarefulShape
  <2>4. repairedBy = 0 /\ r.version < r.lib /\ seed <= db.version
    BY <1>14
  <2>5. db.version <= r.lib /\ db.version <= db'.version
    BY <1>3, <1>5, <1>14
  <2>6. /\ Created(o) \in 1..Latest /\ Created(o) \in steps[o]
        /\ steps[o] \subseteq 1..Latest
    BY <1>5, History
  <2>7. CASE o \in Wanted(r, names)
    <3>1. Wanted(r, names) # {}
      BY <2>7
    <3>2. db'.version = r.lib
      BY <1>3, <2>4, <3>1
    <3> QED BY <1>4, <2>7, <3>2
  <2>8. CASE o \notin Wanted(r, names) /\ Shape(o, r.lib) = {}
    <3>1. Created(o) > r.lib
      BY <1>5, <2>6, <2>8, ShapeFrom
    <3>2. db.shape[o] = {}
      <4>1. \A k \in db.shape[o] : k \in steps[o] /\ k <= db.version
        BY <1>2, <1>14 DEF TypeOK, WithinStamp
      <4>2. \A k \in steps[o] : k \in Nat /\ Created(o) <= k
        BY <1>5, <2>6, History
      <4> QED BY <1>5, <2>5, <2>6, <3>1, <4>1, <4>2
    <3>3. Shape(o, db'.version) = {}
      <4>1. ~(Created(o) <= db'.version)
        BY <1>3, <1>5, <2>5, <2>6, <3>1
      <4> QED BY <1>5, <4>1, ShapeFrom
    <3> QED BY <1>4, <2>8, <3>2, <3>3
  <2>9. CASE o \notin Wanted(r, names) /\ Shape(o, r.lib) # {}
    <3>1. ~ Missing(db, o)
      BY <1>7, <2>9
    <3>2. /\ db.shape[o] = Shape(o, db.version)
          /\ o \in Kept \/ ~(Created(o) <= seed)
      BY <1>2, <2>4, <3>1 DEF CarefulShape
    <3>3. steps[o] = {Created(o)}
      BY <3>2 DEF AltersOnlyDropped
    <3>4. db.shape[o] = {Created(o)} /\ Created(o) <= db.version
      BY <3>1, <3>2, <3>3 DEF Shape, Missing
    <3>5. Created(o) <= db'.version
      BY <1>3, <1>5, <2>5, <2>6, <3>4
    <3>6. Shape(o, db'.version) = {Created(o)}
      BY <3>3, <3>5 DEF Shape
    <3> QED BY <1>4, <2>9, <3>4, <3>6
  <2> QED BY <2>7, <2>8, <2>9
<1> QED BY <1>9, <1>10, <1>11, <1>12, <1>13, <1>15, <1>16
        DEF RepairInvariant

-----------------------------------------------------------------------------
(* The theorems.                                                            *)

\* The invariant holds whatever is dropped, deployed, opened and repaired,
\* in any order (repair.DB, runMain).
THEOREM RepairCorrect == Spec => []RepairInvariant
<1>1. Init => RepairInvariant
  BY InitRepair
<1>2. RepairInvariant /\ [Next]_vars => RepairInvariant'
  <2> SUFFICES ASSUME RepairInvariant, [Next]_vars PROVE RepairInvariant'
    OBVIOUS
  <2>1. CASE Open
    BY <2>1, OpenStep
  <2>2. CASE ChangeLibrary
    BY <2>2, ChangeLibraryStep
  <2>3. CASE ReadVersion
    BY <2>3, ReadVersionStep
  <2>4. CASE ReadNames
    BY <2>4, ReadNamesStep
  <2>5. CASE Commit
    BY <2>5, CommitStep
  <2>6. CASE Abort
    BY <2>6, AbortStep
  <2>7. CASE UNCHANGED vars
    <3>1. /\ steps' = steps /\ seed' = seed /\ careful' = careful
          /\ db' = db /\ lib' = lib /\ opened' = opened
          /\ snapshot' = snapshot /\ listed' = listed
          /\ repairedBy' = repairedBy /\ covered' = covered
          /\ overtaken' = overtaken
      BY <2>7 DEF vars, deployment, reads, repairs
    <3> QED BY <3>1
            DEF RepairInvariant, TypeOK, WithinStamp, ReadIsOlder, RepairedHas,
                CoveredHas, ErrorIsOlder, CarefulRepair, CarefulShape, Stuck,
                Runs, AltersOnlyDropped, Shape, Missing, Created
  <2> QED BY <2>1, <2>2, <2>3, <2>4, <2>5, <2>6, <2>7 DEF Next
<1> QED BY <1>1, <1>2, PTL DEF Spec

\* Every state has its type, and no object has a shape no migration made.
THEOREM TypeCorrect == Spec => []TypeOK
<1>1. RepairInvariant => TypeOK
  BY DEF RepairInvariant
<1> QED BY <1>1, RepairCorrect, PTL

\* Once a library not older than the mirror has repaired it, every library
\* opens it, unless a newer one overtook a repair (repair_test.go:12-14).
THEOREM OpensAfterRepair == Spec => []RepairedOpens
<1>1. RepairInvariant => RepairedOpens
  BY CoveredOpens DEF RepairInvariant, RepairedOpens
<1> QED BY <1>1, RepairCorrect, PTL

\* A database repaired as documented has the schema of its stamp, where
\* migrations alter only what the seed was stripped of (repair.go:15, 22-26).
THEOREM RepairReconciles == Spec => []Reconciled
<1>1. RepairInvariant => Reconciled
  BY DEF RepairInvariant, CarefulShape, Reconciled, IsReconciled
<1> QED BY <1>1, RepairCorrect, PTL

\* The second repair by a library finds nothing missing, whatever other images
\* opened or repaired in between, or during it (repair_test.go:60).
THEOREM SecondRepair == Spec => SecondRepairIsNoop
<1>1. ASSUME RepairInvariant, Commit, \A r \in snapshot : r.lib = repairedBy
      PROVE  UNCHANGED db
  <2>1. PICK r \in snapshot, names \in listed :
            db' = IF Wanted(r, names) = {} THEN db ELSE Recreated(r, names)
    BY <1>1 DEF Commit
  <2>2. r.lib = repairedBy /\ repairedBy # 0
    BY <1>1, RepairAssumption DEF RepairInvariant, TypeOK
  <2>3. \A o \in Objects : Shape(o, r.lib) # {} => o \in names
    BY <1>1, <2>2 DEF RepairInvariant, RepairedHas
  <2>4. \A o \in Objects : o \notin Wanted(r, names)
    BY <2>3, WantedIs
  <2>5. Wanted(r, names) = {}
    BY <2>4 DEF Wanted
  <2> QED BY <2>1, <2>5
<1>2. RepairInvariant /\ [Next]_vars
          => [Commit /\ (\A r \in snapshot : r.lib = repairedBy)
              => UNCHANGED db]_vars
  BY <1>1
<1> QED BY <1>2, RepairCorrect, PTL DEF Spec, SecondRepairIsNoop

=============================================================================
