--------------------------- MODULE RetentionProofs ---------------------------
(***************************************************************************)
(* Theorems about Retention, for every number of snapshots, of processes    *)
(* that prune and of snapshots to keep.  PruneInvariant is inductive: the   *)
(* snapshots one process has doomed are outlived by Keep others that nobody *)
(* has doomed, and a new listing can only doom what is older than those.    *)
(***************************************************************************)
EXTENDS Retention, FiniteSetTheorems, TLAPS

-----------------------------------------------------------------------------
(* Sets of snapshots.                                                       *)

\* A listing is finite, and so is every part of it.
LEMMA PresentFinite ==
    /\ IsFiniteSet(Present) /\ Present \subseteq Keys
    /\ \A S \in SUBSET Present : IsFiniteSet(S) /\ Cardinality(S) \in Nat
<1>1. IsFiniteSet(Keys)
  BY FS_Interval, RetentionAssumption DEF Keys
<1>2. Present \subseteq Keys
  BY DEF Present
<1>3. IsFiniteSet(Present)
  BY <1>1, <1>2, FS_Subset
<1>4. ASSUME NEW S \in SUBSET Present
      PROVE  IsFiniteSet(S) /\ Cardinality(S) \in Nat
  BY <1>3, FS_Subset, FS_CardinalityType
<1> QED BY <1>2, <1>3, <1>4

\* What a request names was doomed by the process that sends it.
LEMMA RequestIsDoomed ==
    ASSUME NEW p \in Pruners PROVE Request(p) \subseteq doomed[p]
BY DEF Request

\* The newest Keep snapshots of a listing are nobody's prey: an older one
\* that is doomed would be outlived by Keep others of them (PruneArchives,
\* PruneDBBackups).
LEMMA NewestAreSafe ==
    ASSUME TypeOK, DoomedAreOld,
           NEW gone \in SUBSET Present, Beyond(Present, gone)
    PROVE  (Present \ gone) \cap Doomed = {}
<1> DEFINE T == Present \ gone
<1>1. SUFFICES ASSUME NEW j \in T, j \in Doomed PROVE FALSE
  OBVIOUS
<1>2. PICK kept \in SUBSET Present :
        /\ Cardinality(kept) = Keep
        /\ \A i \in kept : i > j /\ i \notin Doomed
  BY <1>1 DEF DoomedAreOld, Outlived
<1>3. kept \subseteq T
  <2>1. \A g \in gone : g \in Int /\ g < j
    BY <1>1, PresentFinite, RetentionAssumption DEF Beyond, Keys
  <2> QED BY <1>1, <1>2, <2>1, PresentFinite DEF Keys
<1>4. j \notin kept
  BY <1>1, <1>2, PresentFinite DEF Keys
<1>5. Cardinality(T) = Keep /\ IsFiniteSet(T)
  BY PresentFinite DEF Beyond
<1>6. kept = T
  BY <1>2, <1>3, <1>5, FS_Subset
<1> QED BY <1>1, <1>4, <1>6

-----------------------------------------------------------------------------
(* PruneInvariant.                                                          *)

LEMMA InitPrune == Init => PruneInvariant
<1> SUFFICES ASSUME Init PROVE PruneInvariant
  OBVIOUS
<1>1. TypeOK
  BY RetentionAssumption DEF Init, TypeOK
<1>2. Doomed = {}
  BY DEF Init, Doomed
<1> QED BY <1>1, <1>2 DEF PruneInvariant, DoomedAreOld

LEMMA TypePreserved == TypeOK /\ [Next]_vars => TypeOK'
<1> SUFFICES ASSUME TypeOK, [Next]_vars PROVE TypeOK'
  OBVIOUS
<1> USE RetentionAssumption
<1>1. CASE BeginUpload
  BY <1>1 DEF BeginUpload, TypeOK, Keys
<1>2. ASSUME NEW k \in Keys, Put(k) PROVE TypeOK'
  BY <1>2 DEF Put, TypeOK
<1>3. ASSUME NEW k \in Keys, AbandonUpload(k) PROVE TypeOK'
  BY <1>3 DEF AbandonUpload, TypeOK
<1>4. ASSUME NEW p \in Pruners, List(p) PROVE TypeOK'
  BY <1>4, PresentFinite DEF List, TypeOK
<1>5. ASSUME NEW p \in Pruners, Delete(p) PROVE TypeOK'
  BY <1>5 DEF Delete, TypeOK
<1>6. ASSUME NEW p \in Pruners, DeletePartly(p) PROVE TypeOK'
  <2>1. store' \in [Keys -> SUBSET Parts]
    BY <1>6 DEF DeletePartly, TypeOK
  <2>2. doomed' \in [Pruners -> SUBSET Keys]
    BY <1>6 DEF DeletePartly, TypeOK
  <2> QED BY <1>6, <2>1, <2>2 DEF DeletePartly, TypeOK
<1>7. CASE Latest
  BY <1>7, PresentFinite DEF Latest, TypeOK
<1>8. CASE Get
  BY <1>8 DEF Get, TypeOK
<1>9. CASE UNCHANGED vars
  BY <1>9 DEF vars, TypeOK
<1> QED BY <1>1, <1>2, <1>3, <1>4, <1>5, <1>6, <1>7, <1>8, <1>9 DEF Next

\* A step that dooms no snapshot, and takes no snapshot from the listing but
\* doomed ones, leaves the outlived ones outlived.
LEMMA OutlivedKept ==
    ASSUME DoomedAreOld, Doomed' \subseteq Doomed,
           Present \ Present' \subseteq Doomed
    PROVE  DoomedAreOld'
<1> SUFFICES ASSUME NEW k \in Doomed' PROVE Outlived(k)'
  BY DEF DoomedAreOld
<1>1. PICK kept \in SUBSET Present :
        /\ Cardinality(kept) = Keep
        /\ \A j \in kept : j > k /\ j \notin Doomed
  BY DEF DoomedAreOld, Outlived
<1>2. kept \in SUBSET Present'
  BY <1>1
<1>3. \A j \in kept : j > k /\ j \notin Doomed'
  BY <1>1
<1> QED BY <1>1, <1>2, <1>3 DEF Outlived

\* What deletions take from the listing was doomed.
LEMMA DeletedWereDoomed ==
    ASSUME TypeOK, NEW p \in Pruners, Delete(p) \/ DeletePartly(p)
    PROVE  Doomed' \subseteq Doomed /\ Present \ Present' \subseteq Doomed
<1>1. \A q \in Pruners : doomed'[q] \subseteq doomed[q]
  BY DEF Delete, DeletePartly, TypeOK
<1>2. Doomed' \subseteq Doomed
  BY <1>1 DEF Doomed
<1>3. \A k \in Keys : k \notin Request(p) => store'[k] = store[k]
  <2>1. CASE Delete(p)
    BY <2>1 DEF Delete
  <2>2. CASE DeletePartly(p)
    BY <2>2 DEF DeletePartly
  <2> QED BY <2>1, <2>2
<1>4. Present \ Present' \subseteq Request(p)
  BY <1>3 DEF Present
<1> QED BY <1>2, <1>4, RequestIsDoomed DEF Doomed

\* Uploads and restores doom nothing and delete nothing.
LEMMA OthersDoomNothing ==
    ASSUME TypeOK,
           \/ BeginUpload \/ Latest \/ Get \/ UNCHANGED vars
           \/ \E k \in Keys : Put(k) \/ AbandonUpload(k)
    PROVE  Doomed' \subseteq Doomed /\ Present \ Present' = {}
<1>1. doomed' = doomed
  BY DEF BeginUpload, Latest, Get, vars, Put, AbandonUpload
<1>2. \A k \in Keys : store[k] # {} => store'[k] # {}
  BY DEF BeginUpload, Latest, Get, vars, Put, AbandonUpload, TypeOK
<1> QED BY <1>1, <1>2 DEF Doomed, Present

\* A listing dooms only what is outlived by Keep others, and the snapshots
\* that outlive what was doomed before are either not doomed now, or older
\* than the newest Keep of this listing.
LEMMA ListPreserves ==
    ASSUME TypeOK, DoomedAreOld, NEW p \in Pruners, List(p)
    PROVE  DoomedAreOld'
<1>1. Present' = Present
  BY DEF List, Present
<1>2. PICK gone \in SUBSET Present :
        /\ IF Cardinality(Present) <= Keep THEN gone = {}
           ELSE Beyond(Present, gone)
        /\ doomed' = [doomed EXCEPT ![p] = gone]
  BY DEF List
<1>3. Doomed' \subseteq Doomed \cup gone
  BY <1>2 DEF Doomed, TypeOK
<1>4. CASE gone = {}
  BY <1>1, <1>3, <1>4, OutlivedKept
<1>5. CASE Beyond(Present, gone)
  <2> DEFINE T == Present \ gone
  <2>1. T \cap Doomed = {}
    BY <1>5, NewestAreSafe
  <2>2. T \in SUBSET Present' /\ Cardinality(T) = Keep
    BY <1>1, <1>5 DEF Beyond
  <2>3. \A j \in T : j \notin Doomed'
    BY <1>3, <2>1
  <2>4. ASSUME NEW k \in Keys, NEW g \in gone, k <= g PROVE Outlived(k)'
    <3>1. \A j \in T : j > k
      BY <1>5, <2>4, PresentFinite, RetentionAssumption DEF Beyond, Keys
    <3> QED BY <2>2, <2>3, <3>1 DEF Outlived
  <2>5. ASSUME NEW k \in Doomed PROVE Outlived(k)'
    <3>1. k \in Keys
      BY DEF Doomed, TypeOK
    <3>2. PICK kept \in SUBSET Present :
            /\ Cardinality(kept) = Keep
            /\ \A j \in kept : j > k /\ j \notin Doomed
      BY DEF DoomedAreOld, Outlived
    <3>3. CASE kept \cap gone = {}
      BY <1>1, <1>3, <3>2, <3>3 DEF Outlived
    <3>4. CASE kept \cap gone # {}
      <4>1. PICK g \in gone : g > k
        BY <3>2, <3>4
      <4> QED BY <2>4, <3>1, <4>1, PresentFinite DEF Keys
    <3> QED BY <3>3, <3>4
  <2>6. ASSUME NEW k \in gone PROVE Outlived(k)'
    BY <2>4, PresentFinite, RetentionAssumption DEF Keys
  <2> QED BY <1>3, <2>5, <2>6 DEF DoomedAreOld
<1> QED BY <1>2, <1>4, <1>5

\* Every step keeps what is doomed outlived.
LEMMA NextPrune == PruneInvariant /\ [Next]_vars => PruneInvariant'
<1> SUFFICES ASSUME PruneInvariant, [Next]_vars PROVE PruneInvariant'
  OBVIOUS
<1> USE DEF PruneInvariant
<1>1. TypeOK'
  BY TypePreserved
<1>2. ASSUME NEW p \in Pruners, List(p) PROVE DoomedAreOld'
  BY <1>2, ListPreserves
<1>3. ASSUME NEW p \in Pruners, Delete(p) \/ DeletePartly(p)
      PROVE  DoomedAreOld'
  BY <1>3, DeletedWereDoomed, OutlivedKept
<1>4. ASSUME \/ BeginUpload \/ Latest \/ Get \/ UNCHANGED vars
             \/ \E k \in Keys : Put(k) \/ AbandonUpload(k)
      PROVE  DoomedAreOld'
  BY <1>4, OthersDoomNothing, OutlivedKept
<1>5. DoomedAreOld'
  BY <1>2, <1>3, <1>4 DEF Next
<1> QED BY <1>1, <1>5

\* At every moment, whatever a prune has listed and not yet deleted is beyond
\* the newest Keep snapshots, none of which anyone is about to delete.
THEOREM PruneSafe == Spec => []PruneInvariant
BY InitPrune, NextPrune, PTL DEF Spec

-----------------------------------------------------------------------------
(* What follows from it.                                                    *)

\* A deletion leaves Keep snapshots that are newer than the one it deletes.
LEMMA DeletedWereOutlived ==
    ASSUME PruneInvariant, [Next]_vars, NEW k \in Present \ Present'
    PROVE  \E kept \in SUBSET Present' :
              Cardinality(kept) = Keep /\ \A j \in kept : j > k
<1> USE DEF PruneInvariant
<1>1. PICK p \in Pruners : Delete(p) \/ DeletePartly(p)
  <2>1. ASSUME NEW p \in Pruners, List(p) PROVE Present' = Present
    BY <2>1 DEF List, Present
  <2> QED BY <2>1, OthersDoomNothing DEF Next
<1>2. Present \ Present' \subseteq Doomed
  BY <1>1, DeletedWereDoomed
<1>3. PICK kept \in SUBSET Present :
        /\ Cardinality(kept) = Keep
        /\ \A j \in kept : j > k /\ j \notin Doomed
  BY <1>2 DEF DoomedAreOld, Outlived
<1> QED BY <1>2, <1>3

\* However prunes overlap with each other and with late uploads, no snapshot
\* is deleted that is among the newest Keep (PruneArchives, PruneDBBackups).
THEOREM NewestKept == Spec => NewestAreKept
<1> DEFINE Step == \A k \in Present \ Present' :
                      Cardinality({j \in Present' : j > k}) >= Keep
<1>1. ASSUME PruneInvariant, PruneInvariant', [Next]_vars PROVE Step
  <2> SUFFICES ASSUME NEW k \in Present \ Present'
               PROVE  Cardinality({j \in Present' : j > k}) >= Keep
    OBVIOUS
  <2> DEFINE newer == {j \in Present' : j > k}
  <2>1. PICK kept \in SUBSET Present' :
          Cardinality(kept) = Keep /\ \A j \in kept : j > k
    BY <1>1, DeletedWereOutlived
  <2>2. kept \subseteq newer
    BY <2>1
  <2>3. IsFiniteSet(Keys)
    BY FS_Interval, RetentionAssumption DEF Keys
  <2>4. newer \subseteq Keys
    BY DEF Present
  <2>5. IsFiniteSet(newer)
    BY <2>3, <2>4, FS_Subset
  <2>6. Cardinality(kept) <= Cardinality(newer) /\ Cardinality(newer) \in Nat
    BY <2>2, <2>5, FS_Subset, FS_CardinalityType
  <2> QED BY <2>1, <2>6, RetentionAssumption
<1>2. PruneInvariant /\ PruneInvariant' /\ [Next]_vars => [Step]_vars
  BY <1>1
<1> QED BY <1>2, PruneSafe, PTL DEF Spec, NewestAreKept

\* A restore whose snapshot was pruned before it was read finds a newer one
\* when it is started again (LatestDBBackupKey, RestoreDBBackup).
THEOREM MissedNewer == Spec => []MissedMeansNewer
<1>1. Init => MissedMeansNewer
  BY DEF Init, MissedMeansNewer
<1>2. ASSUME PruneInvariant, MissedMeansNewer, [Next]_vars
      PROVE  MissedMeansNewer'
  <2> SUFFICES ASSUME Keep > 0, wanted' # None, store'[wanted'] = {}
               PROVE  \E k \in Present' : k > wanted'
    BY DEF MissedMeansNewer
  <2>1. Present \subseteq Keys /\ Present' \subseteq Keys /\ Keys \subseteq Int
    BY DEF Present, Keys
  <2>2. ASSUME NEW k \in Present, k \notin Present', NEW w \in Keys, k >= w
        PROVE  \E j \in Present' : j > w
    <3>1. PICK kept \in SUBSET Present' :
            Cardinality(kept) = Keep /\ \A j \in kept : j > k
      BY <1>2, <2>2, DeletedWereOutlived
    <3>2. kept # {}
      BY <3>1, FS_EmptySet, RetentionAssumption
    <3>3. PICK j \in kept : j > k
      BY <3>1, <3>2
    <3>4. j \in Int /\ k \in Int /\ w \in Int /\ j \in Present'
      BY <2>1, <3>3
    <3> QED BY <2>2, <3>3, <3>4
  <2>3. wanted' \in Keys
    BY <1>2, TypePreserved DEF PruneInvariant, TypeOK
  <2>4. CASE Latest
    <3>1. wanted' \in Present /\ store' = store
      BY <2>4 DEF Latest
    <3> QED BY <3>1 DEF Present
  <2>5. CASE ~ Latest
    <3>1. wanted' = wanted
      BY <1>2, <2>5 DEF Next, vars, BeginUpload, Put, AbandonUpload, List,
                        Delete, DeletePartly, Get
    <3>2. CASE store[wanted] # {}
      <4>1. wanted \in Present /\ wanted \notin Present'
        BY <2>3, <3>1, <3>2 DEF Present
      <4> QED BY <2>1, <2>2, <2>3, <3>1, <4>1
    <3>3. CASE store[wanted] = {}
      <4>1. PICK k \in Present : k > wanted
        BY <1>2, <3>1, <3>3 DEF MissedMeansNewer
      <4> QED BY <2>1, <2>2, <2>3, <3>1, <4>1
    <3> QED BY <3>2, <3>3
  <2> QED BY <2>4, <2>5
<1> QED BY <1>1, <1>2, PruneSafe, PTL DEF Spec

=============================================================================
