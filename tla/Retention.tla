------------------------------ MODULE Retention ------------------------------
(***************************************************************************)
(* How old snapshots leave the bucket: PruneArchives with deletePrefix and  *)
(* PruneDBBackups (internal/r2/r2.go), one request at a time, while other   *)
(* processes upload, prune and restore (LatestDBBackupKey, RestoreDBBackup  *)
(* of internal/r2/restore.go).  Snapshots are numbered in the order of      *)
(* their keys; that of archive/ keys is not always the order of publishes,  *)
(* which is the subject of ArchiveKeys.                                     *)
(***************************************************************************)
EXTENDS Integers, FiniteSets

CONSTANTS
    Pruners,    \* the processes that prune
    Parts,      \* the objects of one snapshot
    Keep,       \* R2_KEEP or DB_BACKUP_KEEP
    Batch,      \* all keys go in one request (db-backup/), or one each
    None,       \* no snapshot
    MaxKey      \* bound: the snapshots that are ever uploaded

ASSUME RetentionAssumption ==
    /\ Keep \in Nat /\ MaxKey \in Nat /\ Batch \in BOOLEAN
    /\ IsFiniteSet(Parts) /\ None \notin 1..MaxKey

Keys == 1..MaxKey

VARIABLES
    store,      \* store[k] is the set of objects of snapshot k
    uploading,  \* uploading[k] is what is still to be put of snapshot k
    named,      \* the snapshots named so far
    doomed,     \* doomed[p] is what p has listed and not yet deleted
    wanted      \* the key a restore has found to be the newest

vars == <<store, uploading, named, doomed, wanted>>

\* A listing shows a snapshot as long as it has an object.
Present == {k \in Keys : store[k] # {}}

Init ==
    /\ store = [k \in Keys |-> {}] /\ uploading = [k \in Keys |-> {}]
    /\ named = 0
    /\ doomed = [p \in Pruners |-> {}] /\ wanted = None

-----------------------------------------------------------------------------
(* Uploads.                                                                 *)

\* The key is made from the time, before the object is put; a large object
\* may arrive after one that was named later by another process.
BeginUpload ==
    /\ named < MaxKey /\ named' = named + 1
    /\ uploading' = [uploading EXCEPT ![named'] = Parts]
    /\ UNCHANGED <<store, doomed, wanted>>

Put(k) ==
    /\ \E part \in uploading[k] :
          /\ store' = [store EXCEPT ![k] = @ \cup {part}]
          /\ uploading' = [uploading EXCEPT ![k] = @ \ {part}]
    /\ UNCHANGED <<named, doomed, wanted>>

\* An upload that fails ends; the snapshot keeps the objects it has.
AbandonUpload(k) ==
    /\ uploading[k] # {} /\ uploading' = [uploading EXCEPT ![k] = {}]
    /\ UNCHANGED <<store, named, doomed, wanted>>

-----------------------------------------------------------------------------
(* Pruning.                                                                 *)

\* mutants: one key too many or too few; sorted the other way round
BeyondOneMore(listed, gone) ==
    /\ gone \subseteq listed
    /\ \A g \in gone, k \in listed \ gone : g < k
    /\ Cardinality(listed \ gone) = Keep - 1
BeyondOneLess(listed, gone) ==
    /\ gone \subseteq listed
    /\ \A g \in gone, k \in listed \ gone : g < k
    /\ Cardinality(listed \ gone) = Keep + 1
BeyondReversed(listed, gone) ==
    /\ gone \subseteq listed
    /\ \A g \in gone, k \in listed \ gone : g > k
    /\ Cardinality(listed \ gone) = Keep

\* gone are the first of the listed keys, all but the last Keep.
Beyond(listed, gone) ==
    /\ gone \subseteq listed
    /\ \A g \in gone, k \in listed \ gone : g < k
    /\ Cardinality(listed \ gone) = Keep

\* The listing, and what is to be deleted by it: nothing up to Keep keys.
List(p) ==
    /\ doomed[p] = {}
    /\ \E gone \in SUBSET Present :
          /\ IF Cardinality(Present) <= Keep THEN gone = {}
             ELSE Beyond(Present, gone)
          /\ doomed' = [doomed EXCEPT ![p] = gone]
    /\ UNCHANGED <<store, uploading, named, wanted>>

\* The keys of the next request: all of them, or the first.
Request(p) ==
    IF Batch THEN doomed[p]
    ELSE {k \in doomed[p] : \A j \in doomed[p] : k <= j}

\* A request that deletes what it names.
Delete(p) ==
    /\ doomed[p] # {}
    /\ store' = [k \in Keys |-> IF k \in Request(p) THEN {} ELSE store[k]]
    /\ doomed' = [doomed EXCEPT ![p] = @ \ Request(p)]
    /\ UNCHANGED <<uploading, named, wanted>>

\* One that deletes a part of it: DeleteObjects reports failures key by key
\* in a result that is not read, and the prune goes on; or the request fails
\* as a whole, and the prune ends.
DeletePartly(p) ==
    /\ doomed[p] # {}
    /\ \E rest \in [Request(p) -> SUBSET Parts] :
          store' = [k \in Keys |-> IF k \in Request(p)
                                   THEN store[k] \cap rest[k] ELSE store[k]]
    /\ \/ doomed' = [doomed EXCEPT ![p] = @ \ Request(p)]
       \/ doomed' = [doomed EXCEPT ![p] = {}]
    /\ UNCHANGED <<uploading, named, wanted>>

-----------------------------------------------------------------------------
(* Restoring.                                                               *)

\* LatestDBBackupKey: the last of the keys listed.
Latest ==
    /\ wanted = None /\ Present # {}
    /\ wanted' \in {k \in Present : \A j \in Present : j <= k}
    /\ UNCHANGED <<store, uploading, named, doomed>>

\* GetObject returns it or fails because it is gone; either way the restore
\* is over, and one that failed is started again.
Get ==
    /\ wanted # None /\ wanted' = None
    /\ UNCHANGED <<store, uploading, named, doomed>>

Next ==
    \/ BeginUpload \/ (\E k \in Keys : Put(k) \/ AbandonUpload(k))
    \/ \E p \in Pruners : List(p) \/ Delete(p) \/ DeletePartly(p)
    \/ Latest \/ Get

Spec == Init /\ [][Next]_vars

\* Every run prunes, and there is always another run.
Fairness == \A p \in Pruners : WF_vars(List(p)) /\ WF_vars(Delete(p))

FairSpec == Spec /\ Fairness

-----------------------------------------------------------------------------
(* Properties.                                                              *)

\* The state has its type.
TypeOK ==
    /\ store \in [Keys -> SUBSET Parts]
    /\ uploading \in [Keys -> SUBSET Parts]
    /\ named \in 0..MaxKey
    /\ doomed \in [Pruners -> SUBSET Keys]
    /\ wanted \in Keys \cup {None}

Doomed == UNION {doomed[p] : p \in Pruners}

\* Keep snapshots that nobody is about to delete, all newer than k.
Outlived(k) ==
    \E kept \in SUBSET Present :
        /\ Cardinality(kept) = Keep
        /\ \A j \in kept : j > k /\ j \notin Doomed

\* What a prune has listed for deletion is still beyond the newest Keep,
\* whatever was uploaded, late or not, and whatever others pruned since.
DoomedAreOld == \A k \in Doomed : Outlived(k)

\* A prune that was decided on a listing never turns against the newest Keep.
PruneInvariant == TypeOK /\ DoomedAreOld

\* .env.example, README: "keeping the newest R2_KEEP".  No two prunes, however
\* they overlap with each other and with uploads, together delete a snapshot
\* that is among the newest Keep.
NewestAreKept ==
    [][ \A k \in Present \ Present' :
            Cardinality({j \in Present' : j > k}) >= Keep ]_vars

\* A restore that finds its object gone finds a newer one when it is started
\* again (LatestDBBackupKey, RestoreDBBackup).
MissedMeansNewer ==
    Keep > 0 /\ wanted # None /\ store[wanted] = {} =>
        \E k \in Present : k > wanted

\* What a failed deletion left behind is deleted by a later prune: once
\* deletions work and uploads are over, only Keep snapshots remain.
NoUploads == \A k \in Keys : uploading[k] = {}
ExcessIsPruned ==
    <>[][\A p \in Pruners : ~DeletePartly(p)]_vars
    /\ <>[][NoUploads /\ UNCHANGED named]_vars
    => <>[](Cardinality(Present) <= Keep)

=============================================================================
