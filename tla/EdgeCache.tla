----------------------------- MODULE EdgeCache -----------------------------
(***************************************************************************)
(* What GSBS servers see of a publish.  They read PUBLIC_BASE through caches *)
(* that may keep each object for the max-age UploadLive gives it            *)
(* (internal/r2/r2.go), and so does the publisher itself when it has lost   *)
(* OUT_DIR and asks for the last version (previousIndex of                  *)
(* internal/publish/publish.go).  Bundles are numbered by content in the    *)
(* order of their export: the content of the mirror only moves forward.     *)
(***************************************************************************)
EXTENDS Integers

CONSTANTS
    Servers,    \* the GSBS servers
    IndexAge,   \* max-age of index.json, in ticks
    BundleAge,  \* max-age of the bundle
    None,       \* nothing there
    MaxVersion, \* bound: the versions that are ever exported
    MaxContent  \* bound: the contents the mirror ever has

Contents == 1..MaxContent
Index == [version : 1..MaxVersion, sha : Contents]

ASSUME EdgeAssumption ==
    /\ {IndexAge, BundleAge, MaxVersion, MaxContent} \subseteq Nat \ {0}
    /\ None \notin Index

\* The names readers ask for: index.json, and the URL of a bundle, which
\* carries the hash of its content.
IndexJson == 0
BundleURL(i) == i.sha
Names == {IndexJson} \cup Contents

VARIABLES
    content,    \* the content of the mirror database
    out,        \* index.json of OUT_DIR, or None
    pc,         \* what the publisher does next
    bundle,     \* the bundle in the bucket
    index,      \* index.json in the bucket
    edge,       \* edge[n] is the cached answer for name n and its age
    read,       \* read[s] is the index server s is acting on
    have        \* have[s] is the index server s has merged

vars == <<content, out, pc, bundle, index, edge, read, have>>

publisher == <<content, out, pc>>
bucket == <<bundle, index>>
readers == <<read, have>>

Init ==
    LET first == [version |-> 1, sha |-> 1]
    IN  /\ content = 1 /\ out = first /\ pc = "idle"
        /\ bundle = 1 /\ index = first
        /\ edge = [n \in Names |-> None]
        /\ read = [s \in Servers |-> None]
        /\ have = [s \in Servers |-> first]

-----------------------------------------------------------------------------
(* The edge.                                                                *)

InBucket(n) == IF n = IndexJson THEN index ELSE bundle

Answer(n) == IF edge[n] = None THEN InBucket(n) ELSE edge[n].copy

\* Answering a request fills the cache.
Asked(n) ==
    edge' = IF edge[n] = None
            THEN [edge EXCEPT ![n] = [copy |-> InBucket(n), age |-> 0]]
            ELSE edge

\* The Cache-Control header each object is put with.
MaxAge(n) == IF n = IndexJson THEN IndexAge ELSE BundleAge

\* mutant: index.json is put as the bundle might be, never to be asked again
OlderUnlessIndex(n) ==
    IF \/ edge[n] = None
       \/ n # IndexJson /\ edge[n].age + 1 = MaxAge(n)
    THEN None
    ELSE [edge[n] EXCEPT !.age = IF n = IndexJson THEN @ ELSE @ + 1]

Older(n) ==
    IF edge[n] = None \/ edge[n].age + 1 = MaxAge(n) THEN None
    ELSE [edge[n] EXCEPT !.age = @ + 1]

Tick ==
    /\ edge' = [n \in Names |-> Older(n)]
    /\ UNCHANGED <<publisher, bucket, readers>>

Evict(n) ==
    /\ edge[n] # None /\ edge' = [edge EXCEPT ![n] = None]
    /\ UNCHANGED <<publisher, bucket, readers>>

-----------------------------------------------------------------------------
(* The publisher.                                                           *)

\* previousIndex: the version of the local copy; without one that of the copy
\* readers get, or 0 when that cannot be fetched or parsed.
Previous(v) ==
    \/ out # None /\ v = out.version /\ UNCHANGED edge
    \/ out = None /\ v = Answer(IndexJson).version /\ Asked(IndexJson)
    \/ out = None /\ v = 0 /\ UNCHANGED edge

Export ==
    /\ pc = "idle" /\ pc' = "upload_bundle"
    /\ content' \in {content, content + 1} \cap Contents
    /\ \E v \in 0..MaxVersion - 1 :
          Previous(v) /\ out' = [version |-> v + 1, sha |-> content']
    /\ UNCHANGED <<bucket, readers>>

\* mutant: the index first
UploadIndexFirst ==
    /\ \/ pc = "upload_bundle" /\ index' = out /\ UNCHANGED bundle
          /\ pc' = "upload_index"
       \/ pc = "upload_index" /\ bundle' = out.sha /\ UNCHANGED index
          /\ pc' = "idle"
    /\ UNCHANGED <<content, out, edge, readers>>

\* UploadLive, in its order.
Upload ==
    /\ \/ pc = "upload_bundle" /\ bundle' = out.sha /\ UNCHANGED index
          /\ pc' = "upload_index"
       \/ pc = "upload_index" /\ index' = out /\ UNCHANGED bundle
          /\ pc' = "idle"
    /\ UNCHANGED <<content, out, edge, readers>>

\* A put fails, or the process is stopped.
Interrupt ==
    /\ pc # "idle" /\ pc' = "idle"
    /\ UNCHANGED <<content, out, bucket, edge, readers>>

\* mutant: an upload goes on without the file it puts
LoseOutUnnoticed ==
    /\ out # None /\ out' = None
    /\ UNCHANGED <<content, pc, bucket, edge, readers>>

\* With the whole host, or alone: an upload that is under way then fails,
\* because putFile cannot read the file.
LoseOut ==
    /\ out # None /\ out' = None /\ pc' = "idle"
    /\ UNCHANGED <<content, bucket, edge, readers>>

-----------------------------------------------------------------------------
(* The GSBS servers.                                                        *)

\* A server that has reached the version it reads treats itself as current.
ReadIndex(s) ==
    /\ read[s] = None /\ Asked(IndexJson)
    /\ read' = IF Answer(IndexJson).version > have[s].version
               THEN [read EXCEPT ![s] = Answer(IndexJson)] ELSE read
    /\ UNCHANGED <<publisher, bucket, have>>

\* A bundle that does not have the advertised checksum is thrown away.
ReadBundle(s) ==
    /\ read[s] # None /\ Asked(BundleURL(read[s]))
    /\ have' = IF Answer(BundleURL(read[s])) = read[s].sha
               THEN [have EXCEPT ![s] = read[s]] ELSE have
    /\ read' = [read EXCEPT ![s] = None]
    /\ UNCHANGED <<publisher, bucket>>

Next ==
    \/ Export \/ Upload \/ Interrupt \/ LoseOut \/ Tick
    \/ \E n \in Names : Evict(n)
    \/ \E s \in Servers : ReadIndex(s) \/ ReadBundle(s)

Spec == Init /\ [][Next]_vars

\* Time passes and servers keep polling; nobody is obliged to publish.
Fairness ==
    /\ WF_vars(Tick)
    /\ \A s \in Servers : WF_vars(ReadIndex(s)) /\ WF_vars(ReadBundle(s))

FairSpec == Spec /\ Fairness

-----------------------------------------------------------------------------
(* Properties.                                                              *)

\* What the cache may hold under name n.
Cached(n) ==
    [copy : IF n = IndexJson THEN Index ELSE Contents, age : 0..MaxAge(n) - 1]

\* The state has its type.
TypeOK ==
    /\ content \in Contents /\ bundle \in Contents
    /\ out \in Index \cup {None} /\ index \in Index
    /\ pc \in {"idle", "upload_bundle", "upload_index"}
    /\ pc # "idle" => out # None
    /\ edge = [n \in Names |-> edge[n]]
    /\ \A n \in Names : edge[n] \in {None} \cup Cached(n)
    /\ read \in [Servers -> Index \cup {None}]
    /\ have \in [Servers -> Index]

\* The indexes a server may act on: the published one, the cached one, and
\* those servers have just read.
InSight ==
    {index, Answer(IndexJson)} \cup ({read[s] : s \in Servers} \ {None})

\* A server that follows an index, fresh or cached, never gets a bundle
\* older than the one it names, cached or not: UploadLive puts index.json
\* last and its URL changes with the bundle (r2.go:64-66, 71-76).
IndexNeverAhead == \A i \in InSight : Answer(BundleURL(i)) >= i.sha

\* What is published would be news to a server that reads it now, or it has it.
Offered(s) == index.version > have[s].version \/ have[s].sha = index.sha

\* Once a complete publish stands that a server would take up, it ends up with
\* that bundle, whatever was cached, by whom, in the meantime (max-age,
\* UploadLive).  The premise leaves out a version that was used before or fell
\* behind, which a publisher that lost OUT_DIR may publish.
ServersCatchUp ==
    \A s \in Servers :
        <>[](bundle = index.sha /\ Offered(s)) => <>[](have[s].sha = index.sha)

-----------------------------------------------------------------------------
(* What the documentation says; a run of its own shows what the code does.  *)

\* publish.go:139-144: without OUT_DIR the version is counted on from "the
\* live published index", so a publish is never behind it.
SeedIsPublished ==
    [][ out = None /\ out' # None =>
            out'.version = 1 \/ out'.version > index.version ]_vars

-----------------------------------------------------------------------------
(* Why IndexNeverAhead holds.                                               *)

\* An upload puts the newest content, the index after its bundle, and no
\* copy of an index names a bundle newer than the one in the bucket.
NotAheadInvariant ==
    /\ TypeOK
    /\ bundle <= content /\ index.sha <= bundle
    /\ pc = "upload_bundle" => out.sha = content
    /\ pc = "upload_index" => out.sha = bundle
    /\ edge[IndexJson] # None => edge[IndexJson].copy.sha <= bundle
    /\ \A c \in Contents : edge[c] # None => edge[c].copy >= c
    /\ \A s \in Servers : read[s] # None => read[s].sha <= bundle

=============================================================================
