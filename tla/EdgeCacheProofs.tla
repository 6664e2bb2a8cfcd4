-------------------------- MODULE EdgeCacheProofs --------------------------
(***************************************************************************)
(* Theorems about EdgeCache, for every number of servers, every max-age and *)
(* every number of versions: what servers get never falls behind the index  *)
(* they follow, whatever version the publisher counts on from.              *)
(***************************************************************************)
EXTENDS EdgeCache, TLAPS

-----------------------------------------------------------------------------
(* The cache.                                                               *)

\* The name of index.json is not that of a bundle.
LEMMA NamesDiffer == IndexJson \in Names /\ IndexJson \notin Contents
BY EdgeAssumption DEF IndexJson, Names, Contents

\* Parameters are numbers.
LEMMA ParametersAreNumbers ==
    /\ IndexAge \in Nat \ {0} /\ BundleAge \in Nat \ {0}
    /\ MaxVersion \in Nat \ {0} /\ MaxContent \in Nat \ {0}
    /\ None \notin Index
BY EdgeAssumption

\* What Cached means for the two kinds of names.
LEMMA CachedKinds ==
    /\ Cached(IndexJson) = [copy : Index, age : 0..IndexAge - 1]
    /\ \A c \in Contents :
          Cached(c) = [copy : Contents, age : 0..BundleAge - 1]
BY NamesDiffer DEF Cached, MaxAge

\* A cached index.json is an index, within its max-age.
LEMMA IndexCopyType ==
    ASSUME TypeOK, edge[IndexJson] # None
    PROVE  /\ edge[IndexJson].copy \in Index
           /\ edge[IndexJson].age \in 0..IndexAge - 1
<1>1. edge[IndexJson] \in [copy : Index, age : 0..IndexAge - 1]
  BY NamesDiffer, CachedKinds DEF TypeOK
<1> QED BY <1>1

\* An answer is of the kind of its name.
LEMMA AnswerType ==
    ASSUME TypeOK
    PROVE  /\ Answer(IndexJson) \in Index
           /\ \A c \in Contents : Answer(c) \in Contents
<1>1. Answer(IndexJson) \in Index
  <2>1. CASE edge[IndexJson] = None
    BY <2>1 DEF TypeOK, Answer, InBucket
  <2>2. CASE edge[IndexJson] # None
    BY <2>2, IndexCopyType DEF Answer
  <2> QED BY <2>1, <2>2
<1>2. ASSUME NEW c \in Contents PROVE Answer(c) \in Contents
  <2>1. CASE edge[c] = None
    BY <2>1, NamesDiffer DEF TypeOK, Answer, InBucket
  <2>2. CASE edge[c] # None
    <3>1. edge[c] \in [copy : Contents, age : 0..BundleAge - 1]
      BY <2>2, CachedKinds DEF TypeOK, Names
    <3> QED BY <2>2, <3>1 DEF Answer
  <2> QED BY <2>1, <2>2
<1> QED BY <1>1, <1>2

\* The edge keeps its type when it is asked and when time passes.
EdgeTypeOK ==
    /\ edge = [n \in Names |-> edge[n]]
    /\ \A n \in Names : edge[n] \in {None} \cup Cached(n)

LEMMA AskedType ==
    ASSUME TypeOK, NEW m \in Names, Asked(m)
    PROVE  EdgeTypeOK'
<1>1. [copy |-> InBucket(m), age |-> 0] \in Cached(m)
  BY ParametersAreNumbers DEF TypeOK, InBucket, Cached, MaxAge
<1>2. edge' = IF edge[m] = None
              THEN [edge EXCEPT ![m] = [copy |-> InBucket(m), age |-> 0]]
              ELSE edge
  BY DEF Asked
<1>3. edge' = [n \in Names |-> edge'[n]]
  BY <1>2 DEF TypeOK
<1>4. \A n \in Names : edge'[n] = edge[n] \/ edge'[n] \in Cached(n)
  BY <1>1, <1>2 DEF TypeOK
<1>5. \A n \in Names : Cached(n)' = Cached(n)
  BY DEF Cached, MaxAge
<1> QED BY <1>3, <1>4, <1>5 DEF TypeOK, EdgeTypeOK

\* What a cached answer is when it has aged by one tick.
LEMMA OlderCopy ==
    ASSUME TypeOK, NEW n \in Names, Older(n) # None
    PROVE  /\ edge[n] # None /\ Older(n) \in Cached(n)
           /\ Older(n).copy = edge[n].copy /\ Older(n).age = edge[n].age + 1
<1>1. edge[n] # None /\ edge[n].age + 1 # MaxAge(n)
  BY DEF Older
<1>2. edge[n] \in Cached(n)
  BY <1>1 DEF TypeOK
<1>3. Older(n) = [edge[n] EXCEPT !.age = @ + 1]
  BY <1>1 DEF Older
<1>4. MaxAge(n) \in Nat
  BY ParametersAreNumbers DEF MaxAge
<1>5. edge[n].age + 1 \in 0..MaxAge(n) - 1
  BY <1>1, <1>2, <1>4 DEF Cached
<1> QED BY <1>1, <1>2, <1>3, <1>5 DEF Cached

LEMMA TickType ==
    ASSUME TypeOK, Tick
    PROVE  EdgeTypeOK'
<1>1. edge' = [n \in Names |-> Older(n)]
  BY DEF Tick
<1>2. \A n \in Names : Older(n) \in {None} \cup Cached(n)
  BY OlderCopy
<1>3. \A n \in Names : Cached(n)' = Cached(n)
  BY DEF Cached, MaxAge
<1> QED BY <1>1, <1>2, <1>3 DEF EdgeTypeOK

-----------------------------------------------------------------------------
(* Types.                                                                   *)

LEMMA InitType == Init => TypeOK
BY ParametersAreNumbers, EdgeAssumption
   DEF Init, TypeOK, Contents, Index, Names

LEMMA TypePreserved == TypeOK /\ [Next]_vars => TypeOK'
<1> SUFFICES ASSUME TypeOK, [Next]_vars PROVE TypeOK'
  OBVIOUS
<1> USE DEF publisher, bucket, readers
<1>c. \A n : Cached(n)' = Cached(n)
  BY DEF Cached, MaxAge
<1>1. CASE Export
  <2>1. PICK v \in 0..MaxVersion - 1 :
          Previous(v) /\ out' = [version |-> v + 1, sha |-> content']
    BY <1>1 DEF Export
  <2>2. v + 1 \in 1..MaxVersion
    BY ParametersAreNumbers
  <2>3. out' \in Index /\ content' \in Contents
    BY <1>1, <2>1, <2>2 DEF Export, Index
  <2>4. out' # None
    BY <2>3, ParametersAreNumbers
  <2>5. EdgeTypeOK'
    <3>1. CASE Asked(IndexJson)
      BY <3>1, AskedType, NamesDiffer
    <3>2. CASE UNCHANGED edge
      BY <3>2, <1>c DEF TypeOK, EdgeTypeOK
    <3> QED BY <2>1, <3>1, <3>2 DEF Previous
  <2> QED BY <1>1, <2>3, <2>4, <2>5 DEF Export, TypeOK, EdgeTypeOK
<1>2. CASE Upload
  <2>1. out \in Index
    BY <1>2 DEF Upload, TypeOK
  <2> QED BY <1>2, <2>1, <1>c DEF Upload, TypeOK, Index
<1>3. CASE Interrupt
  BY <1>3, <1>c DEF Interrupt, TypeOK
<1>4. CASE LoseOut
  BY <1>4, <1>c, ParametersAreNumbers DEF LoseOut, TypeOK
<1>5. CASE Tick
  BY <1>5, TickType DEF Tick, TypeOK, EdgeTypeOK
<1>6. ASSUME NEW n \in Names, Evict(n) PROVE TypeOK'
  BY <1>6, <1>c DEF Evict, TypeOK
<1>7. ASSUME NEW s \in Servers, ReadIndex(s) PROVE TypeOK'
  BY <1>7, AskedType, AnswerType, NamesDiffer
     DEF ReadIndex, TypeOK, EdgeTypeOK
<1>8. ASSUME NEW s \in Servers, ReadBundle(s) PROVE TypeOK'
  <2>1. read[s] \in Index /\ BundleURL(read[s]) \in Names
    BY <1>8 DEF ReadBundle, TypeOK, BundleURL, Index, Names
  <2> QED BY <1>8, <2>1, AskedType DEF ReadBundle, TypeOK, EdgeTypeOK
<1>9. CASE UNCHANGED vars
  BY <1>9, <1>c DEF vars, TypeOK
<1> QED BY <1>1, <1>2, <1>3, <1>4, <1>5, <1>6, <1>7, <1>8, <1>9 DEF Next

\* What is cached after a request was cached before, or is what the bucket
\* has.
LEMMA AskedCopy ==
    ASSUME TypeOK, NEW m \in Names, Asked(m), NEW n \in Names,
           edge'[n] # None
    PROVE  \/ edge[n] # None /\ edge'[n] = edge[n]
           \/ n = m /\ edge[n] = None /\ edge'[n].copy = InBucket(n)
                    /\ edge'[n].age = 0
BY DEF Asked, TypeOK

\* What is cached after a tick was cached before.
LEMMA TickCopy ==
    ASSUME TypeOK, Tick, NEW n \in Names, edge'[n] # None
    PROVE  /\ edge[n] # None /\ edge'[n].copy = edge[n].copy
           /\ edge'[n].age = edge[n].age + 1
<1>1. edge'[n] = Older(n)
  BY DEF Tick
<1> QED BY <1>1, OlderCopy

\* A server asks for the bundle of an index that is not ahead of the bucket.
LEMMA AskedNotAhead ==
    ASSUME NotAheadInvariant, NEW m \in Names, Asked(m),
           m \in Contents => m <= bundle
    PROVE  /\ edge'[IndexJson] # None => edge'[IndexJson].copy.sha <= bundle
           /\ \A c \in Contents : edge'[c] # None => edge'[c].copy >= c
<1> USE DEF NotAheadInvariant
<1>1. ASSUME edge'[IndexJson] # None
      PROVE  edge'[IndexJson].copy.sha <= bundle
  BY <1>1, AskedCopy, NamesDiffer DEF InBucket
<1>2. ASSUME NEW c \in Contents, edge'[c] # None PROVE edge'[c].copy >= c
  BY <1>2, AskedCopy, NamesDiffer DEF InBucket, Names
<1> QED BY <1>1, <1>2

\* An index a server reads is not ahead of the bucket.
LEMMA AnswerNotAhead ==
    ASSUME NotAheadInvariant PROVE Answer(IndexJson).sha <= bundle
BY DEF NotAheadInvariant, Answer, InBucket

-----------------------------------------------------------------------------
(* The bundle a server gets is never older than the index it follows.       *)

LEMMA InitNotAhead == Init => NotAheadInvariant
<1> SUFFICES ASSUME Init PROVE NotAheadInvariant
  OBVIOUS
<1>1. \A n \in Names : edge[n] = None
  BY DEF Init
<1>2. \A c \in Contents : edge[c] = None
  BY <1>1 DEF Names
<1> QED BY InitType, <1>1, <1>2, NamesDiffer DEF Init, NotAheadInvariant

LEMMA NextNotAhead == NotAheadInvariant /\ [Next]_vars => NotAheadInvariant'
<1> SUFFICES ASSUME NotAheadInvariant, [Next]_vars PROVE NotAheadInvariant'
  OBVIOUS
<1> USE DEF publisher, bucket, readers, NotAheadInvariant
<1>0. TypeOK'
  BY TypePreserved
<1>n. bundle \in Int /\ content \in Int /\ index.sha \in Int
  BY DEF TypeOK, Index, Contents
<1>r. \A i \in Index : i.sha \in Int
  BY DEF Index, Contents
<1>1. CASE Export
  <2>1. content' \in Int /\ content' >= content /\ out'.sha = content'
    BY <1>1, <1>n DEF Export
  <2>2. /\ edge'[IndexJson] # None => edge'[IndexJson].copy.sha <= bundle
        /\ \A c \in Contents : edge'[c] # None => edge'[c].copy >= c
    <3>1. CASE Asked(IndexJson)
      BY <3>1, AskedNotAhead, NamesDiffer
    <3>2. CASE UNCHANGED edge
      BY <3>2
    <3> QED BY <1>1, <3>1, <3>2 DEF Export, Previous
  <2> QED BY <1>0, <1>1, <1>n, <2>1, <2>2 DEF Export
<1>2. CASE Upload
  <2>1. CASE pc = "upload_bundle"
    <3>1. bundle' = content /\ bundle <= bundle'
      BY <1>2, <2>1 DEF Upload
    <3>2. \A s \in Servers : read[s] # None => read[s].sha <= bundle'
      BY <3>1, <1>n, <1>r DEF TypeOK
    <3>3. edge[IndexJson] # None => edge[IndexJson].copy.sha <= bundle'
      <4> SUFFICES ASSUME edge[IndexJson] # None
                   PROVE  edge[IndexJson].copy.sha <= bundle'
        OBVIOUS
      <4>1. edge[IndexJson].copy \in Index
        BY IndexCopyType
      <4> QED BY <4>1, <3>1, <1>n, <1>r
    <3> QED BY <1>0, <1>2, <1>n, <2>1, <3>1, <3>2, <3>3 DEF Upload
  <2>2. CASE pc = "upload_index"
    BY <1>0, <1>2, <1>n, <2>2 DEF Upload
  <2> QED BY <1>2, <2>1, <2>2 DEF Upload
<1>3. CASE Interrupt
  BY <1>0, <1>3 DEF Interrupt
<1>4. CASE LoseOut
  BY <1>0, <1>4 DEF LoseOut
<1>5. CASE Tick
  <2>1. edge'[IndexJson] # None => edge'[IndexJson].copy.sha <= bundle
    BY <1>5, TickCopy, NamesDiffer
  <2>2. \A c \in Contents : edge'[c] # None => edge'[c].copy >= c
    BY <1>5, TickCopy DEF Names
  <2> QED BY <1>0, <1>5, <2>1, <2>2 DEF Tick
<1>6. ASSUME NEW n \in Names, Evict(n) PROVE NotAheadInvariant'
  <2>1. \A m \in Names : edge'[m] # None => edge'[m] = edge[m]
    BY <1>6 DEF Evict, TypeOK
  <2>2. edge'[IndexJson] # None => edge'[IndexJson].copy.sha <= bundle
    BY <2>1, NamesDiffer
  <2>3. \A c \in Contents : edge'[c] # None => edge'[c].copy >= c
    BY <2>1 DEF Names
  <2> QED BY <1>0, <1>6, <2>2, <2>3 DEF Evict
<1>7. ASSUME NEW s \in Servers, ReadIndex(s) PROVE NotAheadInvariant'
  <2>1. /\ edge'[IndexJson] # None => edge'[IndexJson].copy.sha <= bundle
        /\ \A c \in Contents : edge'[c] # None => edge'[c].copy >= c
    BY <1>7, AskedNotAhead, NamesDiffer DEF ReadIndex
  <2>2. \A t \in Servers : read'[t] # None => read'[t].sha <= bundle
    BY <1>7, AnswerNotAhead DEF ReadIndex, TypeOK
  <2> QED BY <1>0, <1>7, <2>1, <2>2 DEF ReadIndex
<1>8. ASSUME NEW s \in Servers, ReadBundle(s) PROVE NotAheadInvariant'
  <2>1. BundleURL(read[s]) \in Contents /\ BundleURL(read[s]) <= bundle
    BY <1>8 DEF ReadBundle, BundleURL, TypeOK, Index
  <2>2. /\ edge'[IndexJson] # None => edge'[IndexJson].copy.sha <= bundle
        /\ \A c \in Contents : edge'[c] # None => edge'[c].copy >= c
    BY <1>8, <2>1, AskedNotAhead DEF ReadBundle, Names
  <2>3. \A t \in Servers : read'[t] # None => read'[t].sha <= bundle
    BY <1>8 DEF ReadBundle, TypeOK
  <2> QED BY <1>0, <1>8, <2>2, <2>3 DEF ReadBundle
<1>9. CASE UNCHANGED vars
  BY <1>0, <1>9 DEF vars
<1> QED BY <1>1, <1>2, <1>3, <1>4, <1>5, <1>6, <1>7, <1>8, <1>9 DEF Next

\* A server that follows an index never gets a bundle older than the one it
\* names, whatever is cached: UploadLive puts index.json last and the URL of
\* the bundle carries its hash.
THEOREM NeverAhead == Spec => []IndexNeverAhead
<1>1. NotAheadInvariant => IndexNeverAhead
  <2> SUFFICES ASSUME NotAheadInvariant, NEW i \in InSight
               PROVE  Answer(BundleURL(i)) >= i.sha
    BY DEF IndexNeverAhead
  <2> USE DEF NotAheadInvariant
  <2>1. i \in Index /\ i.sha <= bundle
    <3>1. Answer(IndexJson) \in Index /\ Answer(IndexJson).sha <= bundle
      BY AnswerType, AnswerNotAhead
    <3> QED BY <3>1 DEF InSight, TypeOK
  <2>2. i.sha \in Contents /\ bundle \in Contents
    BY <2>1 DEF Index, TypeOK
  <2>3. CASE edge[i.sha] = None
    BY <2>1, <2>2, <2>3, NamesDiffer
       DEF Answer, BundleURL, InBucket, Contents
  <2>4. CASE edge[i.sha] # None
    BY <2>2, <2>4 DEF Answer, BundleURL
  <2> QED BY <2>3, <2>4
<1> QED BY <1>1, InitNotAhead, NextNotAhead, PTL DEF Spec

\* The state has its type (UploadLive, previousIndex, the caches).
THEOREM TypeCorrect == Spec => []TypeOK
BY InitType, TypePreserved, PTL DEF Spec


=============================================================================
