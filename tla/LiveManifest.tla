---------------------------- MODULE LiveManifest ----------------------------
(***************************************************************************)
(* What the publisher promises the servers that poll the bucket: only two   *)
(* things ever happen to the published objects.  A bundle that passed       *)
(* validation is put in place, or index.json is moved, in one step, to a    *)
(* larger version that names the bundle in place.                           *)
(***************************************************************************)
EXTENDS Integers

CONSTANTS
    Bundle,     \* the bundles that pass validation
    Absent      \* no such object

VARIABLES
    bundle,     \* the published manifest.json.gz
    index       \* the published index.json

vars == <<bundle, index>>

Current == IF index = Absent THEN 0 ELSE index.version

\* The indexes that name bundle b.
Naming(b) == [version : Nat \ {0}, sha : {b}]

Init ==
    \/ bundle = Absent /\ index = Absent
    \/ bundle \in Bundle /\ index \in Naming(bundle)

Stage == bundle' \in Bundle /\ UNCHANGED index

Cutover ==
    /\ bundle \in Bundle /\ UNCHANGED bundle
    /\ index' \in Naming(bundle) /\ index'.version > Current

Next == Stage \/ Cutover

Spec == Init /\ [][Next]_vars

=============================================================================
