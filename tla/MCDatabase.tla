------------------------------ MODULE MCDatabase ------------------------------
(***************************************************************************)
(* Constants of the model-checking runs of Database: the serve process, and *)
(* one that an operator starts beside it.                                   *)
(***************************************************************************)
EXTENDS Database, TLC

CONSTANTS F1, F2, F3, F4, F5

MCProcs == {"serve", "hand"}

\* The identity of a file is only compared.
FileSymmetry == Permutations(Files)

\* serve, beside exports and restore-db by hand.
MCOps ==
    [p \in MCProcs |->
        IF p = "serve" THEN {"fetch", "seed", "sync", "snapshot"}
        ELSE {"snapshot", "restore"}]

\* serve, beside a pcgw-sync by hand: two processes write rows.
TwoWriters ==
    [p \in MCProcs |->
        IF p = "serve" THEN {"fetch", "seed", "sync", "snapshot"}
        ELSE {"sync"}]

=============================================================================
