-------------------------- MODULE MCOverlappingRuns --------------------------
(***************************************************************************)
(* Constants of the model-checking run of OverlappingRuns.                  *)
(***************************************************************************)
EXTENDS OverlappingRuns

CONSTANTS Empty, Large, Small, Scant    \* as in MCPublisher

MCCountNames == {"games"}

MCCounts ==
    [ b \in Bundles |->
        [ games |-> CASE b = Empty -> 0 [] b = Large -> 8
                      [] b = Small -> 6 [] b = Scant -> 5 ] ]

=============================================================================
