----------------------------- MODULE MCPublisher -----------------------------
(***************************************************************************)
(* Constants of the model-checking runs of Publisher.                       *)
(***************************************************************************)
EXTENDS Publisher

\* Four bundles: no rows at all; a mirror; one that lost the quarter of its
\* games the guard allows; and one that lost a little more, which in some runs
\* also has a row that validation refuses.
CONSTANTS Empty, Large, Small, Scant

MCCountNames == {"games", "catalog"}

MCCounts ==
    [ b \in Bundles |->
        [ games   |-> CASE b = Empty -> 0 [] b = Large -> 8
                        [] b = Small -> 6 [] b = Scant -> 5,
          catalog |-> IF b = Empty THEN 0 ELSE 4 ] ]

=============================================================================
