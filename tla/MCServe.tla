------------------------------- MODULE MCServe -------------------------------
(***************************************************************************)
(* Constants of the model-checking runs of Serve: a schedule with ticks one *)
(* and three units apart, and the configurations that seed a database they  *)
(* do not find and only fetch from production when they name it.            *)
(***************************************************************************)
EXTENDS Serve

MCTicks == {1, 2}

MCSettings ==
    {s \in AllSettings : s.autoBootstrap /\ (s.fetchProdDB => s.prodDBSrc)}

\* Seeded from production; from the bucket.
MCSeeded == {s \in MCSettings : ~s.fetchProdDB /\ s.prodDBSrc}
MCRestored == {s \in MCSettings : ~s.fetchProdDB /\ ~s.prodDBSrc}

=============================================================================
