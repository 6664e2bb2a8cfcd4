----------------------------- MODULE ShrinkGuard -----------------------------
(***************************************************************************)
(* Publisher with a history variable for what guardAgainstShrink compared   *)
(* the bundle of the current run with (publish.go:102-137).  The guard reads *)
(* the metadata the last export left in OUT_DIR; what it protects are the   *)
(* servers, who read what was published.                                    *)
(***************************************************************************)
EXTENDS Publisher

VARIABLE
    against     \* the metadata with which the guard passed this run's bundle

gvars == <<vars, against>>

GInit == Init /\ against = Absent

\* A run goes past the guard, or ends.
Compared ==
    against' = CASE pc = "export_bundle" /\ pc' = "write_gz" -> out.meta
                 [] pc' \in {"idle", "down"} -> Absent
                 [] OTHER -> against

GNext == Next /\ Compared

GSpec == GInit /\ [][GNext]_gvars

-----------------------------------------------------------------------------
(* Properties.                                                              *)

\* README: "an export whose row counts collapse >25% vs the previous publish
\* is refused".  Whatever fails, and with exports by hand in between, a publish
\* loses more than a quarter of some count only when the check is off or was
\* made with other metadata than that of the published bundle: OUT_DIR had
\* none, or held that of an export that was not published.
CollapseNeedsDrift ==
    [][ live.index' # live.index /\ live.index # Absent
          /\ Shrunk(live.index.sha, live.index'.sha)
        => ForcePublish \/ against # live.index.sha ]_gvars

=============================================================================
