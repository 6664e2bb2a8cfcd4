----------------------------- MODULE MCConfig ------------------------------
(* Three settings, one of each kind, for the run of Config.                 *)
EXTENDS Config, TLC

CONSTANTS cleanup, keep, accessKey

MCKeys == {cleanup, keep, accessKey}
MCKind == cleanup :> "flag" @@ keep :> "number" @@ accessKey :> "secret"

\* The environments with at most one setting.
MCEnvironments ==
    {g \in [MCKeys -> Values] :
        \A j, k \in MCKeys : g[j] # Unset /\ g[k] # Unset => j = k}

=============================================================================
