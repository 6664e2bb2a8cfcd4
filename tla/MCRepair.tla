----------------------------- MODULE MCRepair ------------------------------
(* Two schemas of seven migrations for the runs of Repair: in the first the *)
(* PCGW table only gains an index after it was created, in the second a     *)
(* migration alters it.                                                     *)
EXTENDS Repair, TLC

CONSTANTS games, users, clients, audit, gamesIdx, clientsIdx

MCTables == {games, users, clients, audit}
MCIndexes == {gamesIdx, clientsIdx}
MCUserTables == {users, clients}
MCOn == gamesIdx :> games @@ clientsIdx :> clients

MCSteps ==
    games :> {1} @@ users :> {3, 6} @@ clients :> {1, 2, 5, 7}
    @@ audit :> {4} @@ gamesIdx :> {4} @@ clientsIdx :> {2}

MCSchemas == {MCSteps, [MCSteps EXCEPT ![games] = {1, 3}]}

=============================================================================
