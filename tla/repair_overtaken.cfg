SPECIFICATION Spec
CONSTANTS
    games = games
    users = users
    clients = clients
    audit = audit
    gamesIdx = gamesIdx
    clientsIdx = clientsIdx
    Tables <- MCTables
    Indexes <- MCIndexes
    On <- MCOn
    UserTables <- MCUserTables
    Latest = 7
    Schemas <- MCSchemas
INVARIANTS
    EveryRepairOpens
CHECK_DEADLOCK FALSE
