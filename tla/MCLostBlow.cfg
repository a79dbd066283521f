SPECIFICATION Spec
CONSTANTS
    P = P
    Gun = Gun
    Blade = Blade
    Trap = Trap
    Fall = Fall
    Clue = Clue
    Route = Route
    None = None
    Player = P
    Roster <- MCDuel
    Initiative <- MCInitiative
    MaxHp <- MCMaxHp
    Arms <- MCArms
    Blows <- MCBlows
    Authored <- MCAuthored
    Routes <- MCRoutes
    Records <- MCRecords
    MaxRound = 3
INVARIANT BlowsReachHealth
CHECK_DEADLOCK FALSE
