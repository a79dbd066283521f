SPECIFICATION Spec
CONSTANTS
    P = P
    Gun = Gun
    Blade = Blade
    Trap = Trap
    Fall = Fall
    Clue = Clue
    Route = Route
    None = None
    Player = P
    Roster <- MCRoster
    Initiative <- MCInitiative
    MaxHp <- MCMaxHp
    Arms <- MCArms
    Blows <- MCBlows
    Authored <- MCAuthored
    Routes <- MCRoutes
    Records <- MCRecords
    MaxRound = 3
INVARIANTS TypeOK DyingCheckedEveryRound BothSidesStand
PROPERTIES FollowsLifecycle OneTurnEach
CHECK_DEADLOCK FALSE
