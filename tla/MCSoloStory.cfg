SPECIFICATION MCSpec
CONSTANTS
    Tide = Tide
    Cult = Cult
    Quay = Quay
    Light = Light
    Tracks = Tracks
    Oath = Oath
    Escape = Escape
    Leave = Leave
    Stalled = Stalled
    Threatened = Threatened
    Reached = Reached
    Trap = Trap
    Fall = Fall
    Clue = Clue
    Route = Route
    None = None
    NoOne = NoOne
    HistoryLimit = 3
    Full <- MCFull
    Losses = {0, 3}
    Shock = 3
    Replies <- MCReplies
    Records <- MCRecords
    MaxLoss = 6
    Authored <- MCAuthored
    Routes <- MCRoutes
    ThreatClocks <- MCThreatClocks
    AuthoredClocks = {Tide}
    ClockMax <- MCClockMax
    MaxAdvance <- MCMaxAdvance
    AdvanceRules <- MCAdvanceRules
    ResolveRules <- MCResolveRules
    Endings <- MCEndings
    Effects <- MCEffects
    Nodes = {Quay, Light}
    Start = Quay
    TopTension = 2
    MaxTurn = 4
    MaxEvents = 4
INVARIANTS LossesCounted CostsHold ClocksKeepPace
PROPERTIES SettledStays EndingEarned
CHECK_DEADLOCK FALSE
