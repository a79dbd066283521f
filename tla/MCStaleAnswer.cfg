CONSTANTS
    None = None
    Hall = Hall
    Cellar = Cellar
    Draft = Draft
    Gloom = Gloom
    Smell = Smell
    Search = Search
    Dread = Dread
    Nodes = {Hall, Cellar}
    Start = Hall
    NodeChecks <- MCNodeChecks
    MaxChain = 2
    MaxIds = 3
SPECIFICATION TracedSpec
PROPERTY OldAnswersAreInert
