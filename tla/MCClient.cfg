\* One room whose game and roster change while its client is attached,
\* reloaded and cut off.
SPECIFICATION LiveSpec
CONSTANTS
    Rooms = {r1}
    MaxRoomRevision = 2
    MaxGameRevision = 2
    Links = {c1}
    None = None
INVARIANTS
    TypeOK
    ShownGameIsLatest
    RefusedChoiceIsReplaced
PROPERTY BusyEnds
