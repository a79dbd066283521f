\* Two rooms one after the other, and two connection objects: what belongs to
\* the first arrives while the second is shown.
SPECIFICATION Spec
CONSTANTS
    Rooms = {r1, r2}
    MaxRoomRevision = 1
    MaxGameRevision = 2
    Links = {c1, c2}
    None = None
SYMMETRY Symmetry
INVARIANT OwnRoomOnly
