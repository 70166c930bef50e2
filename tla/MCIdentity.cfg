CONSTANTS
    w1 = w1  w2 = w2  i1 = i1  i2 = i2  i3 = i3
    Workers = {w1, w2}
    Rows = {i1, i2, i3}
    Submissions <- Sent
    Buildings <- Mapped
    DedupRadius = 1
    PhashRadius = 3
    CellSize = 3
    SamePhoto <- Alike
    Normalise <- Plain
    MaxSeq = 1
    MaxRuns = 2
    NoAddress = NoAddress  NoPhoto = NoPhoto  NoBuilding = NoBuilding
SYMMETRY Symmetric
SPECIFICATION Spec
CHECK_DEADLOCK FALSE
INVARIANTS BucketsDense UnsourcedBounded ImportedOnce
PROPERTIES DuplicatesOnlyByRace
