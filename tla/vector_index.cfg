CONSTANTS
    k1 = k1
    k2 = k2
    Key = {k1, k2}
    NoRow = NoRow
    Source <- SourceEvents
    Rogue <- RogueEvents
    MaxBatch = 2
    Versions = {1, 2}
SPECIFICATION Spec
INVARIANTS ActiveIsUsable Rebuildable Converges AnnUsesIndex
PROPERTIES VersionsGrow
