\* Two edits at a time, of two employers and what hangs on one of them, beside imports, recalculations
\* and deletions.
CONSTANTS
    e1 = e1
    e2 = e2
    a1 = a1
    o1 = o1
    t1 = t1
    Ids <- MCIds
    KindOf <- MCKindOf
    Parent <- MCParent
    Editors = {c1, c2}
    Values = {v1, v2}
    Patches <- MCPatches
    Nothing = Nothing
    EmptyList = EmptyList
    MaxWrites = 4
SYMMETRY Symmetry
CHECK_DEADLOCK FALSE
SPECIFICATION Spec
INVARIANTS
    NothingReverted
    ConflictIsReal
PROPERTIES
    RevertNeedsOverlap
