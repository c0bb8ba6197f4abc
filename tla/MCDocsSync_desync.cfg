SPECIFICATION Spec
CONSTANTS
    Pages = {p, q}
    Versions = {old, new, huge}
    Unfit = {huge}
    Absent = absent
    MaxEdits = 2
    MaxFaults = 1
SYMMETRY Symmetry
INVARIANT SyncedItemsMatchIndex
