\* A session with one document: edits, saves, and a reopen, quick and slow checks.
CONSTANTS
    MaxEdits = 2
    MaxSaves = 3
    MaxReopens = 1
SPECIFICATION FairSpec
INVARIANTS SessionInv BufferConverges SettledIsCurrent
PROPERTY EveryEditIsChecked
CHECK_DEADLOCK FALSE
