CONSTANTS
    App = App
    Lib = Lib
    Modules <- TwoModules
    Deps <- MCDeps
    Programs <- EntryLibPrograms
    ModuleIds <- EntryLibIds
    Outputs <- EntryLibOutputs
    Bodies = {1, 2}
    Signatures = {1}
    Flags <- MCFlags
    Requests <- BinRequests
    Procs = {p1}
    EditableSignatures = {}
    CanFail = TRUE
    MaxEdits = 2
    MaxBuilds = 3
SPECIFICATION FairSpec
INVARIANTS
    TypeOK
    SavedObjectsAreWhole
PROPERTIES
    KeepsCleanBuild
    BuildsEnd
CHECK_DEADLOCK FALSE
