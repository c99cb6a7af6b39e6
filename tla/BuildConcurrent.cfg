CONSTANTS
    App = App
    Lib = Lib
    Modules <- TwoModules
    Deps <- MCDeps
    Programs <- EntryLibPrograms
    ModuleIds <- EntryLibIds
    Outputs <- EntryLibOutputs
    Bodies = {1}
    Signatures = {1, 2}
    Flags <- MCFlags
    Requests <- MixedRequests
    Procs = {p1, p2}
    EditableSignatures = {Lib}
    CanFail = TRUE
    MaxEdits = 1
    MaxBuilds = 3
SPECIFICATION Spec
INVARIANTS
    DirectoryIsConsistent
    LinkedFromSource
SYMMETRY Symmetry
CHECK_DEADLOCK FALSE
