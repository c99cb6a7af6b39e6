CONSTANTS
    Files = {a, b, c}
    Entry = a
    Unresolved = Unresolved
    MaxImports = 2
    ImportLists <- AllLists
SPECIFICATION FairSpec
INVARIANTS
    TypeOK
    DependencyFirst
    GraphIsFaithful
    CycleIsJustified
PROPERTIES
    Terminates
    KeepsContract
CHECK_DEADLOCK FALSE
