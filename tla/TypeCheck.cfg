SPECIFICATION Spec
CONSTANTS
    Programs <- MCPrograms
    Collected <- MCCollected
    Visited <- MCVisited
    WithInstance <- MCWithInstance
    Concluded <- MCConcluded
INVARIANT TypeOK
PROPERTIES
    AcceptedIsWellTyped
    InstancesAreWellTyped
    OrderDoesNotMatter
    WrittenTypesEnd
