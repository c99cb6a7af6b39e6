CONSTANTS
    Names = {"x", "y"}
    Consts = {"y"}
    Kinds = {"let", "use", "assign", "return", "break", "continue", "if", "else", "while", "for"}
    Flows = {0, 2}
    MaxTokens = 6
    SmallSize = 4
    ScopesSize = 5
SPECIFICATION Spec
CONSTRAINT Families
INVARIANTS
    TypeOK
    KeepsControlFlow
    BlocksAreValid
    GuaranteeIsSound
    AccessesInnermost
    ErrorsAreJustified
CHECK_DEADLOCK FALSE
