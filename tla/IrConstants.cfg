CONSTANTS
    Names = {"x"}
    Consts = {"x"}
    Kinds = {"let", "use"}
    Flows = {0}
    MaxTokens = 7
SPECIFICATION Spec
INVARIANT LocalsShadowConstants
CHECK_DEADLOCK FALSE
