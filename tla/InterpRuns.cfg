\* Calls, loops, blocks and early exits in every order, locals named like the constant and the
\* function, and a second run after the first.
CONSTANTS
    Consts = {"c"}
    Functions = {"f"}
    Locals = {"c", "f", "println"}
    Data = {"a"}
    max_call_depth = 2
    max_steps = 11
    max_output = 1
    MaxItems = 1
    MaxRuns = 2
SPECIFICATION FairSpec
INVARIANT BalancedInv
PROPERTIES KeepsScoping RunsEnd
CHECK_DEADLOCK FALSE
