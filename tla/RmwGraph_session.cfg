SPECIFICATION Spec
CONSTANTS
    Entities <- World
    Unparsable = {}
    SlabCapacity = 2
    Serialised = TRUE
    MaxLocal = 2
    MaxDeclared = 1
VIEW AllButMatched
CHECK_DEADLOCK FALSE
INVARIANTS QueriesComplete QueriesSound 
