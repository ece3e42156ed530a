SPECIFICATION Safety
CONSTANTS
    User = "<user requests>"
    Problems <- ProvidesProblems
INVARIANTS
    FinalCheckHolds
CHECK_DEADLOCK FALSE
