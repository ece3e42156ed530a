SPECIFICATION Safety
CONSTANTS
    User = "<user requests>"
    Problems <- SearchProblems
INVARIANTS
    TypeOK
    BrokenIsExact
    NoPhantomIsBroken
    NoInternalError
    BranchesAreDisjoint
    UnableOnlyIfUnsolvable
PROPERTIES
    CleansWhatIsUnneeded
CHECK_DEADLOCK FALSE
