SPECIFICATION FastSpec
CONSTANTS
    User = "<user requests>"
    Problems <- ChoiceProblems
INVARIANTS
    ReasonsGoBack
    UnableOnlyIfUnsolvable
PROPERTIES
    ParentsAreFrozen
    FullOffersBestFirst
    Resolves
CHECK_DEADLOCK FALSE
