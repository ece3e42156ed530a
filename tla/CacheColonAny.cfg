CONSTANTS
    None = None
    Worlds <- SomeWorlds
    Expressions <- ColonAny
    NameOrder <- Names
    SourceNames <- NamesOfSources
    MaxAsks = 2
    Scores <- DefaultScores
    VersionParts <- Parts
    Queries <- SomeQueries
SPECIFICATION Spec
INVARIANTS
    AnswersAreRight
CHECK_DEADLOCK FALSE
