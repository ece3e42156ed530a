CONSTANTS
    None = None
    Worlds <- SomeWorlds
    Expressions <- SomeExpressions
    NameOrder <- Names
    SourceNames <- NamesOfSources
    MaxAsks = 2
    Scores <- DefaultScores
    VersionParts <- Parts
    Queries <- SomeQueries
SPECIFICATION Spec
INVARIANTS
    AnswersAreRight
    VersionsAreBuilds
    PolicySettles
    PolicyPays
    SelectionsAreSets
    VersionsAreOrdered
CHECK_DEADLOCK FALSE
