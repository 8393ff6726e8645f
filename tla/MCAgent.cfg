SPECIFICATION Spec
CONSTANTS
    MAX_CALL_DEPTH = 3
    RunPrograms <- MCRunPrograms
    Answers <- MCAnswers
    Budgets = {0, 2, 3}
    Tasks <- MCTasks
INVARIANTS
    TypeOK
    StackIsChain
    TapeScoped
    RunsAreIsolated
    RunMeans
    OutcomeDescribesProgram
    FeedbackComplete
PROPERTIES
    Terminates
CHECK_DEADLOCK FALSE
