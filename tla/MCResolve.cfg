SPECIFICATION Spec
CONSTANTS
    None = None
    Graphs <- MCGraphs
    Requests <- MCRequests
    RowLimit = 2
    CandidateCap = 2
CHECK_DEADLOCK FALSE
INVARIANTS
    AnswerIsInScope
