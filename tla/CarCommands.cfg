SPECIFICATION Spec
CHECK_DEADLOCK FALSE
CONSTANTS
    MaxAttempts = 2
    Tokens = {1}
    Parts = {1}
    Earlier = {0, 1}
    Contents = {a, b}
    CaseTexts <- MCCaseTexts
    MaxResults = 2
    MaxFixtureEdits = 2
    Tasks <- MCTasks
    Scores = {20, 60, 70, 90}
INVARIANTS
    AdviceOnlyRaises
    RequestsAdmitted
    AttemptsJustified
    FairComparison
    TotalsComplete
