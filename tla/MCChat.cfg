SPECIFICATION Spec
CONSTANTS
    Turns = {t1, t2}
    UnitCost = 2
    Cost <- SameCost
    RoundedUp = {t2}
    Budgets = {2, 3}
    EmbeddingCost = 1
    MaxHistory = 3
    MaxMonth = 1
    MaxEmbeddings = 1
    MaxBudgetChanges = 1
INVARIANTS
    TypeOK
    AlertMeansReached
    AlertsOverlap
    CrossingNoticed
    FollowUpSeesAnswer
    AnswersAreCharged
CHECK_DEADLOCK FALSE
