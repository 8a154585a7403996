SPECIFICATION Spec
CONSTANTS
    Turns = {t1, t2}
    UnitCost = 1
    Cost <- SameCost
    RoundedUp = {}
    Budgets = {2}
    EmbeddingCost = 1
    MaxHistory = 2
    MaxMonth = 0
    MaxEmbeddings = 0
    MaxBudgetChanges = 0
INVARIANT
    CrossingAlerts

CHECK_DEADLOCK FALSE
