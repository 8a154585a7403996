SPECIFICATION FairSpec
CONSTANTS
    Orgs = {o1, o2}
    Kinds = {ready, failed}
    Hooks = {h1, h2}
    Deliveries = {e1, e2}
    MaxRedeliveries = 1
    MaxFaults = 1
INVARIANTS
    TypeOK
    OwnHooksOnly
PROPERTIES
    EveryHookPosted
CHECK_DEADLOCK FALSE
