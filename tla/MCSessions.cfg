SPECIFICATION FairSpec
CONSTANTS
    boot = boot
    fetch = fetch
    Fetches <- PageCalls
    Boots <- LoadCalls
    Streams = {s1}
    MaxExpiries = 2
    MaxEvents = 2
INVARIANTS
    TypeOK
    SignedOutForCause
    FetchesShareExchange
    RotationKeepsOne
    LogoutRevokes
PROPERTY
    CallsEnd
CHECK_DEADLOCK FALSE
