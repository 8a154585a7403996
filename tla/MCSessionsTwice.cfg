SPECIFICATION Spec
CONSTANTS
    boot = boot
    fetch = fetch
    Fetches <- LoadCalls
    Boots <- LoadCalls
    Streams = {s1}
    MaxExpiries = 1
    MaxEvents = 1
INVARIANT
    ExchangedOnce
CHECK_DEADLOCK FALSE
