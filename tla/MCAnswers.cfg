SPECIFICATION Spec
CONSTANTS
    Docs = {d1, d2}
    PerDoc = 2
    CandidateK = 2
    RrfK = 60
    Limit = 2
    MaxRuns = 2
    MaxTitles = 2
    MaxTokens = 2
    Texts <- ShortTexts
    Sizes <- SmallSizes
    Symbols <- FewSymbols
    Streams <- ShortStreams
INVARIANTS
    ChunksAreWindows
    FramesSurviveReads
    TypeOK
    OneEdition
    BestFirst
    CitationsResolve
    UsageIsFinal
SYMMETRY Symmetry
CHECK_DEADLOCK FALSE
