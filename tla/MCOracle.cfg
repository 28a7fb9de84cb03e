\* Two accounts of one series, one reorganisation of up to two blocks and one
\* failure; a window of three seconds; three rounds in each of two phases; four
\* clock times of the scaled token.
SPECIFICATION OracleSpec
CONSTANTS
    Subjects = {"daemon", "twap", "feed", "registry"}
    Accounts = {1, 2}
    Expiry <- MCExpiry
    Scenarios <- MCScenarios
    Callers = {"feed", "settlement"}
    NoEvent = NoEvent
    NoState = NoState
    Confirmations = 1
    ChunkSize = 2
    MaxReorgs = 1
    MaxDepth = 2
    MaxFaults = 1
    Prices = {10, 31}
    WindowEnd = 6
    Duration = 3
    NoSeries = NoSeries
    Unloaded = Unloaded
    NothingPosted = NothingPosted
    AllowLate = TRUE
    MaxTwapFaults = 2
    FeedExpiries = {2}
    OwnerPrices = {p1}
    NoPrice = NoPrice
    NoProposal = NoProposal
    CheckWindow = 1
    RoundDelays = {1, 2}
    OverrideDelays = {1, 2}
    Skips = TRUE
    MaxFeedTime = 4
    MaxRounds = 3
    MaxPhases = 2
    Multipliers = {m1, m2}
    None = None
    MaxTokenTime = 4
INVARIANTS
    OracleTypeOK
    CheckpointVouches
    PostedIsTheArea
    AnchorIsFirst
    HistoryExact
PROPERTIES
    ExpiredIsSettled
    FixedOnceAndWaited
CHECK_DEADLOCK FALSE
