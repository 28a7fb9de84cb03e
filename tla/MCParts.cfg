\* Four calls; two records put three times; two requests to prepare; two
\* accounts on four blocks; an auction, two bots and two connections; three
\* RFQs and two workers; two revisions of the portfolio; two withdrawals, and two
\* repayments begun by either of two clicks; two wallets and two subaccounts; two
\* orders and two sales.
SPECIFICATION PartsSpec
CONSTANTS
    Parts = {"lock", "log", "prepare", "directory", "maker", "admission", "hedge",
             "withdraw", "repay", "accounts", "sale"}
    accept1 = accept1
    accept2 = accept2
    quote1 = quote1
    withdraw = withdraw
    NoJob = NoJob
    Jobs <- MCJobs
    Keys <- MCKeys
    Need <- MCNeed
    Ids = {i1, i2}
    Junk = Junk
    NoTail = NoTail
    ErrorLeaves = {"none", "part", "line"}
    MaxPuts = 3
    MaxErrors = 1
    MaxCrashes = 2
    Askers = {s1, s2}
    AskKeys = {d1}
    Amounts = {3, 4}
    CashStates <- MCCashStates
    Reservations = {0, 4}
    Conversions <- MCConversions
    NoAsk = NoAsk
    NoOperation = NoOperation
    MaxAsks = 2
    MaxPins = 2
    MaxUndone = 1
    Accounts = {a1, a2}
    Owners = {o1}
    NoOwner = NoOwner
    NoRow = NoRow
    NoCheckpoint = NoCheckpoint
    NoAnswer = NoAnswer
    Confirmations = 1
    ChunkSize = 2
    DeepAnytime = FALSE
    MaxBlocks = 4
    MaxEvents = 1
    MaxReorgs = 1
    MaxDepth = 2
    MaxFailures = 1
    Auctions = {r1}
    Bots = {b1, b2}
    MaxConnections = 2
    near = near
    far = far
    Rfqs = {q1, q2, q3}
    Workers = {k1, k2}
    Exposures <- MCExposures
    Limits <- MCLimits
    NoSlice = NoSlice
    MaxLedgerVersion = 3
    Lot = 3
    Band = 1
    MinimumOrder = 3
    Deltas <- MCDeltas
    Depths = {6, 15}
    Permitted = 12
    UsedMargins = {2, 5}
    MaxRevision = 2
    NoPlan = NoPlan
    Withdrawals = {w1, w2}
    NoWithdrawal = NoWithdrawal
    MaxReloads = 1
    MaxGets = 1
    Intents = {1, 2}
    Clicks = {c1, c2}
    CheckButton = CheckButton
    NoRecord = NoRecord
    MaxPageLoads = 2
    Wallets = {u1, u2}
    Subaccounts = {1, 2}
    NoWallet = NoWallet
    NoSubaccount = NoSubaccount
    NoList = NoList
    MaxSwitches = 2
    SaleOrders = {o2, o3}
    NoOrder = NoOrder
    Sales = {s3, s4}
    NoSale = NoSale
    Requests = {p1, p2}
    Acceptances = {k3, k4}
    Hasty = TRUE
INVARIANTS
    MutualExclusion
    FirstComeFirstServed
    PartsTypeOK
    ProjectionExact
    LiveAuctionsReachMaker
    PreparedAsAsked
    AnyFillsWithinLimits
    HedgeOnlyImproves
    SignedIsRemembered
    RepaidOnceUnlessOverlapped
    SelectionIsOwn
    ShownUnlessCrossed
PROPERTIES
    CallsReturn
    LocksAreMutexes
    ImplementsDurableMap
    CheckpointOnlyExtends
    AnswersExact
    CatchesUp
CHECK_DEADLOCK FALSE
