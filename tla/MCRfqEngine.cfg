SPECIFICATION FairServiceSpec
CONSTANTS
    r1 = r1
    a1 = a1
    a1b = a1b
    w1 = w1
    c1 = c1
    alice = alice
    takerSub = takerSub
    aliceSub = aliceSub
    Recoverer = Recoverer
    NoTx = NoTx
    NoQuote = NoQuote
    Nobody = Nobody
    LostBroadcast = LostBroadcast
    ManyLost = ManyLost
    Ops = {r1, w1}
    Rfqs = {r1}
    Quotes = {a1, a1b}
    Withdrawals = {w1}
    Clients = {c1}
    Accounts = {takerSub, aliceSub}
    RfqOf <- MCRfqOf
    MakerOf <- MCMakerOf
    AccountOf <- MCAccountOf
    Premium <- MCPremium
    Cost <- MCPremium
    TakerAccount <- MCTakerAccount
    Debited <- MCDebited
    Amount <- MCAmount
    InitialCash <- MCInitialCash
    UsedElsewhere <- MCUsedElsewhere
    MaxCrashes = 1
    MaxPutFailures = 1
INVARIANTS
    OneLiveTx
PROPERTIES
    ReservationsStayCovered
    KeysComeBack
