SPECIFICATION FairSpec
CONSTANTS
    r1 = r1
    r2 = r2
    a1 = a1
    b2 = b2
    alice = alice
    bob = bob
    taker1 = taker1
    taker2 = taker2
    aliceSub = aliceSub
    bobSub = bobSub
    NoTx = NoTx
    NoQuote = NoQuote
    Nobody = Nobody
    LostBroadcast = LostBroadcast
    ManyLost = ManyLost
    Ops <- MCRfqs
    Rfqs <- MCRfqs
    Quotes <- MCQuotes
    Accounts <- MCAccounts
    RfqOf <- MCRfqOf
    MakerOf <- MCMakerOf
    AccountOf <- MCAccountOf
    Premium <- MCPremium
    Cost <- MCCost
    TakerAccount <- MCTakerAccount
    InitialCash <- MCInitialCash
    MaxCrashes = 1
    MaxPutFailures = 0
PROPERTIES
    EveryRfqEnds
