SPECIFICATION WithdrawalSpec
CONSTANTS
    w1 = w1
    w2 = w2
    c1 = c1
    c2 = c2
    aliceSub = aliceSub
    Recoverer = Recoverer
    NoTx = NoTx
    Nobody = Nobody
    LostBroadcast = LostBroadcast
    ManyLost = ManyLost
    Ops <- MCWithdrawals
    Withdrawals <- MCWithdrawals
    Clients <- MCClients
    Accounts <- MCAccounts
    Debited <- MCDebited
    Amount <- MCAmount
    InitialCash <- MCInitialCash
    UsedElsewhere <- MCUsedElsewhere
    MaxCrashes = 1
SYMMETRY MCSymmetry
INVARIANTS
    WithdrawalEngineTypeOK
    AtMostOneBroadcast
    OpOutcomeIsTrue
    NeverOverdrawn
