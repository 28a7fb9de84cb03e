SPECIFICATION MakerSpec
CONSTANTS
    Auctions = {r1}
    Bots = {b1}
    MaxConnections = 2
INVARIANTS
    ReconnectsMissNothing
CHECK_DEADLOCK FALSE
