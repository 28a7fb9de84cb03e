SPECIFICATION DirectorySpec
CONSTANTS
    Accounts = {a1}
    Owners = {o1, o2}
    NoOwner = NoOwner
    NoRow = NoRow
    NoCheckpoint = NoCheckpoint
    NoAnswer = NoAnswer
    Confirmations = 1
    ChunkSize = 2
    DeepAnytime = FALSE
    MaxBlocks = 4
    MaxEvents = 1
    MaxReorgs = 1
    MaxDepth = 2
    MaxFailures = 1
PROPERTIES
    EmptyOnlyWhenSynced
