------------------------ MODULE SubaccountDirectory ------------------------
(***************************************************************************)
(* The projection of Matching's deposit and withdrawal events into a       *)
(* wallet-to-account table (subaccount-directory.ts), over the DynamoDB    *)
(* store (dynamodb-subaccount-directory.ts).  One worker repeats syncOnce, *)
(* one call to the chain or to the table per step; GET /subaccounts reads  *)
(* the checkpoint and then, in a second call, the rows.  A pass that       *)
(* throws and a process that restarts are the same to the table: the next  *)
(* pass starts from the checkpoint it finds.                               *)
(*                                                                         *)
(* The chain is external: a sequence of blocks from the deployment block,  *)
(* numbered 1, each the events it holds and the fork it was mined on.  A   *)
(* block's hash commits to its whole history, so the hash of block b is    *)
(* the chain up to b.                                                      *)
(***************************************************************************)
EXTENDS Naturals, FiniteSets, SequencesExt

CONSTANTS
    Accounts,       \* Matching's subaccounts
    Owners,         \* wallets
    NoOwner,        \* the owner in a withdrawal event
    NoRow,          \* an account without a row
    NoCheckpoint,   \* no checkpoint is stored
    NoAnswer,       \* no GET /subaccounts has been answered, or one is under way
    Confirmations,  \* options.confirmationBlocks
    ChunkSize,      \* options.chunkSize
    DeepAnytime,    \* a reorganisation deeper than Confirmations may fall in a pass
    MaxBlocks,      \* bound: blocks of the chain
    MaxEvents,      \* bound: events of a block
    MaxReorgs,      \* bound: reorganisations
    MaxDepth,       \* bound: blocks a reorganisation replaces
    MaxFailures     \* bound: passes that fail on a call

ASSUME DirectoryAssumption ==
    /\ NoOwner \notin Owners
    /\ Confirmations \in Nat /\ ChunkSize \in Nat \ {0}
    /\ DeepAnytime \in BOOLEAN
    /\ MaxBlocks \in Nat /\ MaxEvents \in Nat /\ MaxReorgs \in Nat
    /\ MaxDepth \in Nat /\ MaxFailures \in Nat

VARIABLES
    chain,       \* the canonical chain
    reorgs,
    rows,        \* rows[a]: the table's row of account a
    checkpoint,  \* the table's checkpoint
    step,        \* the next call of syncOnce
    from,        \* fromBlock
    safe,        \* safeHead
    pending,     \* events of the chunk still to apply
    hash,        \* blockHash
    hadReady,    \* hadReadyProjection
    failures,
    reading,     \* the checkpoint a request has read
    answer       \* the answer of the latest GET /subaccounts

chainVars == <<chain, reorgs>>
passVars == <<step, from, safe, pending, hash, hadReady, failures>>
tableVars == <<rows, checkpoint>>
readVars == <<reading, answer>>
directoryVars == <<chainVars, passVars, tableVars, readVars>>

Steps == {"compare", "reset", "rows", "head", "events", "apply", "save"}

-----------------------------------------------------------------------------
\* Matching: an account is deposited by a wallet that holds it, and withdrawn
\* while Matching holds it.
Events == [account : Accounts, owner : Owners \cup {NoOwner}]

Blocks == [fork : 0..MaxReorgs,
           events : UNION {[1..n -> Events] : n \in 0..MaxEvents}]

ASSUME CheckpointAssumption ==
    NoCheckpoint \notin [block : Nat, hash : Seq(Blocks), ready : BOOLEAN]
ASSUME RowAssumption ==
    NoRow \notin [owner : Owners, active : BOOLEAN, at : Nat \X Nat]

\* The logs of blocks f to t of chain c, each with its position.
LogsIn(c, f, t) ==
    UNION {{[account |-> c[b].events[i].account, owner |-> c[b].events[i].owner,
             at |-> <<b, i>>] : i \in DOMAIN c[b].events} : b \in f..t}

\* comparePositions, isNewer
IsBefore(p, q) == \/ p[1] < q[1]
                  \/ p[1] = q[1] /\ p[2] < q[2]

\* events.sort(comparePositions): getLogs promises no order.
Sorted(logs) ==
    [i \in 1..Cardinality(logs) |->
        CHOOSE l \in logs : Cardinality({k \in logs : IsBefore(k.at, l.at)}) = i - 1]

History(c) == Sorted(LogsIn(c, 1, Len(c)))

\* A deposit and a withdrawal of an account alternate, the deposit first.
Legal(c) ==
    LET logs == History(c)
    IN  \A a \in Accounts :
            LET mine == SelectSeq(logs, LAMBDA l : l.account = a)
            IN  \A i \in DOMAIN mine : (mine[i].owner = NoOwner) <=> (i % 2 = 0)

Mine ==
    /\ Len(chain) < MaxBlocks
    /\ \E block \in Blocks :
          /\ block.fork = reorgs
          /\ chain' = Append(chain, block)
    /\ Legal(chain')
    /\ UNCHANGED <<reorgs, passVars, tableVars, readVars>>

\* The last d blocks are replaced by d others.  Deeper than the confirmations,
\* between two passes, unless DeepAnytime.
Reorg(d) ==
    /\ reorgs < MaxReorgs
    /\ d \in 1..Len(chain)
    /\ d <= Confirmations \/ step = "idle" \/ DeepAnytime
    /\ reorgs' = reorgs + 1
    /\ \E suffix \in [1..d -> {b \in Blocks : b.fork = reorgs'}] :
          chain' = SubSeq(chain, 1, Len(chain) - d) \o suffix
    /\ Legal(chain')
    /\ UNCHANGED <<passVars, tableVars, readVars>>

Hash(b) == SubSeq(chain, 1, b)

-----------------------------------------------------------------------------
DirectoryInit ==
    /\ chain = <<>> /\ reorgs = 0
    /\ rows = [a \in Accounts |-> NoRow]
    /\ checkpoint = NoCheckpoint
    /\ step = "idle" /\ from = 0 /\ safe = 0
    /\ pending = <<>> /\ hash = <<>> /\ hadReady = FALSE
    /\ failures = 0
    /\ reading = NoCheckpoint /\ answer = NoAnswer

\* The pass is over, its locals forgotten.
PassEnds(how) ==
    /\ step' = how
    /\ from' = 0 /\ safe' = 0 /\ pending' = <<>> /\ hash' = <<>> /\ hadReady' = FALSE

\* The worker's timer, or the first run after a restart, reads the checkpoint.
StartPass ==
    /\ step \in {"idle", "failed"}
    /\ IF checkpoint = NoCheckpoint
       THEN step' = "reset" /\ from' = 1 /\ hadReady' = FALSE
       ELSE /\ step' = "compare"
            /\ from' = checkpoint.block + 1
            /\ hadReady' = checkpoint.ready
    /\ UNCHANGED <<chainVars, safe, pending, hash, failures, tableVars, readVars>>

\* The last block with enough blocks above it.
SafeHead == IF Len(chain) > Confirmations THEN Len(chain) - Confirmations ELSE 0

\* Mutant: the confirmed head's hash is compared with the checkpoint's.
ComparedHead == SafeHead

\* The block whose hash is compared with the checkpoint's.
Compared == checkpoint.block

\* getBlockHash of the checkpoint's block
Compare ==
    /\ step = "compare"
    /\ IF Hash(Compared) = checkpoint.hash
       THEN step' = "head" /\ UNCHANGED <<from, hadReady>>
       ELSE step' = "reset" /\ from' = 1 /\ hadReady' = FALSE
    /\ UNCHANGED <<chainVars, safe, pending, hash, failures, tableVars, readVars>>

\* Mutant: only the checkpoint is deleted.
ResetCheckpointOnly ==
    /\ step = "reset"
    /\ step' = "head"
    /\ checkpoint' = NoCheckpoint
    /\ UNCHANGED <<chainVars, from, safe, pending, hash, hadReady, failures, rows, readVars>>

\* reset: the checkpoint is deleted first, then the rows in batches.
ResetCheckpoint ==
    /\ step = "reset"
    /\ step' = "rows"
    /\ checkpoint' = NoCheckpoint
    /\ UNCHANGED <<chainVars, from, safe, pending, hash, hadReady, failures, rows, readVars>>

ResetRow(a) ==
    /\ step = "rows"
    /\ rows[a] # NoRow
    /\ rows' = [rows EXCEPT ![a] = NoRow]
    /\ UNCHANGED <<chainVars, passVars, checkpoint, readVars>>

ResetEnds ==
    /\ step = "rows"
    /\ \A a \in Accounts : rows[a] = NoRow
    /\ step' = "head"
    /\ UNCHANGED <<chainVars, from, safe, pending, hash, hadReady, failures, tableVars, readVars>>

\* Mutant: a pass with one new block ends.
ReadHeadEarly ==
    /\ step = "head"
    /\ IF SafeHead <= from
       THEN PassEnds("idle")
       ELSE step' = "events" /\ safe' = SafeHead /\ UNCHANGED <<from, pending, hash, hadReady>>
    /\ UNCHANGED <<chainVars, failures, tableVars, readVars>>

\* getBlockNumber; a pass with no new block ends.
ReadHead ==
    /\ step = "head"
    /\ IF SafeHead < from
       THEN PassEnds("idle")
       ELSE step' = "events" /\ safe' = SafeHead /\ UNCHANGED <<from, pending, hash, hadReady>>
    /\ UNCHANGED <<chainVars, failures, tableVars, readVars>>

ToBlock == Min({from + ChunkSize - 1, safe})

GetEvents ==
    /\ step = "events"
    /\ step' = "apply"
    /\ pending' = Sorted(LogsIn(chain, from, ToBlock))
    /\ UNCHANGED <<chainVars, from, safe, hash, hadReady, failures, tableVars, readVars>>

\* The event is newer than the row of its account.
Newer(log) == rows[log.account] = NoRow \/ IsBefore(rows[log.account].at, log.at)

\* "withdrawal for unknown subaccount"
UnknownWithdrawal ==
    /\ step = "apply" /\ pending # <<>>
    /\ Head(pending).owner = NoOwner
    /\ rows[Head(pending).account] = NoRow

Applied(log) ==
    [owner |-> IF log.owner = NoOwner THEN rows[log.account].owner ELSE log.owner,
     active |-> log.owner # NoOwner,
     at |-> log.at]

ApplyEvent ==
    /\ step = "apply" /\ pending # <<>>
    /\ ~UnknownWithdrawal
    /\ LET log == Head(pending)
       IN  rows' = IF Newer(log) THEN [rows EXCEPT ![log.account] = Applied(log)] ELSE rows
    /\ pending' = Tail(pending)
    /\ UNCHANGED <<chainVars, step, from, safe, hash, hadReady, failures, checkpoint, readVars>>

\* Mutant: getBlockHash of the confirmed head.
ReadHashOfHead ==
    /\ step = "apply" /\ pending = <<>>
    /\ step' = "save"
    /\ hash' = Hash(safe)
    /\ UNCHANGED <<chainVars, from, safe, pending, hadReady, failures, tableVars, readVars>>

\* getBlockHash of the chunk's last block
ReadHash ==
    /\ step = "apply" /\ pending = <<>>
    /\ step' = "save"
    /\ hash' = Hash(ToBlock)
    /\ UNCHANGED <<chainVars, from, safe, pending, hadReady, failures, tableVars, readVars>>

\* A checkpoint never goes back: the table refuses, and the refusal is ignored.
SaveCheckpoint ==
    /\ step = "save"
    /\ checkpoint' = IF checkpoint = NoCheckpoint \/ checkpoint.block <= ToBlock
                     THEN [block |-> ToBlock, hash |-> hash,
                           ready |-> hadReady \/ ToBlock = safe]
                     ELSE checkpoint
    /\ IF ToBlock < safe
       THEN /\ step' = "events" /\ from' = ToBlock + 1
            /\ hash' = <<>>
            /\ UNCHANGED <<safe, pending, hadReady>>
       ELSE PassEnds("idle")
    /\ UNCHANGED <<chainVars, failures, rows, readVars>>

\* A call to the chain or to the table throws, a write of it perhaps done; or
\* the process stops; or the event cannot be applied.
PassFails ==
    /\ step \in Steps
    /\ failures < MaxFailures \/ UnknownWithdrawal
    /\ failures' = IF UnknownWithdrawal THEN failures ELSE failures + 1
    /\ PassEnds("failed")
    /\ UNCHANGED <<chainVars, tableVars, readVars>>

-----------------------------------------------------------------------------
\* getAccounts: the checkpoint; without a ready one the answer is 503.
ReadCheckpoint ==
    /\ reading = NoCheckpoint
    /\ checkpoint # NoCheckpoint /\ checkpoint.ready
    /\ reading' = checkpoint /\ answer' = NoAnswer
    /\ UNCHANGED <<chainVars, passVars, tableVars>>

\* Mutant: withdrawn accounts are listed.
ListedAll(o) == {a \in Accounts : rows[a] # NoRow /\ rows[a].owner = o}

\* The owner index holds active rows only.
Listed(o) == {a \in Accounts : rows[a] # NoRow /\ rows[a].active /\ rows[a].owner = o}

\* getAccounts: the rows, a call later; the answer is 200.
ListAccounts(o) ==
    /\ reading # NoCheckpoint
    /\ reading' = NoCheckpoint
    /\ answer' = [owner |-> o, accounts |-> Listed(o)]
    /\ UNCHANGED <<chainVars, passVars, tableVars>>

PassStep ==
    \/ StartPass \/ Compare
    \/ ResetCheckpoint \/ (\E a \in Accounts : ResetRow(a)) \/ ResetEnds
    \/ ReadHead \/ GetEvents \/ ApplyEvent \/ ReadHash \/ SaveCheckpoint

DirectoryNext ==
    \/ PassStep \/ PassFails
    \/ ReadCheckpoint \/ (\E o \in Owners : ListAccounts(o))
    \/ Mine \/ (\E d \in 1..MaxDepth : Reorg(d))

\* The worker's loop goes on: its timer fires, its calls return or throw.
DirectorySpec == DirectoryInit /\ [][DirectoryNext]_directoryVars /\ WF_directoryVars(PassStep)

-----------------------------------------------------------------------------
Rows == [owner : Owners, active : BOOLEAN, at : (1..MaxBlocks) \X (1..MaxEvents)]

IsCheckpoint(c) ==
    /\ DOMAIN c = {"block", "hash", "ready"}
    /\ c.block \in 1..MaxBlocks /\ c.ready \in BOOLEAN
    /\ Len(c.hash) = c.block /\ ToSet(c.hash) \subseteq Blocks

\* The table and the pass hold what their types say; a checkpoint's hash is
\* the hash of the block it names (syncOnce).
DirectoryTypeOK ==
    /\ Len(chain) <= MaxBlocks /\ ToSet(chain) \subseteq Blocks
    /\ rows \in [Accounts -> Rows \cup {NoRow}]
    /\ checkpoint = NoCheckpoint \/ IsCheckpoint(checkpoint)
    /\ step \in Steps \cup {"idle", "failed"}
    /\ from \in 0..MaxBlocks + 1 /\ safe \in 0..MaxBlocks
    /\ hadReady \in BOOLEAN
    /\ reading = NoCheckpoint \/ (IsCheckpoint(reading) /\ reading.ready)
    /\ answer = NoAnswer \/ answer \in [owner : Owners, accounts : SUBSET Accounts]

\* The rows a history of logs leaves, account by account, from its last log.
Projection(logs) ==
    [a \in Accounts |->
        LET mine == {i \in DOMAIN logs : logs[i].account = a}
            given == {i \in mine : logs[i].owner # NoOwner}
        IN  IF mine = {} THEN NoRow
            ELSE [owner |-> logs[Max(given)].owner,
                  active |-> Max(mine) \in given,
                  at |-> logs[Max(mine)].at]]

\* The projections of the history c and, while c is canonical, of what the
\* chain has added to it.
ProjectionsFrom(c) ==
    LET known == History(c)
        all == History(chain)
    IN  {Projection(known)} \cup
        IF IsPrefix(c, chain)
        THEN {Projection(SubSeq(all, 1, n)) : n \in Len(known)..Len(all)}
        ELSE {}

\* While a checkpoint is stored the rows are the projection of the history its
\* hash commits to, or of that history and some of the logs after it: across
\* failed passes and half-done resets no log is lost, applied out of order or
\* kept from a chain that is no longer canonical (syncOnce, applyEvent, reset).
ProjectionExact ==
    checkpoint # NoCheckpoint => rows \in ProjectionsFrom(checkpoint.hash)

\* A stored checkpoint is only replaced by one whose history extends it, and
\* only dropped when its own history is no longer canonical: no answer goes
\* back in time while its block is canonical (syncOnce, setCheckpoint).
CheckpointOnlyExtends ==
    [][checkpoint # NoCheckpoint /\ checkpoint' # checkpoint =>
         IF checkpoint' = NoCheckpoint
         THEN ~IsPrefix(checkpoint.hash, chain)
         ELSE IsPrefix(checkpoint.hash, checkpoint'.hash)]_directoryVars

Answers == reading # NoCheckpoint /\ reading' = NoCheckpoint

\* An answer given while the checkpoint it names, or a ready one that extends
\* it, is stored lists what the owner held at the stored one or since, as if
\* the two reads were one (getAccounts, listActiveAccountIds).
AnswersExact ==
    [][Answers /\ checkpoint # NoCheckpoint /\ IsPrefix(reading.hash, checkpoint.hash) =>
         \E p \in ProjectionsFrom(checkpoint.hash) :
             answer'.accounts = {a \in Accounts : /\ p[a] # NoRow /\ p[a].active
                                                  /\ p[a].owner = answer'.owner}]_directoryVars

Synced == checkpoint # NoCheckpoint /\ checkpoint.ready

\* Wallet o holds an account at the end of the history c.
Holds(o, c) ==
    LET p == Projection(History(c))
    IN  \E a \in Accounts : p[a] # NoRow /\ p[a].active /\ p[a].owner = o

\* "The endpoint returns ... 503 while disabled, unsynchronized, or unable to
\* read storage; those states are never returned as an empty successful list"
\* (services/rfq-engine/README.md): while the directory is unsynchronized a
\* wallet is not answered an empty list when it holds an account both at the
\* checkpoint the answer names and on the confirmed chain.
EmptyOnlyWhenSynced ==
    [][/\ Answers /\ answer'.accounts = {}
       /\ Holds(answer'.owner, reading.hash) /\ Holds(answer'.owner, Hash(SafeHead))
       => Synced]_directoryVars

\* The directory catches up with the confirmed chain for good, whatever passes
\* fail and whatever is reorganised (SubaccountDirectoryWorker, syncOnce).
CatchesUp ==
    <>[](SafeHead > 0 => Synced /\ checkpoint.hash = Hash(SafeHead))
=============================================================================
