------------------------- MODULE ActiveExpiryIndex -------------------------
(***************************************************************************)
(* The durable index of non-zero option balances that the oracle daemon    *)
(* replays from SubAccounts.BalanceAdjusted (activeExpiryIndex.ts).        *)
(* Several loops of the daemon share one index; sync chains their passes   *)
(* through syncTail, one call to the node or to the file per step.         *)
(*                                                                         *)
(* The chain is external: blocks from the deployment block, numbered 1,    *)
(* each with the fork it was mined on and at most one event that matters.  *)
(* A block's number and fork determine the history below it, so they are   *)
(* its hash.  An account holds options of one series, and a balance is     *)
(* held or zero.                                                           *)
(***************************************************************************)
EXTENDS Naturals, SequencesExt

CONSTANTS
    Accounts,       \* subaccounts that trade options
    Expiry,         \* Expiry[a]: the expiry of the series account a trades
    Callers,        \* the daemon's loops that share the index
    Scenarios,      \* bound: which loops wake and which accounts trade
    NoEvent,        \* a block with nothing of interest
    NoState,        \* no state: in memory before the first sync, or no file
    Confirmations,  \* options.confirmations
    ChunkSize,      \* options.chunkSize
    MaxReorgs,      \* bound: reorganisations
    MaxDepth,       \* bound: blocks a reorganisation drops
    MaxFaults       \* bound: calls that fail and stops of the process

ASSUME IndexAssumption ==
    /\ Expiry \in [Accounts -> Nat \ {0}]
    /\ Scenarios \subseteq [loops : SUBSET Callers, traders : SUBSET Accounts]
    /\ Confirmations \in Nat /\ ChunkSize \in Nat \ {0}
    /\ MaxReorgs \in Nat /\ MaxDepth \in Nat /\ MaxFaults \in Nat

VARIABLES
    scenario,   \* one of Scenarios, throughout
    blocks,     \* the canonical chain
    fork,       \* reorganisations so far
    now,        \* the chain's clock
    memory,     \* this.state
    file,       \* the state file
    calls,      \* syncTail: the loops whose sync has not returned, in order
    returned,   \* returned[c]: how the sync of loop c ended
    at,         \* the next call of performSync
    safeHead,   \* safeHead of the running pass
    fetched,    \* the positions after the logs of the chunk
    faults      \* failed calls and stops so far

chainVars == <<scenario, blocks, fork, now>>
syncVars == <<calls, returned, at, safeHead, fetched>>
passVars == <<syncVars, faults>>
indexVars == <<chainVars, memory, file, passVars>>

Expiries == {Expiry[a] : a \in Accounts}
Opened(a) == [what |-> "opened", of |-> a]
Closed(a) == [what |-> "closed", of |-> a]
Priced(e) == [what |-> "priced", of |-> e]
BalanceEvents == {Opened(a) : a \in Accounts} \cup {Closed(a) : a \in Accounts}
Events == BalanceEvents \cup {Priced(e) : e \in Expiries}

-----------------------------------------------------------------------------
\* applyBalanceAdjustment: the event's post-balance replaces the entry, and a
\* zero removes it; other events are not the index's.
Adjusted(held, event) ==
    CASE event \in {Opened(a) : a \in Accounts} -> held \cup {event.of}
      [] event \in {Closed(a) : a \in Accounts} -> held \ {event.of}
      [] OTHER -> held

\* The balances after blocks f to t are applied to those in held.
Replayed(held, f, t) ==
    FoldLeft(LAMBDA acc, b : Adjusted(acc, b.event), held, SubSeq(blocks, f, t))

HeldAt(n) == Replayed({}, 1, n)
HeldNow == HeldAt(Len(blocks))
IsPriced(e) == \E n \in DOMAIN blocks : blocks[n].event = Priced(e)
HashOf(n) == <<n, blocks[n].fork>>

MineBlock(event) == blocks' = Append(blocks, [fork |-> fork, event |-> event])

\* A trade opens a position before its expiry.
Trade(a) ==
    /\ a \in scenario.traders
    /\ now < Expiry[a]
    /\ a \notin HeldNow
    /\ MineBlock(Opened(a))
    /\ UNCHANGED <<scenario, fork, now, memory, file, passVars>>

\* A block with nothing of interest, while an event waits for confirmations.
EmptyBlock ==
    /\ \E n \in DOMAIN blocks : n + Confirmations > Len(blocks) /\ blocks[n].event # NoEvent
    /\ MineBlock(NoEvent)
    /\ UNCHANGED <<scenario, fork, now, memory, file, passVars>>

Tick ==
    /\ now < Max(Expiries)
    /\ now' = now + 1
    /\ UNCHANGED <<scenario, blocks, fork, memory, file, passVars>>

\* The last d blocks are dropped.  What is final when a pass reads the head
\* stays while the pass lasts: deeper reorganisations fall between passes.
DropBlocks(d) ==
    /\ fork < MaxReorgs
    /\ d \in 1..Len(blocks)
    /\ Len(blocks) - d >= safeHead
    /\ blocks' = SubSeq(blocks, 1, Len(blocks) - d)
    /\ fork' = fork + 1
    /\ UNCHANGED <<scenario, now, memory, file, passVars>>

-----------------------------------------------------------------------------
IndexInit ==
    /\ scenario \in Scenarios
    /\ blocks = <<>> /\ fork = 0 /\ now = 0
    /\ memory = NoState /\ file = NoState
    /\ calls = <<>> /\ returned = [c \in Callers |-> "none"]
    /\ at = "idle" /\ safeHead = 0 /\ fetched = {}
    /\ faults = 0

\* sync: the pass starts when the passes asked for before it have ended.
CallSync(c) ==
    /\ c \in scenario.loops
    /\ c \notin ToSet(calls)
    /\ calls' = Append(calls, c)
    /\ at' = IF calls = <<>> THEN "head" ELSE at
    /\ UNCHANGED <<chainVars, memory, file, returned, safeHead, fetched, faults>>

\* Mutant: a pass that throws leaves the passes behind it in the queue.
SyncReturnsStuck(how) ==
    /\ calls' = Tail(calls)
    /\ returned' = [returned EXCEPT ![Head(calls)] = how]
    /\ at' = IF Len(calls) > 1 /\ how = "ok" THEN "head" ELSE "idle"
    /\ safeHead' = 0 /\ fetched' = {}

\* performSync returns or throws, and the next pass starts.
SyncReturns(how) ==
    /\ calls' = Tail(calls)
    /\ returned' = [returned EXCEPT ![Head(calls)] = how]
    /\ at' = IF Len(calls) > 1 THEN "head" ELSE "idle"
    /\ safeHead' = 0 /\ fetched' = {}

\* safeHead, zero when the chain is shorter
FinalHead == IF Len(blocks) > Confirmations THEN Len(blocks) - Confirmations ELSE 0

\* getBlockNumber and ensureState: the state in memory, else the file's.
ReadLatest ==
    /\ at = "head"
    /\ IF Len(blocks) < Confirmations
       THEN SyncReturns("ok") /\ UNCHANGED memory
       ELSE /\ safeHead' = FinalHead
            /\ memory' = IF memory = NoState THEN file ELSE memory
            /\ at' = IF memory' = NoState THEN "reset" ELSE "check"
            /\ UNCHANGED <<calls, returned, fetched>>
    /\ UNCHANGED <<chainVars, file, faults>>

\* Mutant: a checkpoint that is not above the final head is trusted.
CheckpointStaleByHeight ==
    /\ memory.last > 0
    /\ memory.last > safeHead

\* ensureCheckpointCanonical: the checkpoint is ahead of the final head, or
\* its block's hash is another now.
CheckpointStale ==
    /\ memory.last > 0
    /\ \/ memory.last > safeHead
       \/ memory.hash # HashOf(memory.last)

Check ==
    /\ at = "check"
    /\ CASE CheckpointStale -> at' = "reset" /\ UNCHANGED <<calls, returned, safeHead, fetched>>
         [] ~CheckpointStale /\ memory.last < safeHead ->
                at' = "logs" /\ UNCHANGED <<calls, returned, safeHead, fetched>>
         [] OTHER -> SyncReturns("ok")
    /\ UNCHANGED <<chainVars, memory, file, faults>>

\* saveState: the file is replaced in one rename, or the save throws.
Save(state) ==
    /\ memory' = state
    /\ \/ file' = state /\ UNCHANGED faults
       \/ /\ faults < MaxFaults
          /\ faults' = faults + 1
          /\ UNCHANGED file

Saved == file' = memory'

\* resetState, from the deployment block, which is final.
Reset ==
    /\ at = "reset" /\ safeHead > 0
    /\ Save([last |-> 0, hash |-> NoEvent, held |-> {}])
    /\ IF Saved
       THEN at' = "logs" /\ UNCHANGED <<calls, returned, safeHead, fetched>>
       ELSE SyncReturns("error")
    /\ UNCHANGED chainVars

ToBlock == Min({memory.last + ChunkSize, safeHead})

\* queryLogs of the chunk, applied to a copy of the positions.
QueryLogs ==
    /\ at = "logs"
    /\ fetched' = Replayed(memory.held, memory.last + 1, ToBlock)
    /\ at' = "hash"
    /\ UNCHANGED <<chainVars, memory, file, calls, returned, safeHead, faults>>

\* getBlock of the chunk's last block; positions and checkpoint are saved
\* together, in memory first.
Checkpoint ==
    /\ at = "hash"
    /\ Save([last |-> ToBlock, hash |-> HashOf(ToBlock), held |-> fetched])
    /\ IF Saved /\ memory'.last < safeHead
       THEN at' = "logs" /\ fetched' = {} /\ UNCHANGED <<calls, returned, safeHead>>
       ELSE SyncReturns(IF Saved THEN "ok" ELSE "error")
    /\ UNCHANGED chainVars

\* findDeploymentBlock: nothing is deployed at the final head.
Unanswerable == at = "reset" /\ safeHead = 0

\* A call of the pass throws; retries of one query are part of it.
SyncThrows ==
    /\ at # "idle"
    /\ faults < MaxFaults \/ Unanswerable
    /\ faults' = IF Unanswerable THEN faults ELSE faults + 1
    /\ SyncReturns("error")
    /\ UNCHANGED <<chainVars, memory, file>>

\* The process stops: memory is lost, the file is whole.
IndexForgets ==
    /\ memory' = NoState
    /\ calls' = <<>> /\ returned' = [c \in Callers |-> "none"]
    /\ at' = "idle" /\ safeHead' = 0 /\ fetched' = {}

SyncStep == ReadLatest \/ Check \/ Reset \/ QueryLogs \/ Checkpoint

ChainStep == (\E a \in Accounts : Trade(a)) \/ EmptyBlock \/ Tick

\* activeExpiries: what is held at expiries still to come.
ActiveExpiries(t) == {Expiry[a] : a \in memory.held} \ 0..t

\* expiredSeries: the expired positions, one series per expiry, earliest first.
ExpiredSeries(t) ==
    LET due == {Expiry[a] : a \in memory.held} \cap 0..t
    IN  [i \in 1..Cardinality(due) |->
            LET e == CHOOSE x \in due : Cardinality({y \in due : y < x}) = i - 1
            IN  [expiry |-> e, accounts |-> {a \in memory.held : Expiry[a] = e}]]

-----------------------------------------------------------------------------
IndexStates == [last : Nat, hash : {NoEvent} \cup (Nat \X (0..MaxReorgs)), held : SUBSET Accounts]

\* The index's state, file and pass have their types.
IndexTypeOK ==
    /\ \A n \in DOMAIN blocks : /\ blocks[n].fork \in 0..fork
                                /\ blocks[n].event \in Events \cup {NoEvent}
    /\ memory = NoState \/ memory \in IndexStates
    /\ file = NoState \/ file \in IndexStates
    /\ ToSet(calls) \subseteq Callers /\ IsInjective(calls)
    /\ returned \in [Callers -> {"none", "ok", "error"}]
    /\ at \in {"idle", "head", "check", "reset", "logs", "hash"}
    /\ (at = "idle") <=> (calls = <<>>)
    /\ fetched \subseteq Accounts

\* A state whose checkpoint names a block of the canonical chain holds exactly
\* the balances of that block, in memory and on disk: no event is lost, kept
\* from a dropped block or counted early, whatever passes fail or stop half
\* way (performSync, ensureCheckpointCanonical, resetState).
CheckpointVouches ==
    \A s \in {memory, file} \ {NoState} :
        s.last \in DOMAIN blocks /\ s.hash = HashOf(s.last) => s.held = HeldAt(s.last)
=============================================================================
