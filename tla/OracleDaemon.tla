---------------------------- MODULE OracleDaemon ----------------------------
(***************************************************************************)
(* Two of the oracle daemon's loops over one ActiveExpiryIndex (cli.ts):   *)
(* the signed feed, which posts every expiry somebody holds, and the       *)
(* settlement worker with AUTO_SETTLE, which fixes the anchored price of   *)
(* an expired series and settles its accounts (settlement.ts, anchored.ts) *)
(* until confirmed zero-balance events remove them from the index.  A loop *)
(* that throws is caught by runPeriodic and runs again after its interval. *)
(*                                                                         *)
(* A transaction returns with the block that holds it, and the block may   *)
(* be dropped later: the accounts are settled again.                       *)
(***************************************************************************)
EXTENDS ActiveExpiryIndex

ASSUME DaemonAssumption ==
    /\ Callers = {"feed", "settlement"}
    /\ Accounts \subseteq Nat

VARIABLES
    feedAt,     \* the signed feed's next step
    workAt,     \* the settlement worker's next step
    series,     \* the expired series still to settle, the first in progress
    unsettled,  \* accounts of that series without a receipt
    cooldown    \* expiries settled lately

loopVars == <<feedAt, workAt, series, unsettled, cooldown>>
daemonVars == <<indexVars, loopVars>>

DaemonInit ==
    /\ IndexInit
    /\ feedAt = "idle"
    /\ workAt = "idle" /\ series = <<>> /\ unsettled = {} /\ cooldown = {}

\* The loop goes on with what its sync returned.
Forgotten(c) ==
    /\ returned' = [returned EXCEPT ![c] = "none"]
    /\ UNCHANGED <<chainVars, memory, file, calls, at, safeHead, fetched, faults>>

-----------------------------------------------------------------------------
\* runPeriodic: the interval is over and the loop asks for a sync.
FeedWakes ==
    /\ feedAt = "idle"
    /\ CallSync("feed")
    /\ feedAt' = "sync"
    /\ UNCHANGED <<workAt, series, unsettled, cooldown>>

FeedSynced ==
    /\ feedAt = "sync" /\ returned["feed"] # "none"
    /\ feedAt' = IF returned["feed"] = "ok" /\ memory # NoState THEN "clock" ELSE "idle"
    /\ Forgotten("feed")
    /\ UNCHANGED <<workAt, series, unsettled, cooldown>>

\* chainNow, then an update for the expiries the index holds by now: only the
\* feeds change, which nothing here reads.
FeedPosts ==
    /\ feedAt = "clock"
    /\ feedAt' = "idle"
    /\ UNCHANGED <<indexVars, workAt, series, unsettled, cooldown>>

-----------------------------------------------------------------------------
WorkWakes ==
    /\ workAt = "idle"
    /\ CallSync("settlement")
    /\ workAt' = "sync"
    /\ UNCHANGED <<feedAt, series, unsettled, cooldown>>

WorkSynced ==
    /\ workAt = "sync" /\ returned["settlement"] # "none"
    /\ workAt' = IF returned["settlement"] = "ok" /\ memory # NoState THEN "clock" ELSE "idle"
    /\ Forgotten("settlement")
    /\ UNCHANGED <<feedAt, series, unsettled, cooldown>>

\* chainNow, then the expired series of the index as it is now.
WorkLists ==
    /\ workAt = "clock"
    /\ workAt' = "next"
    /\ series' = ExpiredSeries(now)
    /\ UNCHANGED <<indexVars, feedAt, unsettled, cooldown>>

\* The loop's pass ends; whatever it had not come to is left to the next one.
WorkEnds == workAt' = "idle" /\ series' = <<>> /\ unsettled' = {}

\* The next series, past those in their cooldown.
WorkNext ==
    /\ workAt = "next"
    /\ LET due == SelectSeq(series, LAMBDA s : s.expiry \notin cooldown)
       IN  IF due = <<>>
           THEN WorkEnds
           ELSE workAt' = "read" /\ series' = due /\ unsettled' = Head(due).accounts
    /\ UNCHANGED <<indexVars, feedAt, cooldown>>

\* ensureAnchoredSettlementPrice reads whether the price is fixed.
ReadPrice ==
    /\ workAt = "read"
    /\ workAt' = IF IsPriced(Head(series).expiry) THEN "settle" ELSE "fix"
    /\ UNCHANGED <<indexVars, feedAt, series, unsettled, cooldown>>

\* fixSettlementPrice is mined, and the price read back.
FixPrice ==
    /\ workAt = "fix"
    /\ ~IsPriced(Head(series).expiry)
    /\ MineBlock(Priced(Head(series).expiry))
    /\ workAt' = "settle"
    /\ UNCHANGED <<scenario, fork, now, memory, file, passVars>>
    /\ UNCHANGED <<feedAt, series, unsettled, cooldown>>

\* fixSettlementPrice fails, or reverts because another keeper was first: a
\* price found now is as good, else the pass throws.
FixFails ==
    /\ workAt = "fix"
    /\ faults < MaxFaults \/ IsPriced(Head(series).expiry)
    /\ IF IsPriced(Head(series).expiry)
       THEN workAt' = "settle" /\ UNCHANGED <<series, unsettled, faults>>
       ELSE WorkEnds /\ faults' = faults + 1
    /\ UNCHANGED <<chainVars, memory, file, syncVars, feedAt, cooldown>>

\* Another keeper fixes the price of an expired series.
PeerFixes(e) ==
    /\ e <= now /\ ~IsPriced(e)
    /\ MineBlock(Priced(e))
    /\ UNCHANGED <<scenario, fork, now, memory, file, passVars, loopVars>>

\* settleOptions of the next account: its options are closed at the price,
\* or it holds none and nothing changes.
Settle ==
    /\ workAt = "settle" /\ unsettled # {}
    /\ IsPriced(Head(series).expiry)
    /\ LET a == Min(unsettled)
       IN  /\ unsettled' = unsettled \ {a}
           /\ IF a \in HeldNow THEN MineBlock(Closed(a)) ELSE UNCHANGED blocks
    /\ UNCHANGED <<scenario, fork, now, memory, file, passVars>>
    /\ UNCHANGED <<feedAt, workAt, series, cooldown>>

\* settleOptions fails or reverts, as it does without a price: the pass throws.
SettleFails ==
    /\ workAt = "settle" /\ unsettled # {}
    /\ faults < MaxFaults \/ ~IsPriced(Head(series).expiry)
    /\ faults' = IF IsPriced(Head(series).expiry) THEN faults + 1 ELSE faults
    /\ WorkEnds
    /\ UNCHANGED <<chainVars, memory, file, syncVars, feedAt, cooldown>>

\* Mutant: the accounts of a submitted series leave the index.
SeriesSubmittedForgotten ==
    /\ workAt = "settle" /\ unsettled = {}
    /\ workAt' = "next"
    /\ cooldown' = cooldown \cup {Head(series).expiry}
    /\ series' = Tail(series)
    /\ memory' = [memory EXCEPT !.held = @ \ Head(series).accounts]
    /\ UNCHANGED <<chainVars, file, passVars, feedAt, unsettled>>

\* Every account has a receipt; the series rests for SETTLEMENT_RETRY_SEC.
SeriesSubmitted ==
    /\ workAt = "settle" /\ unsettled = {}
    /\ workAt' = "next"
    /\ cooldown' = cooldown \cup {Head(series).expiry}
    /\ series' = Tail(series)
    /\ UNCHANGED <<indexVars, feedAt, unsettled>>

CooldownEnds(e) ==
    /\ e \in cooldown
    /\ cooldown' = cooldown \ {e}
    /\ UNCHANGED <<indexVars, feedAt, workAt, series, unsettled>>

\* The process stops and starts again with its file.
DaemonCrash ==
    /\ faults < MaxFaults
    /\ faults' = faults + 1
    /\ IndexForgets
    /\ feedAt' = "idle"
    /\ WorkEnds /\ cooldown' = {}
    /\ UNCHANGED <<chainVars, file>>

-----------------------------------------------------------------------------
FeedStep == FeedWakes \/ FeedSynced \/ FeedPosts
WorkStep == \/ WorkWakes \/ WorkSynced \/ WorkLists \/ WorkNext \/ ReadPrice
            \/ FixPrice \/ FixFails \/ Settle \/ SettleFails \/ SeriesSubmitted

DaemonNext ==
    \/ FeedStep \/ WorkStep
    \/ (\E e \in Expiries : CooldownEnds(e) \/ PeerFixes(e))
    \/ ((SyncStep \/ SyncThrows) /\ UNCHANGED loopVars)
    \/ ((ChainStep \/ \E d \in 1..MaxDepth : DropBlocks(d)) /\ UNCHANGED loopVars)
    \/ DaemonCrash

\* Intervals and cooldowns end, calls return or throw, blocks are mined.
DaemonSpec ==
    /\ DaemonInit /\ [][DaemonNext]_daemonVars
    /\ WF_daemonVars(FeedStep) /\ WF_daemonVars(WorkStep)
    /\ WF_daemonVars((SyncStep \/ SyncThrows) /\ UNCHANGED loopVars)
    /\ WF_daemonVars(EmptyBlock /\ UNCHANGED loopVars)
    /\ \A e \in Expiries : WF_daemonVars(CooldownEnds(e))

-----------------------------------------------------------------------------
\* The loops' states have their types, and the settlement worker has a series
\* in hand exactly while it works on one.
DaemonTypeOK ==
    /\ IndexTypeOK
    /\ feedAt \in {"idle", "sync", "clock"}
    /\ workAt \in {"idle", "sync", "clock", "next", "read", "fix", "settle"}
    /\ workAt \in {"read", "fix", "settle"} => series # <<>>
    /\ unsettled \subseteq Accounts /\ cooldown \subseteq Expiries

\* Every position that outlives its expiry is settled for good, although a
\* receipt may be dropped with its block, a keeper may be first, calls fail
\* and the daemon stops: accounts are retained until their zero balance is
\* confirmed (the settlement loop of cli.ts, SettlementRunner.run).
ExpiredIsSettled ==
    <>[](\A a \in HeldNow : now < Expiry[a])
=============================================================================
