--------------------------- MODULE AuctionEngine ---------------------------
(***************************************************************************)
(* The RFQ lifecycle of auction.ts in the process of EngineProcess: while  *)
(* the auction is open, quotes are admitted and reserve maker cash; the    *)
(* best one is locked in at close; the taker accepts it before a deadline; *)
(* the match is broadcast, followed to its outcome and, after a crash or   *)
(* an ambiguous broadcast, reconciled.                                     *)
(*                                                                         *)
(* A handler that keeps the RFQ's lock over an await is a job with a pc;   *)
(* one whose awaits are all inside the process is one step, taken when the *)
(* RFQ's lock and the account keys it needs are free.                      *)
(***************************************************************************)
EXTENDS EngineProcess, SequencesExt

CONSTANTS
    Rfqs,             \* RFQs that may be opened
    Quotes,           \* quotes makers may submit
    NoQuote,          \* bestQuoteId === null
    RfqOf,            \* RfqOf[q]: the RFQ that q answers
    MakerOf,          \* MakerOf[q]: the maker that signed q
    AccountOf,        \* AccountOf[q]: the maker subaccount q debits
    Premium,          \* Premium[q]: the price per unit
    Cost,             \* Cost[q]: totalPremium + maxFee + OI fee
    TakerAccount,     \* TakerAccount[r]: the subaccount that sells
    MaxPutFailures    \* bound: how often a put of the accept path throws

ASSUME AuctionAssumption ==
    /\ Rfqs \subseteq Ops
    /\ NoQuote \notin Quotes
    /\ RfqOf \in [Quotes -> Rfqs]
    /\ AccountOf \in [Quotes -> Accounts]
    /\ Premium \in [Quotes -> Nat]
    /\ Cost \in [Quotes -> Nat]
    /\ TakerAccount \in [Rfqs -> Accounts]
    /\ MaxPutFailures \in Nat

VARIABLES
    \* the journal and its in-memory index, which a put keeps equal
    status,        \* status[r]
    best,          \* best[r]: bestQuoteId
    book,          \* book[r]: the quotes stored for r, in order of admission
    hasHash,       \* hasHash[r]: executionIntent.txHash is set in memory
    durableHash,   \* durableHash[r]: the journal's record has it too
    \* time
    windowOver,    \* windowOver[r]: now >= auctionEndsAt
    late,          \* late[r]: now >= acceptDeadlineAt
    \* process memory
    reserved,      \* the quotes with an entry in reservations
    closeTimer,    \* closeTimer[r]: timers holds one for r
    acceptTimer,   \* acceptTimer[r]: acceptTimers holds one for r
    job,           \* job[r]: how far the handler that keeps the lock of r is
    offer,         \* offer[r]: the quote that handler validates
    counted,       \* counted[r]: the reservations it counts against the cash
    recon,         \* recon[r]: the reconciliation in flight for r
    putFailures    \* how many puts have thrown

journalVars == <<status, best, book, hasHash, durableHash>>
timeVars == <<windowOver, late>>
timerVars == <<closeTimer, acceptTimer>>
handlerVars == <<job, offer, counted>>
auctionVars == <<journalVars, timeVars, reserved, timerVars, handlerVars, recon,
                 putFailures>>
vars == <<auctionVars, sharedVars>>

RfqStatus == {"none", "open", "closed", "executing",
              "executed", "failed", "expired"}
Terminal == {"executed", "failed", "expired"}

HandlerState == {"idle", "quoting", "funded", "validating", "executing"}

AuctionTypeOK ==
    /\ status \in [Rfqs -> RfqStatus]
    /\ best \in [Rfqs -> Quotes \cup {NoQuote}]
    /\ book \in [Rfqs -> Seq(Quotes)]
    /\ hasHash \in [Rfqs -> BOOLEAN]
    /\ durableHash \in [Rfqs -> BOOLEAN]
    /\ windowOver \in [Rfqs -> BOOLEAN]
    /\ late \in [Rfqs -> BOOLEAN]
    /\ reserved \subseteq Quotes
    /\ closeTimer \in [Rfqs -> BOOLEAN]
    /\ acceptTimer \in [Rfqs -> BOOLEAN]
    /\ job \in [Rfqs -> HandlerState]
    /\ offer \in [Rfqs -> Quotes \cup {NoQuote}]
    /\ counted \in [Rfqs -> SUBSET Quotes]
    /\ recon \in [Rfqs -> {"none", "receipt", "nonces"}]
    /\ putFailures \in 0..MaxPutFailures

TypeOK == ProcessTypeOK /\ AuctionTypeOK

AuctionInit ==
    /\ status = [r \in Rfqs |-> "none"]
    /\ best = [r \in Rfqs |-> NoQuote]
    /\ book = [r \in Rfqs |-> <<>>]
    /\ hasHash = [r \in Rfqs |-> FALSE]
    /\ durableHash = [r \in Rfqs |-> FALSE]
    /\ windowOver = [r \in Rfqs |-> FALSE]
    /\ late = [r \in Rfqs |-> FALSE]
    /\ reserved = {}
    /\ closeTimer = [r \in Rfqs |-> FALSE]
    /\ acceptTimer = [r \in Rfqs |-> FALSE]
    /\ job = [r \in Rfqs |-> "idle"]
    /\ offer = [r \in Rfqs |-> NoQuote]
    /\ counted = [r \in Rfqs |-> {}]
    /\ recon = [r \in Rfqs |-> "none"]
    /\ putFailures = 0

Init == ProcessInit /\ AuctionInit

-----------------------------------------------------------------------------
(* Helpers.                                                                *)

SumCost(S) == MapThenSumSet(LAMBDA q : Cost[q], S)

\* reservedFor sums over these: the reservations on a subaccount, without
\* the given quotes.
ReservedFor(a, exclude) == {q \in reserved \ exclude : AccountOf[q] = a}

QuotesOn(r) == ToSet(book[r])

\* The quotes of b that are not in S, in their order: SelectSeq, written as
\* the function it unfolds to.
Without(b, S) ==
    LET kept[n \in 0 .. Len(b)] ==
          IF n = 0 THEN <<>>
          ELSE IF b[n] \in S THEN kept[n - 1] ELSE Append(kept[n - 1], b[n])
    IN  kept[Len(b)]

\* Mutant: the position of the best quote, not the quote.
SelectBestPosition(b) ==
    IF b = <<>> THEN NoQuote
    ELSE CHOOSE i \in DOMAIN b : \A j \in DOMAIN b : Premium[b[j]] <= Premium[b[i]]

\* Highest premium; among equals the one admitted first.
SelectBestQuote(b) ==
    IF b = <<>> THEN NoQuote
    ELSE LET top == CHOOSE i \in DOMAIN b :
                      \A j \in DOMAIN b : \/ Premium[b[j]] < Premium[b[i]]
                                          \/ Premium[b[j]] = Premium[b[i]] /\ j >= i
         IN  b[top]

Winner(r) == {best[r]} \ {NoQuote}

LockFree(r) == job[r] = "idle"

\* Mutant: a handler that ends keeps its account keys.
LeaveHandlerLocked(r) ==
    /\ job' = [job EXCEPT ![r] = "idle"]
    /\ offer' = [offer EXCEPT ![r] = NoQuote]
    /\ counted' = [counted EXCEPT ![r] = {}]
    /\ UNCHANGED lockedBy

\* The handler returns or throws, and the locks it held are free.
LeaveHandler(r) == /\ job' = [job EXCEPT ![r] = "idle"]
                   /\ offer' = [offer EXCEPT ![r] = NoQuote]
                   /\ counted' = [counted EXCEPT ![r] = {}]
                   /\ UnlockAccounts(r)

\* Prior quotes by the same maker on the same RFQ.
Prior(q) == {p \in QuotesOn(RfqOf[q]) : MakerOf[p] = MakerOf[q]}

-----------------------------------------------------------------------------
(* openRfq: the record is durable before the timer is set.                 *)
OpenRfq(r) ==
    /\ Serving
    /\ status[r] = "none"
    /\ status' = [status EXCEPT ![r] = "open"]
    /\ closeTimer' = [closeTimer EXCEPT ![r] = TRUE]
    /\ UNCHANGED <<best, book, hasHash, durableHash, timeVars, reserved, acceptTimer,
                   handlerVars, recon,
                   putFailures, sharedVars>>

(* submitQuoteLocked, up to the read of the maker's cash: the cash already *)
(* reserved is summed before validateQuote's first await.                  *)
QuoteStart(q) ==
    LET r == RfqOf[q] IN
    /\ Serving
    /\ LockFree(r) /\ AllFree({AccountOf[q]})
    /\ status[r] = "open" /\ ~windowOver[r]
    /\ q \notin QuotesOn(r)
    /\ job' = [job EXCEPT ![r] = "quoting"]
    /\ offer' = [offer EXCEPT ![r] = q]
    /\ counted' = [counted EXCEPT ![r] = ReservedFor(AccountOf[q], Prior(q))]
    /\ LockAccounts({AccountOf[q]}, r)
    /\ UNCHANGED <<journalVars, timeVars, reserved, timerVars, recon, processVars,
                   putFailures, submitterVars, cash>>

\* Mutant: the reservations of other RFQs are not counted.
CanPayAlone(r) == cash[AccountOf[offer[r]]] >= Cost[offer[r]]

\* getCashBalance, compared with what was reserved when the handler started.
CanPay(r) == cash[AccountOf[offer[r]]] >= SumCost(counted[r]) + Cost[offer[r]]

QuoteFunded(r) ==
    /\ job[r] = "quoting"
    /\ CanPay(r)
    /\ job' = [job EXCEPT ![r] = "funded"]
    /\ UNCHANGED <<offer, counted, journalVars, timeVars, reserved, timerVars, recon,
                   putFailures, sharedVars>>

\* validateQuote throws, or the window closed during its awaits.
QuoteRejected(r) ==
    /\ \/ job[r] = "quoting" /\ ~CanPay(r)
       \/ job[r] = "funded" /\ windowOver[r]
    /\ LeaveHandler(r)
    /\ UNCHANGED <<journalVars, timeVars, reserved, timerVars, recon, processVars,
                   putFailures, submitterVars, cash>>

\* The quote replaces the maker's earlier ones and reserves its cost.
QuoteAdmitted(r) ==
    LET q == offer[r] IN
    /\ job[r] = "funded"
    /\ status[r] = "open" /\ ~windowOver[r]
    /\ book' = [book EXCEPT ![r] = Append(Without(@, Prior(q)), q)]
    /\ reserved' = (reserved \ Prior(q)) \cup {q}
    /\ LeaveHandler(r)
    /\ UNCHANGED <<status, best, hasHash, durableHash, timeVars, timerVars, recon,
                   processVars, putFailures, submitterVars, cash>>

\* Mutant: a quote can be cancelled after the close.
CancelQuoteAnytime(q) ==
    LET r == RfqOf[q] IN
    /\ Serving
    /\ q \in QuotesOn(r)
    /\ LockFree(r) /\ AllFree({AccountOf[q]})
    /\ book' = [book EXCEPT ![r] = Without(@, {q})]
    /\ reserved' = reserved \ {q}
    /\ UNCHANGED <<status, best, hasHash, durableHash, timeVars, timerVars, handlerVars,
                   recon, putFailures, sharedVars>>

CancelQuote(q) ==
    LET r == RfqOf[q] IN
    /\ Serving
    /\ q \in QuotesOn(r)
    /\ LockFree(r) /\ AllFree({AccountOf[q]})
    /\ status[r] = "open" /\ ~windowOver[r]
    /\ book' = [book EXCEPT ![r] = Without(@, {q})]
    /\ reserved' = reserved \ {q}
    /\ UNCHANGED <<status, best, hasHash, durableHash, timeVars, timerVars, handlerVars, recon,
                   putFailures, sharedVars>>

-----------------------------------------------------------------------------
(* closeAuctionLocked, from its timer or from recover().                   *)
\* Mutant: the losers keep their reservations.
CloseEffectKeepingAll(r) ==
    LET b == SelectBestQuote(book[r]) IN
    /\ status' = [status EXCEPT ![r] = IF b = NoQuote THEN "expired" ELSE "closed"]
    /\ best' = [best EXCEPT ![r] = b]
    /\ closeTimer' = [closeTimer EXCEPT ![r] = FALSE]
    /\ acceptTimer' = [acceptTimer EXCEPT ![r] = b # NoQuote]
    /\ UNCHANGED <<reserved, book, hasHash, durableHash>>

CloseEffect(r) ==
    LET b == SelectBestQuote(book[r]) IN
    /\ status' = [status EXCEPT ![r] = IF b = NoQuote THEN "expired" ELSE "closed"]
    /\ best' = [best EXCEPT ![r] = b]
    /\ reserved' = (reserved \ QuotesOn(r)) \cup ({b} \ {NoQuote})
    /\ closeTimer' = [closeTimer EXCEPT ![r] = FALSE]
    /\ acceptTimer' = [acceptTimer EXCEPT ![r] = b # NoQuote]
    /\ UNCHANGED <<book, hasHash, durableHash>>

CloseAuction(r) ==
    /\ Up
    /\ closeTimer[r] /\ windowOver[r]
    /\ LockFree(r)
    /\ status[r] = "open"
    /\ CloseEffect(r)
    /\ UNCHANGED <<timeVars, handlerVars, recon,
                   putFailures, sharedVars>>

(* expireAcceptLocked, from its timer, from an acceptance that came late   *)
(* and from recover().                                                     *)
ExpireEffect(r) ==
    /\ status' = [status EXCEPT ![r] = "expired"]
    /\ reserved' = reserved \ Winner(r)
    /\ acceptTimer' = [acceptTimer EXCEPT ![r] = FALSE]
    /\ UNCHANGED <<best, book, closeTimer>>

ExpireAccept(r) ==
    /\ Up
    /\ acceptTimer[r] /\ late[r]
    /\ LockFree(r) /\ AllFree({AccountOf[q] : q \in Winner(r)})
    /\ status[r] = "closed"
    /\ ExpireEffect(r)
    /\ UNCHANGED <<hasHash, durableHash, timeVars, handlerVars, recon, processVars, putFailures,
                   submitterVars, fundsVars>>

-----------------------------------------------------------------------------
(* acceptRfq.                                                              *)
AcceptKeys(r) == {TakerAccount[r]} \cup {AccountOf[q] : q \in Winner(r)}

AcceptStart(r) ==
    /\ Serving
    /\ LockFree(r) /\ AllFree(AcceptKeys(r))
    /\ status[r] = "closed" /\ ~late[r]
    /\ job' = [job EXCEPT ![r] = "validating"]
    /\ LockAccounts(AcceptKeys(r), r)
    /\ UNCHANGED <<offer, counted, journalVars, timeVars, reserved, timerVars, recon, processVars,
                   putFailures, submitterVars, cash>>

\* An acceptance that finds the deadline passed, before or after the awaits
\* of its validation, closes the RFQ out itself.
AcceptLate(r) ==
    /\ \/ Serving /\ LockFree(r) /\ AllFree(AcceptKeys(r))
       \/ job[r] = "validating"
    /\ status[r] = "closed" /\ late[r]
    /\ ExpireEffect(r)
    /\ LeaveHandler(r)
    /\ UNCHANGED <<hasHash, durableHash, timeVars, recon, processVars, putFailures,
                   submitterVars, cash>>

\* validateTakerAccept or createExecutionIntent throws.
AcceptInvalid(r) ==
    /\ job[r] = "validating"
    /\ LeaveHandler(r)
    /\ UNCHANGED <<journalVars, timeVars, reserved, timerVars, recon, processVars,
                   putFailures, submitterVars, cash>>

\* The intent is durable, then the call joins the executor's queue.
AcceptCommit(r) ==
    /\ job[r] = "validating"
    /\ status[r] = "closed" /\ ~late[r]
    /\ status' = [status EXCEPT ![r] = "executing"]
    /\ hasHash' = [hasHash EXCEPT ![r] = FALSE]
    /\ durableHash' = [durableHash EXCEPT ![r] = FALSE]
    /\ acceptTimer' = [acceptTimer EXCEPT ![r] = FALSE]
    /\ job' = [job EXCEPT ![r] = "executing"]
    /\ Enqueue(r)
    /\ UNCHANGED <<offer, counted, best, book, timeVars, reserved, closeTimer, recon, processVars,
                   putFailures, fundsVars>>

PutFails == /\ putFailures < MaxPutFailures
            /\ putFailures' = putFailures + 1

\* The put of the executing record throws: the accept timer is set again.
AcceptPutFails(r) ==
    /\ job[r] = "validating"
    /\ status[r] = "closed" /\ ~late[r]
    /\ PutFails
    /\ acceptTimer' = [acceptTimer EXCEPT ![r] = TRUE]
    /\ LeaveHandler(r)
    /\ UNCHANGED <<journalVars, timeVars, reserved, closeTimer, recon, processVars,
                   submitterVars, cash>>

\* onSubmitted: the hash is set in memory, then put; the receipt wait starts
\* once the put has returned.
HashPersisted(r) ==
    /\ job[r] = "executing"
    /\ HashAcknowledged(r)
    /\ hasHash' = [hasHash EXCEPT ![r] = TRUE]
    /\ durableHash' = [durableHash EXCEPT ![r] = TRUE]
    /\ UNCHANGED <<status, best, book, timeVars, reserved, timerVars, handlerVars, recon,
                   processVars, putFailures, fundsVars>>

HashPutFails(r) ==
    /\ job[r] = "executing"
    /\ wpc[r] = "hash"
    /\ LatchHash(r)
    /\ PutFails
    /\ hasHash' = [hasHash EXCEPT ![r] = TRUE]
    /\ UNCHANGED <<status, best, book, durableHash, timeVars, reserved, timerVars, handlerVars,
                   recon, processVars, fundsVars>>

\* What the end of an execution does to its handler.
HandlerReturns(r) == /\ LeaveHandler(r)
                     /\ wpc' = [wpc EXCEPT ![r] = "idle"]

(* terminalizeMined and terminalizeExpiredUnused: the terminal record is   *)
(* durable before the reservation and the latches go.                      *)
Terminalize(r, outcome, hash, lostToo) ==
    /\ status' = [status EXCEPT ![r] = outcome]
    /\ reserved' = reserved \ Winner(r)
    /\ Clear(r, hash, lostToo)

MinedAs(r) == IF chain[r] = "success" THEN "executed" ELSE "failed"

\* execute returned a receipt.
Settle(r) ==
    /\ job[r] = "executing" /\ wpc[r] = "mined"
    /\ Terminalize(r, MinedAs(r), TRUE, FALSE)
    /\ HandlerReturns(r)
    /\ UNCHANGED <<best, book, hasHash, durableHash, timeVars, timerVars, recon,
                   processVars, putFailures, chain, expired, sends, writeQueue, cash>>

\* Mutant: the record returns to closed without its accept timer.
RejectedUnarmed(r) ==
    /\ job[r] = "executing" /\ wpc[r] = "refused"
    /\ status' = [status EXCEPT ![r] = "closed"]
    /\ HandlerReturns(r)
    /\ UNCHANGED <<best, book, reserved, timerVars, hasHash, durableHash, timeVars, recon,
                   processVars, putFailures, chain, expired, sends, writeQueue, latchTx,
                   unknown, cash>>

\* The guard refused the call: back to closed, with the old deadline, or
\* closed out when that has passed.
Rejected(r) ==
    /\ job[r] = "executing" /\ wpc[r] = "refused"
    /\ IF late[r] THEN ExpireEffect(r)
       ELSE /\ status' = [status EXCEPT ![r] = "closed"]
            /\ acceptTimer' = [acceptTimer EXCEPT ![r] = TRUE]
            /\ UNCHANGED <<best, book, closeTimer, reserved>>
    /\ HandlerReturns(r)
    /\ UNCHANGED <<hasHash, durableHash, timeVars, recon, processVars, putFailures,
                   chain, expired, sends, writeQueue, latchTx, unknown, cash>>

\* The put that would return it to closed throws: it stays executing.
RejectedPutFails(r) ==
    /\ job[r] = "executing" /\ wpc[r] = "refused"
    /\ PutFails
    /\ HandlerReturns(r)
    /\ UNCHANGED <<journalVars, timeVars, reserved, timerVars, recon, processVars,
                   chain, expired, sends, writeQueue, latchTx, unknown, cash>>

\* Everything else that execute throws, and a terminal put that throws: the
\* executor is latched and the record stays executing.  The put of the error
\* text also makes the hash durable, unless it throws too.
Ambiguous(r) ==
    /\ job[r] = "executing"
    /\ \/ wpc[r] = "lost" /\ UNCHANGED putFailures
       \/ wpc[r] \in {"lost", "mined"} /\ PutFails
    /\ Arm(r, hasHash[r])
    /\ durableHash' = [durableHash EXCEPT ![r] = IF putFailures' = putFailures
                                                 THEN hasHash[r] ELSE @]
    /\ HandlerReturns(r)
    /\ UNCHANGED <<status, best, book, hasHash, timeVars, reserved, timerVars, recon,
                   processVars, chain, expired, sends, writeQueue, cash>>

-----------------------------------------------------------------------------
(* reconcileExecuting: at most one at a time for an RFQ.  It arms the      *)
(* latch before its first await, then reads the receipt (or, without a     *)
(* hash, the nonce event) and, if there is none, the nonces at the latest  *)
(* block.                                                                  *)
BeginReconciliation(r) ==
    /\ recon' = [recon EXCEPT ![r] = "receipt"]
    /\ Arm(r, hasHash[r])

\* Mutant: a status read reconciles an execution whose handler still runs.
GetRfqDuringExecution(r) ==
    /\ Serving
    /\ status[r] = "executing"
    /\ recon[r] = "none"
    /\ BeginReconciliation(r)
    /\ UNCHANGED <<journalVars, timeVars, reserved, timerVars, handlerVars, processVars,
                   putFailures, chain, expired, sends, wpc, writeQueue, fundsVars>>

\* getRfq from a client.
GetRfq(r) ==
    /\ Serving
    /\ status[r] = "executing"
    /\ job[r] # "executing"
    /\ recon[r] = "none"
    /\ BeginReconciliation(r)
    /\ UNCHANGED <<journalVars, timeVars, reserved, timerVars, handlerVars, processVars,
                   putFailures, chain, expired, sends, wpc, writeQueue, fundsVars>>

\* A revert leaves no nonce event, so only its hash can show it.
FoundMined(r) == \/ chain[r] = "success"
                 \/ chain[r] = "reverted" /\ hasHash[r]

ReconcileMined(r) ==
    /\ Drained
    /\ recon[r] = "receipt"
    /\ FoundMined(r)
    /\ Terminalize(r, MinedAs(r), TRUE, ~hasHash[r])
    /\ recon' = [recon EXCEPT ![r] = "none"]
    /\ UNCHANGED <<best, book, hasHash, durableHash, timeVars, timerVars, handlerVars,
                   processVars, putFailures, chain, expired, sends, wpc, writeQueue,
                   fundsVars>>

ReconcileNotMined(r) ==
    /\ recon[r] = "receipt"
    /\ ~FoundMined(r)
    /\ recon' = [recon EXCEPT ![r] = "nonces"]
    /\ UNCHANGED <<journalVars, timeVars, reserved, timerVars, handlerVars,
                   putFailures, sharedVars>>

\* Mutant: the nonces are not read at the block past the expiry.
ExpiredUnread(r) == expired[r]

\* usedNonces is read at the block whose timestamp is compared.
ExpiredUnused(r) == expired[r] /\ chain[r] # "success"

ReconcileExpiredUnused(r) ==
    /\ Drained
    /\ recon[r] = "nonces"
    /\ ExpiredUnused(r)
    /\ Terminalize(r, "failed", hasHash[r], ~hasHash[r])
    /\ recon' = [recon EXCEPT ![r] = "none"]
    /\ UNCHANGED <<best, book, hasHash, durableHash, timeVars, timerVars, handlerVars,
                   processVars, putFailures, chain, expired, sends, wpc, writeQueue,
                   fundsVars>>

\* Still pending, or a read or the terminal put threw: only an error text
\* changes, and the latch stays.
ReconcileInconclusive(r) ==
    /\ recon[r] # "none"
    /\ recon' = [recon EXCEPT ![r] = "none"]
    /\ UNCHANGED <<journalVars, timeVars, reserved, timerVars, handlerVars,
                   putFailures, sharedVars>>

-----------------------------------------------------------------------------
(* A crash leaves the journal, the clock and the chain.                    *)
AuctionForgets ==
    /\ hasHash' = durableHash
    /\ reserved' = {}
    /\ closeTimer' = [r \in Rfqs |-> FALSE]
    /\ acceptTimer' = [r \in Rfqs |-> FALSE]
    /\ job' = [r \in Rfqs |-> "idle"]
    /\ offer' = [r \in Rfqs |-> NoQuote]
    /\ counted' = [r \in Rfqs |-> {}]
    /\ recon' = [r \in Rfqs |-> "none"]
    /\ UNCHANGED <<status, best, book, durableHash, timeVars, putFailures>>

Crash == ProcessStops /\ AuctionForgets

\* Terminal records need nothing.
Unfinished == {r \in Rfqs : status[r] \in {"open", "closed", "executing"}}

Restart == ProcessStarts(Unfinished) /\ UNCHANGED auctionVars

\* recover() awaits each record before the next.
NoReconciliation == \A r \in Rfqs : recon[r] = "none"

RecoverTurn(r) == TakeTurn(r) /\ NoReconciliation

RecoverOpen(r) ==
    /\ RecoverTurn(r)
    /\ status[r] = "open"
    /\ IF windowOver[r] THEN CloseEffect(r)
       ELSE /\ closeTimer' = [closeTimer EXCEPT ![r] = TRUE]
            /\ reserved' = reserved \cup QuotesOn(r)
            /\ UNCHANGED <<journalVars, acceptTimer>>
    /\ UNCHANGED <<timeVars, handlerVars, recon, putFailures, submitterVars, fundsVars>>

RecoverClosed(r) ==
    /\ RecoverTurn(r)
    /\ status[r] = "closed"
    /\ IF late[r] THEN ExpireEffect(r)
       ELSE /\ acceptTimer' = [acceptTimer EXCEPT ![r] = TRUE]
            /\ reserved' = reserved \cup Winner(r)
            /\ UNCHANGED <<status, best, book, closeTimer>>
    /\ UNCHANGED <<hasHash, durableHash, timeVars, handlerVars, recon, putFailures, submitterVars,
                   fundsVars>>

\* Mutant: an intent without a hash is taken for one that was not broadcast.
RecoverExecutingReopened(r) ==
    /\ RecoverTurn(r)
    /\ status[r] = "executing"
    /\ reserved' = reserved \cup Winner(r)
    /\ IF hasHash[r] THEN BeginReconciliation(r) /\ UNCHANGED <<status, acceptTimer>>
       ELSE /\ status' = [status EXCEPT ![r] = "closed"]
            /\ acceptTimer' = [acceptTimer EXCEPT ![r] = TRUE]
            /\ UNCHANGED <<recon, unknown, latchTx>>
    /\ UNCHANGED <<best, book, hasHash, durableHash, timeVars, closeTimer, handlerVars,
                   putFailures, chain, expired, sends, wpc, writeQueue, fundsVars>>

RecoverExecuting(r) ==
    /\ RecoverTurn(r)
    /\ status[r] = "executing"
    /\ reserved' = reserved \cup Winner(r)
    /\ BeginReconciliation(r)
    /\ UNCHANGED <<journalVars, timeVars, timerVars, handlerVars, putFailures, chain, expired,
                   sends, wpc, writeQueue, fundsVars>>

Serve == StartServing /\ NoReconciliation /\ UNCHANGED auctionVars

-----------------------------------------------------------------------------
(* The clock and the chain.                                                *)
WindowEnds(r) ==
    /\ status[r] = "open" /\ ~windowOver[r]
    /\ windowOver' = [windowOver EXCEPT ![r] = TRUE]
    /\ UNCHANGED <<journalVars, late, reserved, timerVars, handlerVars, recon,
                   putFailures, sharedVars>>

DeadlinePasses(r) ==
    /\ status[r] \in {"closed", "executing"} /\ ~late[r]
    /\ late' = [late EXCEPT ![r] = TRUE]
    /\ UNCHANGED <<journalVars, windowOver, reserved, timerVars, handlerVars, recon,
                   putFailures, sharedVars>>

\* A successful match debits the maker by at most what the quote reserved.
RfqSucceeds(r) ==
    /\ MineAs(r, "success")
    /\ \E q \in Winner(r) : Debit(AccountOf[q], Cost[q])
    /\ UNCHANGED <<auctionVars, lockedBy, processVars>>

RfqReverts(r) == MineAs(r, "reverted") /\ UNCHANGED <<auctionVars, fundsVars, processVars>>

ActionsExpire(r) ==
    /\ status[r] \in {"closed", "executing"}
    /\ Expire(r)
    /\ UNCHANGED <<auctionVars, fundsVars, processVars>>

SubmitterStep(r) == CallStep(r) /\ UNCHANGED <<auctionVars, fundsVars, processVars>>
Propagate(r) == NodeAccepts(r) /\ UNCHANGED <<auctionVars, fundsVars, processVars>>

-----------------------------------------------------------------------------
QuoteHandler(r) == QuoteFunded(r) \/ QuoteRejected(r) \/ QuoteAdmitted(r)

AcceptHandler(r) ==
    \/ AcceptLate(r) \/ AcceptInvalid(r) \/ AcceptCommit(r) \/ AcceptPutFails(r)
    \/ HashPersisted(r) \/ HashPutFails(r) \/ Settle(r) \/ Rejected(r)
    \/ RejectedPutFails(r) \/ Ambiguous(r)

Timer(r) == CloseAuction(r) \/ ExpireAccept(r)

Reconciliation(r) ==
    \/ ReconcileMined(r) \/ ReconcileNotMined(r)
    \/ ReconcileExpiredUnused(r) \/ ReconcileInconclusive(r)

Recovery(r) == RecoverOpen(r) \/ RecoverClosed(r) \/ RecoverExecuting(r)

Clock(r) == WindowEnds(r) \/ DeadlinePasses(r) \/ ActionsExpire(r)

RfqStep(r) ==
    \/ OpenRfq(r) \/ QuoteHandler(r) \/ AcceptStart(r) \/ AcceptHandler(r)
    \/ Timer(r) \/ GetRfq(r) \/ Reconciliation(r) \/ Recovery(r)
    \/ SubmitterStep(r) \/ Propagate(r) \/ RfqSucceeds(r) \/ RfqReverts(r) \/ Clock(r)

\* Nothing is left to do once every RFQ has its outcome.
Quiescent == (\A r \in Rfqs : status[r] \in Terminal) /\ UNCHANGED vars

Next ==
    \/ \E r \in Rfqs : RfqStep(r)
    \/ \E q \in Quotes : QuoteStart(q) \/ CancelQuote(q)
    \/ Crash \/ Restart \/ Serve
    \/ Quiescent

Spec == Init /\ [][Next]_vars

(***************************************************************************)
(* Fairness.  The event loop runs ready continuations and due timers, and  *)
(* the process is restarted.  Every RPC call ends, by an answer or a       *)
(* timeout, and reads do not fail for ever.  Time passes.  Nothing is      *)
(* assumed of clients, who may never accept, not even late, nor cancel or  *)
(* ask again, nor of the mempool, which may never mine a transaction.      *)
(***************************************************************************)
Fairness ==
    /\ \A r \in Rfqs :
         /\ WF_vars(QuoteHandler(r))
         /\ WF_vars(job[r] # "idle" /\ AcceptHandler(r))
         /\ WF_vars(Timer(r))
         /\ SF_vars(ReconcileMined(r) \/ ReconcileNotMined(r))
         /\ SF_vars(ReconcileExpiredUnused(r))
         /\ WF_vars(Reconciliation(r))
         /\ WF_vars(Recovery(r))
         /\ WF_vars(SubmitterStep(r))
         /\ WF_vars(Clock(r))
    /\ WF_vars(Restart)
    /\ WF_vars(Serve)

FairSpec == Spec /\ Fairness

-----------------------------------------------------------------------------
(* Properties. *)

MatchSucceeded(q) == best[RfqOf[q]] = q /\ chain[RfqOf[q]] = "success"

\* Whatever quotes, cancellations, closes and outcomes overlap, a maker's
\* cash covers every cost still reserved on it and not yet debited by a
\* match: submitQuoteLocked sums the reservations before it reads the cash.
Solvent ==
    \A a \in Accounts :
        cash[a] >= SumCost({q \in reserved : AccountOf[q] = a /\ ~MatchSucceeded(q)})

\* The quotes that can still cost their maker something: those of open
\* auctions and the winners of closed and executing ones.
Standing ==
    (UNION {QuotesOn(r) : r \in {x \in Rfqs : status[x] = "open"}})
    \cup (UNION {Winner(r) : r \in {x \in Rfqs : status[x] \in {"closed", "executing"}}})

\* A serving engine reserves the cash of exactly the standing quotes, however
\* admissions, closes, refusals and outcomes overlapped; recover() rebuilds
\* the same set from the journal.
ReservationsExact == Serving => reserved = Standing

\* The locked-in winner stays the best of the stored quotes: no admission,
\* replacement or cancellation lands after the close.
WinnerIsBest ==
    \A r \in Rfqs :
        status[r] \in {"closed", "executing", "executed", "failed"} =>
            best[r] = SelectBestQuote(book[r]) /\ best[r] # NoQuote

\* A recorded outcome is the chain's: executed matches succeeded, failed
\* ones never can succeed any more, and what was not accepted was not sent.
OutcomeIsTrue ==
    \A r \in Rfqs :
        /\ status[r] = "executed" => chain[r] = "success"
        /\ status[r] = "failed" => \/ chain[r] = "reverted"
                                   \/ chain[r] # "success" /\ expired[r]
        /\ status[r] \in {"none", "open", "closed", "expired"} => chain[r] = "none"

\* A terminal record is never overwritten by a late timer, handler or
\* reconciliation.
TerminalIsFinal ==
    [][\A r \in Rfqs : status[r] \in Terminal => status'[r] = status[r]]_vars

\* An execution whose handler has given up is only ever resolved by a client
\* that asks for it, or by the next recover(): no timer follows it.
Unattended(r) == Serving /\ status[r] = "executing" /\ job[r] # "executing"

\* Every RFQ that was opened gets an outcome, through crashes, refused and
\* ambiguous broadcasts and transactions that are never mined, as long as an
\* unattended one is asked for again and again.
EveryRfqEnds ==
    \A r \in Rfqs :
        []<>(Unattended(r) => recon[r] # "none")
            => ((status[r] = "open") ~> (status[r] \in Terminal))
=============================================================================
