------------------------ MODULE AuctionEngine_proofs ------------------------
(***************************************************************************)
(* The RFQ engine, for any number of RFQs, quotes, accounts, crashes and   *)
(* failing puts.                                                           *)
(*                                                                         *)
(* The executor: one transaction in the air at a time, one broadcast per   *)
(* RFQ, outcomes that are the chain's and are never overwritten.  A call   *)
(* enters the executor's section only when nothing is latched.  So it is   *)
(* enough that every live transaction is guarded by something that would   *)
(* be seen there: its own call in the section, a latch, a record the       *)
(* restarted process has yet to recover, or the process being down.        *)
(*                                                                         *)
(* The books: the reservations are exactly the standing quotes, the winner *)
(* is the best of the stored quotes, and a maker's cash covers all that is *)
(* reserved on it.  BookIInv ties the in-memory reservations to the        *)
(* journal, record by record: while recover() runs, only the records it    *)
(* has reached hold cash.  Solvent is not inductive for three reasons, and *)
(* FundsIInv says what is missing.  A crash empties `reserved', so the     *)
(* cash has to cover what the journal would reserve again (CoveredOK).  A  *)
(* quote is admitted long after its reservations were summed and its cash  *)
(* read, so what can only have shrunk since is compared with the sum       *)
(* (CountedOK) and with the cash (FundedOK); that nothing was added for    *)
(* its account is the account's lock (OfferOK).  And a match may debit the *)
(* cash between those reads: it then takes the same cost out of what is    *)
(* owed.                                                                   *)
(***************************************************************************)
EXTENDS AuctionEngine, TxSubmitter_proofs, FiniteSums

-----------------------------------------------------------------------------
(* The executor. *)

\* The types the argument needs.
ControlTypeOK ==
    /\ SubmitterTypeOK
    /\ phase \in {"down", "recovering", "serving"}
    /\ todo \subseteq Ops
    /\ status \in [Rfqs -> RfqStatus]
    /\ job \in [Rfqs -> HandlerState]
    /\ recon \in [Rfqs -> {"none", "receipt", "nonces"}]

\* A process that does not serve runs no handler and no call of an RFQ.
PhaseOK ==
    /\ phase # "serving" => /\ \A r \in Rfqs : wpc[r] = "idle" /\ job[r] = "idle"
    /\ phase = "serving" => todo = {}

\* How far the call, the handler and the record of an operation agree.
Unsent == {"none", "open", "closed", "expired"}

CallOK(o) ==
    /\ wpc[o] \in {"queued", "writing", "unsent", "refused"} => chain[o] = "none"
    /\ wpc[o] = "mined" => chain[o] \in {"success", "reverted"}
    /\ chain[o] = "none" => sends[o] = 0
    /\ sends[o] <= 1

RecordOK(r) ==
    /\ wpc[r] # "idle" => job[r] = "executing"
    /\ job[r] = "executing" => status[r] = "executing"
    /\ recon[r] # "none" => status[r] = "executing" /\ job[r] # "executing"
    /\ status[r] \in Unsent => chain[r] = "none"
    /\ status[r] = "executed" => chain[r] = "success"
    /\ status[r] = "failed" => \/ chain[r] = "reverted"
                               \/ chain[r] # "success" /\ expired[r]

\* What the next call would find of a live transaction.
Guarded(o) ==
    \/ wpc[o] \in {"sending", "hash", "waiting"}
    \/ wpc[o] = "lost" /\ (LostBroadcast \in unknown \/ latchTx = o)
    \/ o \in unknown
    \/ phase = "down"
    \/ o \in todo

LiveGuarded == \A r \in Rfqs : Live(r) => Guarded(r)

\* What the engine keeps of it, alone or beside another one.
RfqIInv ==
    /\ ControlTypeOK
    /\ QueueOK
    /\ PhaseOK
    /\ \A r \in Rfqs : CallOK(r) /\ RecordOK(r)
    /\ LiveGuarded
    /\ SectionAlone
    /\ OneLiveTx

\* Alone, it is the only one that sends.
OthersIdle == \A o \in Ops \ Rfqs : wpc[o] = "idle" /\ chain[o] = "none" /\ sends[o] = 0

ExecutorIInv == RfqIInv /\ OthersIdle

\* A call of r that passes the guard finds no transaction of another engine.
OthersClear(r) == Begin(r) => \A o \in Ops \ Rfqs : ~Live(o)

-----------------------------------------------------------------------------
(* The parts of the invariant. *)

\* What the executor knows of RFQs.
LEMMA RfqsAreOps == \A r \in Rfqs : r \in Ops
BY AuctionAssumption

\* A handler that keeps the executor out: whatever it does to an RFQ that was
\* not sent, and whatever only data shows.
LEMMA QuietKeeps ==
    ASSUME RfqIInv, ControlTypeOK', UNCHANGED <<submitterVars, phase, todo, recon>>,
           \A r \in Rfqs : \/ status'[r] = status[r]
                           \/ status[r] \in Unsent /\ status'[r] \in Unsent,
           \A r \in Rfqs : job'[r] = "executing" <=> job[r] = "executing",
           phase = "serving" \/ UNCHANGED job
    PROVE  RfqIInv'
<1> USE DEF RfqIInv, submitterVars
<1>1. QueueOK'
  BY SameQueue
<1>2. PhaseOK'
  BY DEF PhaseOK
<1>3. \A o \in Rfqs : CallOK(o)'
  BY DEF CallOK
<1>4. ASSUME NEW r \in Rfqs PROVE RecordOK(r)'
  BY <1>4 DEF RecordOK, Unsent
<1>5. LiveGuarded' /\ SectionAlone' /\ OneLiveTx'
  BY DEF LiveGuarded, Guarded, SectionAlone, OneLiveTx, Live
<1> QED
  BY <1>1, <1>2, <1>3, <1>4, <1>5

\* Everything up to the acceptance, and the clock.
LEMMA QuietSteps ==
    ASSUME RfqIInv, NEW r \in Rfqs,
           \/ OpenRfq(r) \/ QuoteHandler(r) \/ AcceptStart(r) \/ AcceptLate(r)
           \/ AcceptInvalid(r) \/ AcceptPutFails(r) \/ Timer(r)
           \/ WindowEnds(r) \/ DeadlinePasses(r)
    PROVE  RfqIInv'
<1> USE DEF HandlerState, Unsent
<1>0. ControlTypeOK /\ status \in [Rfqs -> RfqStatus] /\ job \in [Rfqs -> HandlerState]
  BY DEF RfqIInv, ControlTypeOK
<1>p. phase # "serving" => \A x \in Rfqs : job[x] = "idle"
  BY DEF RfqIInv, PhaseOK
<1>1. UNCHANGED <<submitterVars, phase, todo, recon>>
  BY DEF OpenRfq, QuoteHandler, QuoteFunded, QuoteRejected, QuoteAdmitted, AcceptStart,
         AcceptLate, AcceptInvalid, AcceptPutFails, Timer, CloseAuction, ExpireAccept,
         WindowEnds, DeadlinePasses, sharedVars, processVars, submitterVars
<1>2. CASE \/ OpenRfq(r) \/ Timer(r) \/ WindowEnds(r) \/ DeadlinePasses(r)
  <2>1. UNCHANGED job
    BY <1>2 DEF OpenRfq, Timer, CloseAuction, ExpireAccept, WindowEnds, DeadlinePasses,
                handlerVars
  <2>2. \/ UNCHANGED status
        \/ /\ status[r] \in Unsent
           /\ \E x \in Unsent : status' = [status EXCEPT ![r] = x]
    BY <1>2 DEF OpenRfq, Timer, CloseAuction, ExpireAccept, WindowEnds, DeadlinePasses,
                CloseEffect, ExpireEffect, journalVars
  <2> QED
    BY <1>0, <1>1, <2>1, <2>2, QuietKeeps
       DEF ControlTypeOK, submitterVars, SubmitterTypeOK, RfqStatus
<1>3. CASE \/ QuoteHandler(r) \/ AcceptStart(r) \/ AcceptLate(r)
           \/ AcceptInvalid(r) \/ AcceptPutFails(r)
  <2>1. /\ job[r] # "executing"
        /\ \E x \in HandlerState \ {"executing"} : job' = [job EXCEPT ![r] = x]
    BY <1>3 DEF QuoteHandler, QuoteFunded, QuoteRejected, QuoteAdmitted, AcceptStart,
                AcceptLate, AcceptInvalid, AcceptPutFails, LeaveHandler, LockFree
  <2>2. \/ UNCHANGED status
        \/ /\ status[r] \in Unsent
           /\ \E x \in Unsent : status' = [status EXCEPT ![r] = x]
    BY <1>3 DEF QuoteHandler, QuoteFunded, QuoteRejected, QuoteAdmitted, AcceptStart,
                AcceptLate, AcceptInvalid, AcceptPutFails, ExpireEffect, journalVars
  <2>3. phase = "serving" \/ job[r] # "idle"
    BY <1>3 DEF QuoteHandler, QuoteFunded, QuoteRejected, QuoteAdmitted, AcceptStart,
                AcceptLate, AcceptInvalid, AcceptPutFails, Serving
  <2> QED
    BY <1>0, <1>1, <1>p, <2>1, <2>2, <2>3, QuietKeeps, ZenonT(60)
       DEF ControlTypeOK, submitterVars, SubmitterTypeOK, RfqStatus
<1> QED
  BY <1>2, <1>3

\* Quotes do not touch the executor.
LEMMA QuietQuoteSteps ==
    ASSUME RfqIInv, NEW q \in Quotes, QuoteStart(q) \/ CancelQuote(q)
    PROVE  RfqIInv'
<1>0. ControlTypeOK /\ job \in [Rfqs -> HandlerState] /\ RfqOf[q] \in Rfqs
  BY AuctionAssumption DEF RfqIInv, ControlTypeOK
<1>1. UNCHANGED <<submitterVars, phase, todo, recon, status>>
  BY DEF QuoteStart, CancelQuote, sharedVars, processVars, submitterVars, journalVars
<1>2. \/ UNCHANGED job
      \/ /\ phase = "serving" /\ job[RfqOf[q]] = "idle"
         /\ job' = [job EXCEPT ![RfqOf[q]] = "quoting"]
  BY DEF QuoteStart, CancelQuote, handlerVars, LockFree, Serving
<1> QED
  BY <1>0, <1>1, <1>2, QuietKeeps
     DEF ControlTypeOK, submitterVars, SubmitterTypeOK, HandlerState

-----------------------------------------------------------------------------
(* The call of an execution. *)

\* A call in progress belongs to an RFQ that is executing, in a process that
\* serves.
LEMMA CallInProgress ==
    ASSUME RfqIInv, NEW r \in Rfqs, wpc[r] # "idle"
    PROVE  /\ r \in Ops
           /\ job[r] = "executing" /\ status[r] = "executing" /\ recon[r] = "none"
           /\ phase = "serving" /\ todo = {}
BY RfqsAreOps DEF RfqIInv, RecordOK, PhaseOK

\* The guard of serializeWrite refuses a call while something is latched.
LEMMA RefuseKeeps ==
    ASSUME RfqIInv, NEW r \in Rfqs, SubmitterStep(r), Refuse(r)
    PROVE  RfqIInv'
<1> USE RfqsAreOps DEF CallState
<1>0. /\ ControlTypeOK /\ SubmitterTypeOK /\ wpc \in [Ops -> CallState]
      /\ wpc[r] = "queued" /\ r \in Ops /\ job[r] = "executing" /\ phase = "serving"
  BY RfqsAreOps, CallInProgress DEF RfqIInv, ControlTypeOK, SubmitterTypeOK, Refuse
<1>1. /\ UNCHANGED <<chain, expired, sends, latchTx, unknown, phase, todo, status, job, recon>>
      /\ wpc' = [wpc EXCEPT ![r] = "refused"] /\ writeQueue' = Tail(writeQueue)
  BY DEF SubmitterStep, Refuse, Return, auctionVars, journalVars, handlerVars, processVars
<1>2. /\ wpc'[r] = "refused"
      /\ \A o \in Ops : o # r => wpc'[o] = wpc[o]
  BY <1>0, <1>1
<1>3. ControlTypeOK'
  BY <1>0, <1>1 DEF ControlTypeOK, SubmitterTypeOK, Refuse, Running
<1>4. QueueOK'
  BY <1>0, ReturnKeepsQueue DEF RfqIInv, Refuse, InQueue, Returned
<1>5. PhaseOK'
  BY <1>0, <1>1, <1>2 DEF RfqIInv, PhaseOK
<1>6. ASSUME NEW o \in Rfqs PROVE CallOK(o)'
  BY <1>0, <1>1, <1>2 DEF RfqIInv, CallOK
<1>7. ASSUME NEW x \in Rfqs PROVE RecordOK(x)'
  BY <1>0, <1>1, <1>2, RfqsAreOps DEF RfqIInv, RecordOK
<1>8. LiveGuarded' /\ SectionAlone' /\ OneLiveTx'
  BY <1>0, <1>1, <1>2
     DEF RfqIInv, LiveGuarded, Guarded, SectionAlone, OneLiveTx, Live, CallOK, InSection
<1> QED
  BY <1>3, <1>4, <1>5, <1>6, <1>7, <1>8 DEF RfqIInv

\* A call enters the section: nothing is latched, so nothing is live.
LEMMA BeginKeeps ==
    ASSUME RfqIInv, NEW r \in Rfqs, SubmitterStep(r), Begin(r), OthersClear(r)
    PROVE  RfqIInv'
<1> USE RfqsAreOps DEF CallState
<1>0. /\ ControlTypeOK /\ SubmitterTypeOK /\ wpc \in [Ops -> CallState] /\ r \in Ops
      /\ wpc[r] = "queued" /\ Running(r) /\ ~Latched /\ Running(r) /\ job[r] = "executing"
      /\ status[r] = "executing" /\ phase = "serving" /\ todo = {}
  BY RfqsAreOps, CallInProgress
     DEF RfqIInv, QueueOK, InSection, ControlTypeOK, SubmitterTypeOK,
         SubmitterStep, Begin
<1>1. /\ UNCHANGED <<chain, expired, sends, writeQueue, latchTx, unknown>>
      /\ UNCHANGED <<phase, todo, status, job, recon>>
      /\ wpc' = [wpc EXCEPT ![r] = "writing"]
  BY DEF SubmitterStep, Begin, auctionVars, journalVars, handlerVars, processVars, fundsVars
<1>2. /\ wpc'[r] = "writing"
      /\ \A o \in Ops : o # r => wpc'[o] = wpc[o]
  BY <1>0, <1>1 DEF ControlTypeOK, SubmitterTypeOK
<1>3. ControlTypeOK'
  BY <1>0, <1>1, TailTyped
     DEF ControlTypeOK, SubmitterTypeOK, ChainState, HandlerState, RfqStatus
<1>4. QueueOK'
  BY <1>0, <1>1, AdvanceKeepsQueue DEF RfqIInv, QueueOK, InQueue, InSection
<1>5. PhaseOK'
  BY <1>0, <1>1, <1>2 DEF RfqIInv, PhaseOK
<1>6. ASSUME NEW o \in Rfqs PROVE CallOK(o)'
  BY <1>0, <1>1, <1>2 DEF RfqIInv, CallOK, SubmitterTypeOK
<1>7. ASSUME NEW x \in Rfqs PROVE RecordOK(x)'
  BY <1>0, <1>1, <1>2, RfqsAreOps DEF RfqIInv, RecordOK, Unsent
<1>8. \A o \in Ops : ~Live(o)
  <2> SUFFICES ASSUME NEW o \in Ops, Live(o) PROVE FALSE
    OBVIOUS
  <2>1. o \in Rfqs /\ Guarded(o)
    BY DEF RfqIInv, LiveGuarded, OthersClear
  <2>2. wpc[o] \in InSection
    BY <1>0, <2>1, SubmitterAssumption DEF Guarded, Latched, InSection, SubmitterTypeOK
  <2>3. Running(o) /\ Running(r)
    BY <1>0, <2>2 DEF RfqIInv, QueueOK
  <2> QED
    BY <1>0, <2>2, <2>3 DEF Running, InSection
<1>9. LiveGuarded' /\ SectionAlone' /\ OneLiveTx'
  BY <1>1, <1>8 DEF LiveGuarded, SectionAlone, OneLiveTx, Live
<1> QED
  BY <1>3, <1>4, <1>5, <1>6, <1>7, <1>8, <1>9 DEF RfqIInv

\* The node is given the transaction.
LEMMA HandOverKeeps ==
    ASSUME RfqIInv, NEW r \in Rfqs, SubmitterStep(r), HandOver(r)
    PROVE  RfqIInv'
<1> USE RfqsAreOps DEF CallState
<1>0. /\ ControlTypeOK /\ SubmitterTypeOK /\ wpc \in [Ops -> CallState] /\ r \in Ops
      /\ wpc[r] = "writing" /\ Running(r) /\ job[r] = "executing" /\ status[r] = "executing"
      /\ phase = "serving" /\ todo = {}
  BY RfqsAreOps, CallInProgress
     DEF RfqIInv, QueueOK, InSection, ControlTypeOK, SubmitterTypeOK,
         SubmitterStep, HandOver
<1>1. /\ UNCHANGED <<expired, writeQueue, latchTx, unknown, phase, todo, status, job, recon>>
      /\ wpc' = [wpc EXCEPT ![r] = "sending"]
      /\ chain' = [chain EXCEPT ![r] = IF @ = "none" THEN "handed" ELSE @]
      /\ sends' = [sends EXCEPT ![r] = @ + 1]
  BY DEF SubmitterStep, HandOver, auctionVars, journalVars, handlerVars, processVars, fundsVars
<1>2. /\ wpc'[r] = "sending"
      /\ \A o \in Ops : o # r => wpc'[o] = wpc[o]
      /\ chain[r] = "none" /\ sends[r] = 0
      /\ chain'[r] = "handed" /\ sends'[r] = 1
      /\ \A o \in Ops : o # r => chain'[o] = chain[o] /\ sends'[o] = sends[o]
  BY <1>0, <1>1 DEF ControlTypeOK, SubmitterTypeOK, RfqIInv, CallOK
<1>3. ControlTypeOK'
  BY <1>0, <1>1, TailTyped
     DEF ControlTypeOK, SubmitterTypeOK, ChainState, HandlerState, RfqStatus
<1>4. QueueOK'
  BY <1>0, <1>1, AdvanceKeepsQueue DEF RfqIInv, QueueOK, InQueue, InSection
<1>5. PhaseOK'
  BY <1>0, <1>1, <1>2 DEF RfqIInv, PhaseOK
<1>6. ASSUME NEW o \in Rfqs PROVE CallOK(o)'
  BY <1>0, <1>1, <1>2 DEF RfqIInv, CallOK, SubmitterTypeOK
<1>7. ASSUME NEW x \in Rfqs PROVE RecordOK(x)'
  BY <1>0, <1>1, <1>2, RfqsAreOps DEF RfqIInv, RecordOK, Unsent
<1>8. \A o \in Ops : Live(o)' => o = r
  BY <1>0, <1>1, <1>2 DEF RfqIInv, SectionAlone, Live, InSection
<1>9. \A o \in Ops : wpc'[o] \in InSection => o = r
  BY <1>0, <1>2, OneInSection DEF RfqIInv, InSection
<1>10. LiveGuarded' /\ SectionAlone' /\ OneLiveTx'
  BY <1>2, <1>8, <1>9 DEF LiveGuarded, Guarded, SectionAlone, OneLiveTx
<1> QED
  BY <1>3, <1>4, <1>5, <1>6, <1>7, <1>10 DEF RfqIInv

\* writeContract returns the hash.
LEMMA HashReturnsKeeps ==
    ASSUME RfqIInv, NEW r \in Rfqs, SubmitterStep(r), HashReturns(r)
    PROVE  RfqIInv'
<1> USE RfqsAreOps DEF CallState
<1>0. /\ ControlTypeOK /\ SubmitterTypeOK /\ wpc \in [Ops -> CallState] /\ r \in Ops
      /\ wpc[r] = "sending" /\ Running(r) /\ job[r] = "executing" /\ status[r] = "executing"
      /\ phase = "serving" /\ todo = {}
  BY RfqsAreOps, CallInProgress
     DEF RfqIInv, QueueOK, InSection, ControlTypeOK, SubmitterTypeOK,
         SubmitterStep, HashReturns
<1>1. /\ UNCHANGED <<chain, expired, sends, writeQueue, latchTx, unknown>>
      /\ UNCHANGED <<phase, todo, status, job, recon>>
      /\ wpc' = [wpc EXCEPT ![r] = "hash"]
  BY DEF SubmitterStep, HashReturns, auctionVars, journalVars, handlerVars,
         processVars, fundsVars
<1>2. /\ wpc'[r] = "hash"
      /\ \A o \in Ops : o # r => wpc'[o] = wpc[o]
  BY <1>0, <1>1 DEF ControlTypeOK, SubmitterTypeOK
<1>3. ControlTypeOK'
  BY <1>0, <1>1, TailTyped
     DEF ControlTypeOK, SubmitterTypeOK, ChainState, HandlerState, RfqStatus
<1>4. QueueOK'
  BY <1>0, <1>1, AdvanceKeepsQueue DEF RfqIInv, QueueOK, InQueue, InSection
<1>5. PhaseOK'
  BY <1>0, <1>1, <1>2 DEF RfqIInv, PhaseOK
<1>6. ASSUME NEW o \in Rfqs PROVE CallOK(o)'
  BY <1>0, <1>1, <1>2 DEF RfqIInv, CallOK, SubmitterTypeOK
<1>7. ASSUME NEW x \in Rfqs PROVE RecordOK(x)'
  BY <1>0, <1>1, <1>2, RfqsAreOps DEF RfqIInv, RecordOK, Unsent
<1>8. LiveGuarded' /\ SectionAlone' /\ OneLiveTx'
  BY <1>0, <1>1, <1>2
     DEF RfqIInv, LiveGuarded, Guarded, SectionAlone, OneLiveTx, Live, CallOK, InSection
<1> QED
  BY <1>3, <1>4, <1>5, <1>6, <1>7, <1>8 DEF RfqIInv

\* writeContract throws: the broadcast without a hash is latched.
LEMMA SendFailsKeeps ==
    ASSUME RfqIInv, NEW r \in Rfqs, SubmitterStep(r), SendFails(r)
    PROVE  RfqIInv'
<1> USE RfqsAreOps DEF CallState
<1>0. /\ ControlTypeOK /\ SubmitterTypeOK /\ wpc \in [Ops -> CallState] /\ r \in Ops
      /\ wpc[r] \in {"writing", "sending"} /\ Running(r) /\ job[r] = "executing"
      /\ status[r] = "executing" /\ phase = "serving" /\ todo = {}
  BY RfqsAreOps, CallInProgress
     DEF RfqIInv, QueueOK, InSection, ControlTypeOK, SubmitterTypeOK,
         SubmitterStep, SendFails, Return
<1>1. /\ UNCHANGED <<chain, expired, sends, latchTx, phase, todo, status, job, recon>>
      /\ wpc' = [wpc EXCEPT ![r] = "lost"] /\ writeQueue' = Tail(writeQueue)
      /\ unknown' = unknown \cup {LostBroadcast}
  BY DEF SubmitterStep, SendFails, Return, auctionVars, journalVars, handlerVars,
         processVars, fundsVars
<1>2. /\ wpc'[r] = "lost"
      /\ \A o \in Ops : o # r => wpc'[o] = wpc[o]
  BY <1>0, <1>1 DEF ControlTypeOK, SubmitterTypeOK
<1>3. ControlTypeOK'
  BY <1>0, <1>1, TailTyped
     DEF ControlTypeOK, SubmitterTypeOK, ChainState, HandlerState, RfqStatus
<1>4. QueueOK'
  BY <1>0, ReturnKeepsQueue DEF RfqIInv, QueueOK, InQueue, InSection, Returned, SendFails
<1>5. PhaseOK'
  BY <1>0, <1>1, <1>2 DEF RfqIInv, PhaseOK
<1>6. ASSUME NEW o \in Rfqs PROVE CallOK(o)'
  BY <1>0, <1>1, <1>2 DEF RfqIInv, CallOK, SubmitterTypeOK
<1>7. ASSUME NEW x \in Rfqs PROVE RecordOK(x)'
  BY <1>0, <1>1, <1>2, RfqsAreOps DEF RfqIInv, RecordOK, Unsent
<1>8. LiveGuarded' /\ SectionAlone' /\ OneLiveTx'
  BY <1>0, <1>1, <1>2
     DEF RfqIInv, LiveGuarded, Guarded, SectionAlone, OneLiveTx, Live, CallOK, InSection
<1> QED
  BY <1>3, <1>4, <1>5, <1>6, <1>7, <1>8 DEF RfqIInv

\* The receipt comes in.
LEMMA ReceiptArrivesKeeps ==
    ASSUME RfqIInv, NEW r \in Rfqs, SubmitterStep(r), ReceiptArrives(r)
    PROVE  RfqIInv'
<1> USE RfqsAreOps DEF CallState
<1>0. /\ ControlTypeOK /\ SubmitterTypeOK /\ wpc \in [Ops -> CallState] /\ r \in Ops
      /\ wpc[r] = "waiting" /\ chain[r] \in {"success", "reverted"} /\ Running(r)
      /\ job[r] = "executing" /\ status[r] = "executing" /\ phase = "serving" /\ todo = {}
  BY RfqsAreOps, CallInProgress
     DEF RfqIInv, QueueOK, InSection, ControlTypeOK, SubmitterTypeOK,
         SubmitterStep, ReceiptArrives, Return
<1>1. /\ UNCHANGED <<chain, expired, sends, latchTx, unknown, phase, todo, status, job, recon>>
      /\ wpc' = [wpc EXCEPT ![r] = "mined"] /\ writeQueue' = Tail(writeQueue)
  BY DEF SubmitterStep, ReceiptArrives, Return, auctionVars, journalVars, handlerVars,
         processVars, fundsVars
<1>2. /\ wpc'[r] = "mined"
      /\ \A o \in Ops : o # r => wpc'[o] = wpc[o]
  BY <1>0, <1>1 DEF ControlTypeOK, SubmitterTypeOK
<1>3. ControlTypeOK'
  BY <1>0, <1>1, TailTyped
     DEF ControlTypeOK, SubmitterTypeOK, ChainState, HandlerState, RfqStatus
<1>4. QueueOK'
  BY <1>0, ReturnKeepsQueue
     DEF RfqIInv, QueueOK, InQueue, InSection, Returned, ReceiptArrives
<1>5. PhaseOK'
  BY <1>0, <1>1, <1>2 DEF RfqIInv, PhaseOK
<1>6. ASSUME NEW o \in Rfqs PROVE CallOK(o)'
  BY <1>0, <1>1, <1>2 DEF RfqIInv, CallOK, SubmitterTypeOK
<1>7. ASSUME NEW x \in Rfqs PROVE RecordOK(x)'
  BY <1>0, <1>1, <1>2, RfqsAreOps DEF RfqIInv, RecordOK, Unsent
<1>8. LiveGuarded' /\ SectionAlone' /\ OneLiveTx'
  BY <1>0, <1>1, <1>2
     DEF RfqIInv, LiveGuarded, Guarded, SectionAlone, OneLiveTx, Live, CallOK, InSection
<1> QED
  BY <1>3, <1>4, <1>5, <1>6, <1>7, <1>8 DEF RfqIInv

\* What follows the broadcast throws: the hash is latched.
LEMMA LatchHashKeeps ==
    ASSUME RfqIInv, NEW r \in Rfqs, LatchHash(r), UNCHANGED <<phase, todo, status, job, recon>>
    PROVE  RfqIInv'
<1> USE RfqsAreOps DEF CallState
<1>0. /\ ControlTypeOK /\ SubmitterTypeOK /\ wpc \in [Ops -> CallState] /\ r \in Ops
      /\ wpc[r] \in {"hash", "waiting"} /\ Running(r) /\ job[r] = "executing"
      /\ status[r] = "executing" /\ phase = "serving" /\ todo = {}
  BY RfqsAreOps, CallInProgress
     DEF RfqIInv, QueueOK, InSection, ControlTypeOK, SubmitterTypeOK, LatchHash,
         Return
<1>1. /\ UNCHANGED <<chain, expired, sends, unknown, phase, todo, status, job, recon>>
      /\ wpc' = [wpc EXCEPT ![r] = "lost"] /\ writeQueue' = Tail(writeQueue)
      /\ latchTx' = r
  BY DEF LatchHash, Return, auctionVars, journalVars, handlerVars, processVars, fundsVars
<1>2. /\ wpc'[r] = "lost"
      /\ \A o \in Ops : o # r => wpc'[o] = wpc[o]
  BY <1>0, <1>1 DEF ControlTypeOK, SubmitterTypeOK
<1>3. ControlTypeOK'
  BY <1>0, <1>1, TailTyped
     DEF ControlTypeOK, SubmitterTypeOK, ChainState, HandlerState, RfqStatus
<1>4. QueueOK'
  BY <1>0, ReturnKeepsQueue DEF RfqIInv, QueueOK, InQueue, InSection, Returned, LatchHash
<1>5. PhaseOK'
  BY <1>0, <1>1, <1>2 DEF RfqIInv, PhaseOK
<1>6. ASSUME NEW o \in Rfqs PROVE CallOK(o)'
  BY <1>0, <1>1, <1>2 DEF RfqIInv, CallOK, SubmitterTypeOK
<1>7. ASSUME NEW x \in Rfqs PROVE RecordOK(x)'
  BY <1>0, <1>1, <1>2, RfqsAreOps DEF RfqIInv, RecordOK, Unsent
<1>8. LiveGuarded' /\ SectionAlone' /\ OneLiveTx'
  BY <1>0, <1>1, <1>2
     DEF RfqIInv, LiveGuarded, Guarded, SectionAlone, OneLiveTx, Live, CallOK, InSection
<1> QED
  BY <1>3, <1>4, <1>5, <1>6, <1>7, <1>8 DEF RfqIInv

\* The hash is in the journal.
LEMMA HashAcknowledgedKeeps ==
    ASSUME RfqIInv, NEW r \in Rfqs, HashAcknowledged(r), UNCHANGED <<phase, todo, status, job, recon>>
    PROVE  RfqIInv'
<1> USE RfqsAreOps DEF CallState
<1>0. /\ ControlTypeOK /\ SubmitterTypeOK /\ wpc \in [Ops -> CallState] /\ r \in Ops
      /\ wpc[r] = "hash" /\ Running(r) /\ job[r] = "executing" /\ status[r] = "executing"
      /\ phase = "serving" /\ todo = {}
  BY RfqsAreOps, CallInProgress
     DEF RfqIInv, QueueOK, InSection, ControlTypeOK, SubmitterTypeOK,
         HashAcknowledged
<1>1. /\ UNCHANGED <<chain, expired, sends, writeQueue, latchTx, unknown>>
      /\ UNCHANGED <<phase, todo, status, job, recon>>
      /\ wpc' = [wpc EXCEPT ![r] = "waiting"]
  BY DEF HashAcknowledged, auctionVars, journalVars, handlerVars, processVars, fundsVars
<1>2. /\ wpc'[r] = "waiting"
      /\ \A o \in Ops : o # r => wpc'[o] = wpc[o]
  BY <1>0, <1>1 DEF ControlTypeOK, SubmitterTypeOK
<1>3. ControlTypeOK'
  BY <1>0, <1>1, TailTyped
     DEF ControlTypeOK, SubmitterTypeOK, ChainState, HandlerState, RfqStatus
<1>4. QueueOK'
  BY <1>0, <1>1, AdvanceKeepsQueue DEF RfqIInv, QueueOK, InQueue, InSection
<1>5. PhaseOK'
  BY <1>0, <1>1, <1>2 DEF RfqIInv, PhaseOK
<1>6. ASSUME NEW o \in Rfqs PROVE CallOK(o)'
  BY <1>0, <1>1, <1>2 DEF RfqIInv, CallOK, SubmitterTypeOK
<1>7. ASSUME NEW x \in Rfqs PROVE RecordOK(x)'
  BY <1>0, <1>1, <1>2, RfqsAreOps DEF RfqIInv, RecordOK, Unsent
<1>8. LiveGuarded' /\ SectionAlone' /\ OneLiveTx'
  BY <1>0, <1>1, <1>2
     DEF RfqIInv, LiveGuarded, Guarded, SectionAlone, OneLiveTx, Live, CallOK, InSection
<1> QED
  BY <1>3, <1>4, <1>5, <1>6, <1>7, <1>8 DEF RfqIInv

-----------------------------------------------------------------------------
(* The handler of an acceptance. *)

\* The record says executing before the call joins the queue.
LEMMA AcceptCommitKeeps ==
    ASSUME RfqIInv, NEW r \in Rfqs, AcceptCommit(r)
    PROVE  RfqIInv'
<1> USE RfqsAreOps DEF CallState
<1>0. /\ ControlTypeOK /\ SubmitterTypeOK /\ wpc \in [Ops -> CallState] /\ r \in Ops
      /\ wpc[r] = "idle" /\ job[r] = "validating" /\ status[r] = "closed" /\ phase = "serving"
      /\ chain[r] = "none" /\ recon[r] = "none"
  BY RfqsAreOps, CallInProgress
     DEF RfqIInv, ControlTypeOK, SubmitterTypeOK, AcceptCommit, Enqueue, PhaseOK,
         RecordOK, HandlerState, Unsent
<1>1. /\ UNCHANGED <<chain, expired, sends, latchTx, unknown, phase, todo, recon>>
      /\ wpc' = [wpc EXCEPT ![r] = "queued"] /\ writeQueue' = Append(writeQueue, r)
      /\ status' = [status EXCEPT ![r] = "executing"]
      /\ job' = [job EXCEPT ![r] = "executing"]
  BY DEF AcceptCommit, Enqueue, auctionVars, journalVars, handlerVars, processVars, fundsVars
<1>2. /\ wpc'[r] = "queued"
      /\ \A o \in Ops : o # r => wpc'[o] = wpc[o]
      /\ status'[r] = "executing"
      /\ \A x \in Rfqs : x # r => status'[x] = status[x]
      /\ job'[r] = "executing"
      /\ \A x \in Rfqs : x # r => job'[x] = job[x]
  BY <1>0, <1>1 DEF ControlTypeOK, SubmitterTypeOK
<1>3. ControlTypeOK'
  BY <1>0, <1>1, <1>2 DEF ControlTypeOK, SubmitterTypeOK, ChainState, HandlerState, RfqStatus
<1>4. QueueOK'
  BY <1>0, <1>1, EnqueueKeepsQueue DEF RfqIInv
<1>5. PhaseOK'
  BY <1>0, <1>1, <1>2 DEF RfqIInv, PhaseOK
<1>6. ASSUME NEW o \in Rfqs PROVE CallOK(o)'
  BY <1>0, <1>1, <1>2 DEF RfqIInv, CallOK, SubmitterTypeOK
<1>7. ASSUME NEW x \in Rfqs PROVE RecordOK(x)'
  BY <1>0, <1>1, <1>2, RfqsAreOps DEF RfqIInv, RecordOK, Unsent
<1>8. LiveGuarded' /\ SectionAlone' /\ OneLiveTx'
  BY <1>0, <1>1, <1>2, SubmitterAssumption
     DEF RfqIInv, LiveGuarded, Guarded, SectionAlone, OneLiveTx, Live, CallOK, InSection
<1> QED
  BY <1>3, <1>4, <1>5, <1>6, <1>7, <1>8 DEF RfqIInv

\* A receipt: the terminal record, then the latches go.
LEMMA SettleKeeps ==
    ASSUME RfqIInv, NEW r \in Rfqs, Settle(r)
    PROVE  RfqIInv'
<1> USE RfqsAreOps DEF CallState
<1>0. /\ ControlTypeOK /\ SubmitterTypeOK /\ wpc \in [Ops -> CallState] /\ r \in Ops
      /\ wpc[r] = "mined" /\ chain[r] \in {"success", "reverted"} /\ job[r] = "executing"
      /\ status[r] = "executing" /\ recon[r] = "none" /\ phase = "serving" /\ todo = {}
  BY RfqsAreOps, CallInProgress DEF RfqIInv, ControlTypeOK, SubmitterTypeOK, Settle, CallOK
<1>1. /\ UNCHANGED <<chain, expired, sends, writeQueue, phase, todo, recon>>
      /\ wpc' = [wpc EXCEPT ![r] = "idle"]
      /\ status' = [status EXCEPT ![r] = MinedAs(r)]
      /\ job' = [job EXCEPT ![r] = "idle"]
      /\ unknown' = unknown \ {r} /\ latchTx' = IF latchTx = r THEN NoTx ELSE latchTx
  BY DEF Settle, Terminalize, Clear, HandlerReturns, LeaveHandler, auctionVars,
         journalVars, handlerVars, processVars, fundsVars
<1>2. /\ wpc'[r] = "idle"
      /\ \A o \in Ops : o # r => wpc'[o] = wpc[o]
      /\ status'[r] = MinedAs(r)
      /\ \A x \in Rfqs : x # r => status'[x] = status[x]
      /\ job'[r] = "idle"
      /\ \A x \in Rfqs : x # r => job'[x] = job[x]
  BY <1>0, <1>1 DEF ControlTypeOK, SubmitterTypeOK
<1>3. ControlTypeOK'
  BY <1>0, <1>1, <1>2
     DEF ControlTypeOK, SubmitterTypeOK, ChainState, HandlerState, RfqStatus, MinedAs
<1>4. QueueOK'
  BY <1>0, <1>1, HandledKeepsQueue DEF RfqIInv, Returned
<1>5. PhaseOK'
  BY <1>0, <1>1, <1>2 DEF RfqIInv, PhaseOK
<1>6. ASSUME NEW o \in Rfqs PROVE CallOK(o)'
  BY <1>0, <1>1, <1>2 DEF RfqIInv, CallOK, SubmitterTypeOK
<1>7. ASSUME NEW x \in Rfqs PROVE RecordOK(x)'
  BY <1>0, <1>1, <1>2, RfqsAreOps DEF RfqIInv, RecordOK, Unsent, MinedAs
<1>8. LiveGuarded' /\ SectionAlone' /\ OneLiveTx'
  BY <1>0, <1>1, <1>2, SubmitterAssumption
     DEF RfqIInv, LiveGuarded, Guarded, SectionAlone, OneLiveTx, Live, CallOK, InSection
<1> QED
  BY <1>3, <1>4, <1>5, <1>6, <1>7, <1>8 DEF RfqIInv

\* The guard refused the call: nothing was sent.
LEMMA RejectedKeeps ==
    ASSUME RfqIInv, NEW r \in Rfqs, Rejected(r) \/ RejectedPutFails(r)
    PROVE  RfqIInv'
<1> USE RfqsAreOps DEF CallState
<1>0. /\ ControlTypeOK /\ SubmitterTypeOK /\ wpc \in [Ops -> CallState] /\ r \in Ops
      /\ wpc[r] = "refused" /\ chain[r] = "none" /\ job[r] = "executing"
      /\ status[r] = "executing" /\ recon[r] = "none" /\ phase = "serving" /\ todo = {}
  BY RfqsAreOps, CallInProgress
     DEF RfqIInv, ControlTypeOK, SubmitterTypeOK, Rejected, RejectedPutFails,
         CallOK
<1>1. /\ UNCHANGED <<chain, expired, sends, writeQueue, latchTx, unknown, phase, todo, recon>>
      /\ wpc' = [wpc EXCEPT ![r] = "idle"]
      /\ job' = [job EXCEPT ![r] = "idle"]
      /\ UNCHANGED status \/ \E x \in {"closed", "expired"} : status' = [status EXCEPT ![r] = x]
  BY DEF Rejected, RejectedPutFails, ExpireEffect, HandlerReturns, LeaveHandler,
         auctionVars, journalVars, handlerVars, processVars, fundsVars
<1>2. /\ wpc'[r] = "idle"
      /\ \A o \in Ops : o # r => wpc'[o] = wpc[o]
      /\ status'[r] \in Unsent \cup {"executing"}
      /\ \A x \in Rfqs : x # r => status'[x] = status[x]
      /\ job'[r] = "idle"
      /\ \A x \in Rfqs : x # r => job'[x] = job[x]
  BY <1>0, <1>1 DEF ControlTypeOK, SubmitterTypeOK, Unsent
<1>3. ControlTypeOK'
  BY <1>0, <1>1, <1>2 DEF ControlTypeOK, SubmitterTypeOK, ChainState, HandlerState, RfqStatus
<1>4. QueueOK'
  BY <1>0, <1>1, HandledKeepsQueue DEF RfqIInv, Returned
<1>5. PhaseOK'
  BY <1>0, <1>1, <1>2 DEF RfqIInv, PhaseOK
<1>6. ASSUME NEW o \in Rfqs PROVE CallOK(o)'
  BY <1>0, <1>1, <1>2 DEF RfqIInv, CallOK, SubmitterTypeOK
<1>7. ASSUME NEW x \in Rfqs PROVE RecordOK(x)'
  BY <1>0, <1>1, <1>2, RfqsAreOps DEF RfqIInv, RecordOK, Unsent
<1>8. LiveGuarded' /\ SectionAlone' /\ OneLiveTx'
  BY <1>0, <1>1, <1>2, SubmitterAssumption
     DEF RfqIInv, LiveGuarded, Guarded, SectionAlone, OneLiveTx, Live, CallOK, InSection
<1> QED
  BY <1>3, <1>4, <1>5, <1>6, <1>7, <1>8 DEF RfqIInv

\* An ambiguous outcome: the latch is armed before the handler ends.
LEMMA AmbiguousKeeps ==
    ASSUME RfqIInv, NEW r \in Rfqs, Ambiguous(r)
    PROVE  RfqIInv'
<1> USE RfqsAreOps DEF CallState
<1>0. /\ ControlTypeOK /\ SubmitterTypeOK /\ wpc \in [Ops -> CallState] /\ r \in Ops
      /\ wpc[r] \in {"lost", "mined"} /\ job[r] = "executing" /\ status[r] = "executing"
      /\ recon[r] = "none" /\ phase = "serving" /\ todo = {}
  BY RfqsAreOps, CallInProgress DEF RfqIInv, ControlTypeOK, SubmitterTypeOK, Ambiguous
<1>1. /\ UNCHANGED <<chain, expired, sends, writeQueue, phase, todo, status, recon>>
      /\ wpc' = [wpc EXCEPT ![r] = "idle"]
      /\ job' = [job EXCEPT ![r] = "idle"]
      /\ unknown' = UnknownAfterArm(r, hasHash[r]) /\ latchTx' = LatchAfterArm(r, hasHash[r])
  BY DEF Ambiguous, Arm, HandlerReturns, LeaveHandler, auctionVars, journalVars,
         handlerVars, processVars, fundsVars
<1>2. /\ wpc'[r] = "idle"
      /\ \A o \in Ops : o # r => wpc'[o] = wpc[o]
      /\ job'[r] = "idle"
      /\ \A x \in Rfqs : x # r => job'[x] = job[x]
      /\ unknown \cup {r} \subseteq unknown'
      /\ unknown' \subseteq unknown \cup {r, ManyLost}
      /\ latchTx' \in {latchTx, r} /\ (latchTx # NoTx => latchTx' = latchTx)
  BY <1>0, <1>1 DEF ControlTypeOK, SubmitterTypeOK, UnknownAfterArm, LatchAfterArm
<1>3. ControlTypeOK'
  BY <1>0, <1>1, <1>2 DEF ControlTypeOK, SubmitterTypeOK, ChainState, HandlerState, RfqStatus
<1>4. QueueOK'
  BY <1>0, <1>1, HandledKeepsQueue DEF RfqIInv, Returned
<1>5. PhaseOK'
  BY <1>0, <1>1, <1>2 DEF RfqIInv, PhaseOK
<1>6. ASSUME NEW o \in Rfqs PROVE CallOK(o)'
  BY <1>0, <1>1, <1>2 DEF RfqIInv, CallOK, SubmitterTypeOK
<1>7. ASSUME NEW x \in Rfqs PROVE RecordOK(x)'
  BY <1>0, <1>1, <1>2, RfqsAreOps DEF RfqIInv, RecordOK, Unsent
<1>8. LiveGuarded' /\ SectionAlone' /\ OneLiveTx'
  BY <1>0, <1>1, <1>2, SubmitterAssumption
     DEF RfqIInv, LiveGuarded, Guarded, SectionAlone, OneLiveTx, Live, CallOK, InSection
<1> QED
  BY <1>3, <1>4, <1>5, <1>6, <1>7, <1>8 DEF RfqIInv

-----------------------------------------------------------------------------
(* Reconciliation and recovery. *)

\* A client asks for an unattended execution.
LEMMA GetRfqKeeps ==
    ASSUME RfqIInv, NEW r \in Rfqs, GetRfq(r)
    PROVE  RfqIInv'
<1> USE RfqsAreOps DEF CallState
<1>0. /\ ControlTypeOK /\ SubmitterTypeOK /\ wpc \in [Ops -> CallState] /\ r \in Ops
      /\ status[r] = "executing" /\ job[r] # "executing"
  BY RfqsAreOps, CallInProgress DEF RfqIInv, ControlTypeOK, SubmitterTypeOK, GetRfq
<1>1. /\ UNCHANGED <<chain, expired, sends, wpc, writeQueue, phase, todo, status, job>>
      /\ recon' = [recon EXCEPT ![r] = "receipt"]
      /\ unknown' = UnknownAfterArm(r, hasHash[r]) /\ latchTx' = LatchAfterArm(r, hasHash[r])
  BY DEF GetRfq, BeginReconciliation, Arm, auctionVars, journalVars, handlerVars,
         processVars, fundsVars
<1>2. /\ recon'[r] = "receipt"
      /\ \A x \in Rfqs : x # r => recon'[x] = recon[x]
      /\ unknown \cup {r} \subseteq unknown'
      /\ unknown' \subseteq unknown \cup {r, ManyLost}
      /\ latchTx' \in {latchTx, r} /\ (latchTx # NoTx => latchTx' = latchTx)
  BY <1>0, <1>1 DEF ControlTypeOK, SubmitterTypeOK, UnknownAfterArm, LatchAfterArm
<1>3. ControlTypeOK'
  BY <1>0, <1>1, <1>2 DEF ControlTypeOK, SubmitterTypeOK, ChainState, HandlerState, RfqStatus
<1>4. QueueOK'
  BY <1>1, SameQueue DEF RfqIInv
<1>5. PhaseOK'
  BY <1>0, <1>1, <1>2 DEF RfqIInv, PhaseOK
<1>6. ASSUME NEW o \in Rfqs PROVE CallOK(o)'
  BY <1>0, <1>1, <1>2 DEF RfqIInv, CallOK, SubmitterTypeOK
<1>7. ASSUME NEW x \in Rfqs PROVE RecordOK(x)'
  BY <1>0, <1>1, <1>2, RfqsAreOps DEF RfqIInv, RecordOK, Unsent
<1>8. LiveGuarded' /\ SectionAlone' /\ OneLiveTx'
  BY <1>0, <1>1, <1>2, SubmitterAssumption
     DEF RfqIInv, LiveGuarded, Guarded, SectionAlone, OneLiveTx, Live, CallOK, InSection
<1> QED
  BY <1>3, <1>4, <1>5, <1>6, <1>7, <1>8 DEF RfqIInv

\* The reconciliation finds the transaction mined.
LEMMA ReconcileMinedKeeps ==
    ASSUME RfqIInv, NEW r \in Rfqs, ReconcileMined(r)
    PROVE  RfqIInv'
<1> USE RfqsAreOps DEF CallState
<1>0. /\ ControlTypeOK /\ SubmitterTypeOK /\ wpc \in [Ops -> CallState] /\ r \in Ops
      /\ status[r] = "executing" /\ job[r] # "executing" /\ wpc[r] = "idle"
      /\ chain[r] \in {"success", "reverted"} /\ \A o \in Ops : wpc[o] # "lost"
  BY RfqsAreOps, CallInProgress
     DEF RfqIInv, ControlTypeOK, SubmitterTypeOK, ReconcileMined, FoundMined,
         RecordOK, Drained, Returned
<1>1. /\ UNCHANGED <<chain, expired, sends, wpc, writeQueue, phase, todo, job>>
      /\ status' = [status EXCEPT ![r] = MinedAs(r)]
      /\ recon' = [recon EXCEPT ![r] = "none"]
      /\ unknown \ {r, LostBroadcast} \subseteq unknown' /\ unknown' \subseteq unknown
      /\ latchTx' = IF latchTx = r THEN NoTx ELSE latchTx
  BY DEF ReconcileMined, Terminalize, Clear, auctionVars, journalVars, handlerVars,
         processVars, fundsVars
<1>2. /\ status'[r] = MinedAs(r)
      /\ \A x \in Rfqs : x # r => status'[x] = status[x]
      /\ recon'[r] = "none"
      /\ \A x \in Rfqs : x # r => recon'[x] = recon[x]
  BY <1>0, <1>1 DEF ControlTypeOK, SubmitterTypeOK
<1>3. ControlTypeOK'
  BY <1>0, <1>1, <1>2
     DEF ControlTypeOK, SubmitterTypeOK, ChainState, HandlerState, RfqStatus, MinedAs
<1>4. QueueOK'
  BY <1>1, SameQueue DEF RfqIInv
<1>5. PhaseOK'
  BY <1>0, <1>1, <1>2 DEF RfqIInv, PhaseOK
<1>6. ASSUME NEW o \in Rfqs PROVE CallOK(o)'
  BY <1>0, <1>1, <1>2 DEF RfqIInv, CallOK, SubmitterTypeOK
<1>7. ASSUME NEW x \in Rfqs PROVE RecordOK(x)'
  BY <1>0, <1>1, <1>2, RfqsAreOps DEF RfqIInv, RecordOK, Unsent, MinedAs
<1>8. LiveGuarded' /\ SectionAlone' /\ OneLiveTx'
  BY <1>0, <1>1, <1>2, SubmitterAssumption
     DEF RfqIInv, LiveGuarded, Guarded, SectionAlone, OneLiveTx, Live, CallOK, InSection
<1> QED
  BY <1>3, <1>4, <1>5, <1>6, <1>7, <1>8 DEF RfqIInv

\* The actions have expired with their nonces unused.
LEMMA ReconcileExpiredKeeps ==
    ASSUME RfqIInv, NEW r \in Rfqs, ReconcileExpiredUnused(r)
    PROVE  RfqIInv'
<1> USE RfqsAreOps DEF CallState
<1>0. /\ ControlTypeOK /\ SubmitterTypeOK /\ wpc \in [Ops -> CallState] /\ r \in Ops
      /\ status[r] = "executing" /\ job[r] # "executing" /\ wpc[r] = "idle"
      /\ expired[r] /\ chain[r] # "success" /\ \A o \in Ops : wpc[o] # "lost"
  BY RfqsAreOps, CallInProgress
     DEF RfqIInv, ControlTypeOK, SubmitterTypeOK, ReconcileExpiredUnused,
         ExpiredUnused, RecordOK, Drained, Returned
<1>1. /\ UNCHANGED <<chain, expired, sends, wpc, writeQueue, phase, todo, job>>
      /\ status' = [status EXCEPT ![r] = "failed"]
      /\ recon' = [recon EXCEPT ![r] = "none"]
      /\ unknown \ {r, LostBroadcast} \subseteq unknown' /\ unknown' \subseteq unknown
      /\ (latchTx' = NoTx /\ latchTx = r) \/ latchTx' = latchTx
  BY DEF ReconcileExpiredUnused, Terminalize, Clear, auctionVars, journalVars,
         handlerVars, processVars, fundsVars
<1>2. /\ status'[r] = "failed"
      /\ \A x \in Rfqs : x # r => status'[x] = status[x]
      /\ recon'[r] = "none"
      /\ \A x \in Rfqs : x # r => recon'[x] = recon[x]
  BY <1>0, <1>1 DEF ControlTypeOK, SubmitterTypeOK
<1>3. ControlTypeOK'
  BY <1>0, <1>1, <1>2 DEF ControlTypeOK, SubmitterTypeOK, ChainState, HandlerState, RfqStatus
<1>4. QueueOK'
  BY <1>1, SameQueue DEF RfqIInv
<1>5. PhaseOK'
  BY <1>0, <1>1, <1>2 DEF RfqIInv, PhaseOK
<1>6. ASSUME NEW o \in Rfqs PROVE CallOK(o)'
  BY <1>0, <1>1, <1>2 DEF RfqIInv, CallOK, SubmitterTypeOK
<1>7. ASSUME NEW x \in Rfqs PROVE RecordOK(x)'
  BY <1>0, <1>1, <1>2, RfqsAreOps DEF RfqIInv, RecordOK, Unsent
<1>8. LiveGuarded' /\ SectionAlone' /\ OneLiveTx'
  BY <1>0, <1>1, <1>2, SubmitterAssumption
     DEF RfqIInv, LiveGuarded, Guarded, SectionAlone, OneLiveTx, Live, CallOK, InSection
<1> QED
  BY <1>3, <1>4, <1>5, <1>6, <1>7, <1>8 DEF RfqIInv

\* No receipt, or no conclusion.
LEMMA ReconcileQuietKeeps ==
    ASSUME RfqIInv, NEW r \in Rfqs, ReconcileNotMined(r) \/ ReconcileInconclusive(r)
    PROVE  RfqIInv'
<1> USE RfqsAreOps DEF CallState
<1>0. /\ ControlTypeOK /\ SubmitterTypeOK /\ wpc \in [Ops -> CallState] /\ r \in Ops
      /\ status[r] = "executing" /\ job[r] # "executing" /\ wpc[r] = "idle"
  BY RfqsAreOps, CallInProgress
     DEF RfqIInv, ControlTypeOK, SubmitterTypeOK, ReconcileNotMined,
         ReconcileInconclusive, RecordOK
<1>1. /\ UNCHANGED <<chain, expired, sends, wpc, writeQueue, latchTx, unknown, phase, todo, status, job>>
      /\ \E x \in {"none", "nonces"} : recon' = [recon EXCEPT ![r] = x]
  BY DEF ReconcileNotMined, ReconcileInconclusive, sharedVars, submitterVars,
         auctionVars, journalVars, handlerVars, processVars, fundsVars
<1>2. /\ \A x \in Rfqs : x # r => recon'[x] = recon[x]
  BY <1>0, <1>1 DEF ControlTypeOK, SubmitterTypeOK
<1>3. ControlTypeOK'
  BY <1>0, <1>1, <1>2 DEF ControlTypeOK, SubmitterTypeOK, ChainState, HandlerState, RfqStatus
<1>4. QueueOK'
  BY <1>1, SameQueue DEF RfqIInv
<1>5. PhaseOK'
  BY <1>0, <1>1, <1>2 DEF RfqIInv, PhaseOK
<1>6. ASSUME NEW o \in Rfqs PROVE CallOK(o)'
  BY <1>0, <1>1, <1>2 DEF RfqIInv, CallOK, SubmitterTypeOK
<1>7. ASSUME NEW x \in Rfqs PROVE RecordOK(x)'
  BY <1>0, <1>1, <1>2, RfqsAreOps DEF RfqIInv, RecordOK, Unsent
<1>8. LiveGuarded' /\ SectionAlone' /\ OneLiveTx'
  BY <1>0, <1>1, <1>2, SubmitterAssumption
     DEF RfqIInv, LiveGuarded, Guarded, SectionAlone, OneLiveTx, Live, CallOK, InSection
<1> QED
  BY <1>3, <1>4, <1>5, <1>6, <1>7, <1>8 DEF RfqIInv

\* recover() has rearmed an auction or a deadline, or closed it out.
LEMMA RecoverUnsentKeeps ==
    ASSUME RfqIInv, NEW r \in Rfqs, RecoverOpen(r) \/ RecoverClosed(r)
    PROVE  RfqIInv'
<1> USE RfqsAreOps DEF CallState
<1>0. /\ ControlTypeOK /\ SubmitterTypeOK /\ wpc \in [Ops -> CallState] /\ r \in Ops
      /\ phase = "recovering" /\ status[r] \in Unsent /\ chain[r] = "none" /\ recon[r] = "none"
  BY RfqsAreOps, CallInProgress
     DEF RfqIInv, ControlTypeOK, SubmitterTypeOK, RecoverOpen, RecoverClosed,
         RecoverTurn, TakeTurn, NoReconciliation, RecordOK, Unsent
<1>1. /\ UNCHANGED <<chain, expired, sends, wpc, writeQueue, latchTx, unknown, phase, job, recon>>
      /\ todo' = todo \ {r}
      /\ UNCHANGED status \/ \E x \in Unsent : status' = [status EXCEPT ![r] = x]
  BY DEF RecoverOpen, RecoverClosed, RecoverTurn, TakeTurn, CloseEffect, ExpireEffect,
         Unsent, submitterVars, auctionVars, journalVars, handlerVars, processVars,
         fundsVars
<1>2. /\ status'[r] \in Unsent /\ status' \in [Rfqs -> RfqStatus]
      /\ \A x \in Rfqs : x # r => status'[x] = status[x]
  BY <1>0, <1>1 DEF ControlTypeOK, SubmitterTypeOK, RfqStatus, Unsent
<1>3. ControlTypeOK'
  BY <1>0, <1>1, <1>2 DEF ControlTypeOK, SubmitterTypeOK, ChainState, HandlerState, RfqStatus
<1>4. QueueOK'
  BY <1>1, SameQueue DEF RfqIInv
<1>5. PhaseOK'
  BY <1>0, <1>1, <1>2 DEF RfqIInv, PhaseOK
<1>6. ASSUME NEW o \in Rfqs PROVE CallOK(o)'
  BY <1>0, <1>1, <1>2 DEF RfqIInv, CallOK, SubmitterTypeOK
<1>7. ASSUME NEW x \in Rfqs PROVE RecordOK(x)'
  BY <1>0, <1>1, <1>2, RfqsAreOps DEF RfqIInv, RecordOK, Unsent
<1>8. LiveGuarded' /\ SectionAlone' /\ OneLiveTx'
  BY <1>0, <1>1, <1>2, SubmitterAssumption
     DEF RfqIInv, LiveGuarded, Guarded, SectionAlone, OneLiveTx, Live, CallOK, InSection
<1> QED
  BY <1>3, <1>4, <1>5, <1>6, <1>7, <1>8 DEF RfqIInv

\* recover() arms the latch of an execution it finds.
LEMMA RecoverExecutingKeeps ==
    ASSUME RfqIInv, NEW r \in Rfqs, RecoverExecuting(r)
    PROVE  RfqIInv'
<1> USE RfqsAreOps DEF CallState
<1>0. /\ ControlTypeOK /\ SubmitterTypeOK /\ wpc \in [Ops -> CallState] /\ r \in Ops
      /\ phase = "recovering" /\ status[r] = "executing" /\ job[r] = "idle"
  BY RfqsAreOps, CallInProgress
     DEF RfqIInv, ControlTypeOK, SubmitterTypeOK, RecoverExecuting, RecoverTurn,
         TakeTurn, PhaseOK
<1>1. /\ UNCHANGED <<chain, expired, sends, wpc, writeQueue, phase, status, job>>
      /\ todo' = todo \ {r}
      /\ recon' = [recon EXCEPT ![r] = "receipt"]
      /\ unknown' = UnknownAfterArm(r, hasHash[r]) /\ latchTx' = LatchAfterArm(r, hasHash[r])
  BY DEF RecoverExecuting, RecoverTurn, TakeTurn, BeginReconciliation, Arm,
         auctionVars, journalVars, handlerVars, processVars, fundsVars
<1>2. /\ recon'[r] = "receipt"
      /\ \A x \in Rfqs : x # r => recon'[x] = recon[x]
      /\ unknown \cup {r} \subseteq unknown'
      /\ unknown' \subseteq unknown \cup {r, ManyLost}
      /\ latchTx' \in {latchTx, r} /\ (latchTx # NoTx => latchTx' = latchTx)
  BY <1>0, <1>1 DEF ControlTypeOK, SubmitterTypeOK, UnknownAfterArm, LatchAfterArm
<1>3. ControlTypeOK'
  BY <1>0, <1>1, <1>2 DEF ControlTypeOK, SubmitterTypeOK, ChainState, HandlerState, RfqStatus
<1>4. QueueOK'
  BY <1>1, SameQueue DEF RfqIInv
<1>5. PhaseOK'
  BY <1>0, <1>1, <1>2 DEF RfqIInv, PhaseOK
<1>6. ASSUME NEW o \in Rfqs PROVE CallOK(o)'
  BY <1>0, <1>1, <1>2 DEF RfqIInv, CallOK, SubmitterTypeOK
<1>7. ASSUME NEW x \in Rfqs PROVE RecordOK(x)'
  BY <1>0, <1>1, <1>2, RfqsAreOps DEF RfqIInv, RecordOK, Unsent
<1>8. LiveGuarded' /\ SectionAlone' /\ OneLiveTx'
  BY <1>0, <1>1, <1>2, SubmitterAssumption
     DEF RfqIInv, LiveGuarded, Guarded, SectionAlone, OneLiveTx, Live, CallOK, InSection
<1> QED
  BY <1>3, <1>4, <1>5, <1>6, <1>7, <1>8 DEF RfqIInv

-----------------------------------------------------------------------------
(* The chain and the process. *)

\* The mempool and the chain move on.
LEMMA ChainKeeps ==
    ASSUME RfqIInv, NEW r \in Rfqs, Propagate(r) \/ RfqSucceeds(r) \/ RfqReverts(r)
    PROVE  RfqIInv'
<1>0. /\ ControlTypeOK /\ SubmitterTypeOK /\ r \in Ops
      /\ chain[r] \in {"handed", "pending"}
  BY RfqsAreOps
     DEF RfqIInv, ControlTypeOK, Propagate, NodeAccepts, RfqSucceeds, RfqReverts, MineAs
<1>1. /\ UNCHANGED <<expired, sends, wpc, writeQueue, latchTx, unknown, phase, todo, status,
                      job, recon>>
      /\ \E x \in {"pending", "success", "reverted"} :
            /\ chain' = [chain EXCEPT ![r] = x]
            /\ x = "success" => ~expired[r]
  BY DEF Propagate, NodeAccepts, RfqSucceeds, RfqReverts, MineAs, auctionVars, journalVars,
         handlerVars, processVars
<1>2. /\ \A o \in Ops : o # r => chain'[o] = chain[o]
      /\ chain'[r] \in {"pending", "success", "reverted"}
      /\ chain'[r] = "success" => ~expired[r]
      /\ ControlTypeOK'
  BY <1>0, <1>1 DEF ControlTypeOK, SubmitterTypeOK, ChainState
<1>3. QueueOK'
  BY <1>1, SameQueue DEF RfqIInv
<1>4. PhaseOK'
  BY <1>0, <1>1, <1>2 DEF RfqIInv, PhaseOK
<1>5. ASSUME NEW o \in Rfqs PROVE CallOK(o)'
  BY <1>0, <1>1, <1>2 DEF RfqIInv, CallOK
<1>6. ASSUME NEW x \in Rfqs PROVE RecordOK(x)'
  BY <1>0, <1>1, <1>2, RfqsAreOps DEF RfqIInv, RecordOK, Unsent
<1>7. \A o \in Ops : Live(o)' => Live(o)
  BY <1>0, <1>1, <1>2 DEF Live
<1>8. LiveGuarded' /\ SectionAlone' /\ OneLiveTx'
  BY <1>1, <1>7, RfqsAreOps DEF RfqIInv, LiveGuarded, Guarded, SectionAlone, OneLiveTx
<1> QED
  BY <1>2, <1>3, <1>4, <1>5, <1>6, <1>8 DEF RfqIInv

\* Chain time passes the expiry of an RFQ's actions.
LEMMA ExpireKeeps ==
    ASSUME RfqIInv, NEW r \in Rfqs, ActionsExpire(r)
    PROVE  RfqIInv'
<1>0. ControlTypeOK /\ SubmitterTypeOK /\ r \in Ops
  BY RfqsAreOps DEF RfqIInv, ControlTypeOK
<1>1. /\ UNCHANGED <<chain, sends, wpc, writeQueue, latchTx, unknown, phase, todo, status,
                      job, recon>>
      /\ expired' = [expired EXCEPT ![r] = TRUE]
  BY DEF ActionsExpire, Expire, auctionVars, journalVars, handlerVars, processVars
<1>2. /\ \A o \in Ops : expired[o] => expired'[o]
      /\ ControlTypeOK'
  BY <1>0, <1>1 DEF ControlTypeOK, SubmitterTypeOK
<1>3. QueueOK'
  BY <1>1, SameQueue DEF RfqIInv
<1>4. PhaseOK'
  BY <1>1 DEF RfqIInv, PhaseOK
<1>5. ASSUME NEW o \in Rfqs PROVE CallOK(o)'
  BY <1>1 DEF RfqIInv, CallOK
<1>6. ASSUME NEW x \in Rfqs PROVE RecordOK(x)'
  BY <1>1, <1>2, RfqsAreOps DEF RfqIInv, RecordOK
<1>7. \A o \in Ops : Live(o)' => Live(o)
  BY <1>1, <1>2 DEF Live
<1>8. LiveGuarded' /\ SectionAlone' /\ OneLiveTx'
  BY <1>1, <1>7, RfqsAreOps DEF RfqIInv, LiveGuarded, Guarded, SectionAlone, OneLiveTx
<1> QED
  BY <1>2, <1>3, <1>4, <1>5, <1>6, <1>8 DEF RfqIInv

\* A crash forgets the calls and the latches; nothing runs until recover()
\* has them again.
LEMMA CrashKeeps ==
    ASSUME RfqIInv, Crash
    PROVE  RfqIInv'
<1>0. ControlTypeOK /\ SubmitterTypeOK
  BY DEF RfqIInv, ControlTypeOK
<1>1. /\ UNCHANGED <<chain, expired, sends, status>>
      /\ wpc' = [o \in Ops |-> "idle"] /\ writeQueue' = <<>>
      /\ latchTx' = NoTx /\ unknown' = {} /\ phase' = "down" /\ todo' = {}
      /\ job' = [r \in Rfqs |-> "idle"] /\ recon' = [r \in Rfqs |-> "none"]
  BY DEF Crash, ProcessStops, SubmitterCrash, AuctionForgets
<1>2. ControlTypeOK'
  BY <1>0, <1>1 DEF ControlTypeOK, SubmitterTypeOK, CallState, HandlerState
<1>3. QueueOK'
  BY <1>1 DEF QueueOK, Chained, InQueue, InSection
<1>4. PhaseOK'
  BY <1>1, RfqsAreOps DEF RfqIInv, PhaseOK
<1>5. ASSUME NEW o \in Rfqs PROVE CallOK(o)'
  BY <1>1, RfqsAreOps DEF RfqIInv, CallOK
<1>6. ASSUME NEW x \in Rfqs PROVE RecordOK(x)'
  BY <1>1, RfqsAreOps DEF RfqIInv, RecordOK
<1>7. LiveGuarded' /\ SectionAlone' /\ OneLiveTx'
  BY <1>1 DEF RfqIInv, LiveGuarded, Guarded, SectionAlone, InSection, OneLiveTx, Live
<1> QED
  BY <1>2, <1>3, <1>4, <1>5, <1>6, <1>7 DEF RfqIInv

\* A live match belongs to a record that says executing.
LEMMA LiveIsExecuting ==
    ASSUME RfqIInv, NEW r \in Rfqs, Live(r)
    PROVE  status[r] = "executing"
BY RfqsAreOps DEF RfqIInv, ControlTypeOK, RecordOK, RfqStatus, Unsent, Live

\* recover() will come to every execution that may be live.
LEMMA RestartKeeps ==
    ASSUME RfqIInv, NEW records \in SUBSET Ops, Unfinished \subseteq records,
           ProcessStarts(records), UNCHANGED auctionVars
    PROVE  RfqIInv'
<1>1. /\ UNCHANGED <<chain, expired, sends, wpc, writeQueue, latchTx, unknown, status, job,
                      recon>>
      /\ phase = "down" /\ phase' = "recovering" /\ todo' = records
  BY DEF ProcessStarts, submitterVars, auctionVars, journalVars, handlerVars
<1>2. ControlTypeOK' /\ QueueOK'
  BY <1>1, SameQueue DEF RfqIInv, ControlTypeOK, SubmitterTypeOK
<1>3. PhaseOK'
  BY <1>1 DEF RfqIInv, PhaseOK
<1>4. \A r \in Rfqs : CallOK(r)' /\ RecordOK(r)'
  BY <1>1 DEF RfqIInv, CallOK, RecordOK
<1>5. \A r \in Rfqs : Live(r)' => Live(r) /\ r \in todo'
  BY <1>1, LiveIsExecuting DEF Live, Unfinished
<1>6. LiveGuarded' /\ SectionAlone' /\ OneLiveTx'
  BY <1>1, <1>5 DEF RfqIInv, LiveGuarded, Guarded, SectionAlone, OneLiveTx, Live
<1> QED
  BY <1>2, <1>3, <1>4, <1>6 DEF RfqIInv

\* The server starts when recover() has gone over every record.
LEMMA ServeKeeps ==
    ASSUME RfqIInv, Serve
    PROVE  RfqIInv'
<1>1. /\ UNCHANGED <<chain, expired, sends, wpc, writeQueue, latchTx, unknown, status, job,
                      recon, todo>>
      /\ phase = "recovering" /\ phase' = "serving" /\ todo = {}
  BY DEF Serve, StartServing, submitterVars, auctionVars, journalVars, handlerVars
<1>2. ControlTypeOK' /\ QueueOK'
  BY <1>1, SameQueue DEF RfqIInv, ControlTypeOK, SubmitterTypeOK
<1>3. PhaseOK'
  BY <1>1 DEF RfqIInv, PhaseOK
<1>4. \A r \in Rfqs : CallOK(r)' /\ RecordOK(r)'
  BY <1>1 DEF RfqIInv, CallOK, RecordOK
<1>5. LiveGuarded' /\ SectionAlone' /\ OneLiveTx'
  BY <1>1 DEF RfqIInv, LiveGuarded, Guarded, SectionAlone, OneLiveTx, Live
<1> QED
  BY <1>2, <1>3, <1>4, <1>5 DEF RfqIInv

-----------------------------------------------------------------------------
(* The steps of the engine. *)

\* A service without records satisfies the invariant.
LEMMA RfqsInitial == Init => RfqIInv
<1> SUFFICES ASSUME Init PROVE RfqIInv
  OBVIOUS
<1> USE DEF Init, ProcessInit, SubmitterInit, AuctionInit
<1>1. ControlTypeOK
  BY DEF ControlTypeOK, SubmitterTypeOK, ChainState, CallState, RfqStatus, HandlerState
<1>2. QueueOK
  BY DEF QueueOK, Chained, InQueue, InSection
<1>3. PhaseOK
  BY DEF PhaseOK
<1>4. \A r \in Rfqs : CallOK(r) /\ RecordOK(r)
  BY RfqsAreOps DEF CallOK, RecordOK
<1>5. LiveGuarded /\ SectionAlone /\ OneLiveTx
  BY RfqsAreOps DEF LiveGuarded, SectionAlone, OneLiveTx, Live
<1> QED
  BY <1>1, <1>2, <1>3, <1>4, <1>5 DEF RfqIInv

\* The executor's own steps keep the invariant.
LEMMA SubmitterStepKeeps ==
    ASSUME RfqIInv, NEW r \in Rfqs, SubmitterStep(r), OthersClear(r)
    PROVE  RfqIInv'
<1>1. UNCHANGED <<phase, todo, status, job, recon>>
  BY DEF SubmitterStep, auctionVars, journalVars, handlerVars, processVars
<1>2. \/ Refuse(r) \/ Begin(r) \/ HandOver(r) \/ HashReturns(r) \/ SendFails(r)
      \/ ReceiptArrives(r) \/ LatchHash(r)
  BY DEF SubmitterStep, CallStep, ReceiptLost
<1> QED
  BY <1>1, <1>2, RefuseKeeps, BeginKeeps, HandOverKeeps, HashReturnsKeeps, SendFailsKeeps,
     ReceiptArrivesKeeps, LatchHashKeeps

\* The handler of an acceptance keeps the invariant.
LEMMA AcceptHandlerKeeps ==
    ASSUME RfqIInv, NEW r \in Rfqs, AcceptHandler(r)
    PROVE  RfqIInv'
<1>1. CASE HashPersisted(r)
  <2>1. HashAcknowledged(r) /\ UNCHANGED <<phase, todo, status, job, recon>>
    BY <1>1 DEF HashPersisted, handlerVars, processVars
  <2> QED
    BY <2>1, HashAcknowledgedKeeps
<1>2. CASE HashPutFails(r)
  <2>1. LatchHash(r) /\ UNCHANGED <<phase, todo, status, job, recon>>
    BY <1>2 DEF HashPutFails, handlerVars, processVars
  <2> QED
    BY <2>1, LatchHashKeeps
<1> QED
  BY <1>1, <1>2, QuietSteps, AcceptCommitKeeps, SettleKeeps, RejectedKeeps, AmbiguousKeeps
     DEF AcceptHandler

\* Every step that concerns one RFQ keeps the invariant.
LEMMA RfqStepKeeps ==
    ASSUME RfqIInv, NEW r \in Rfqs, RfqStep(r), OthersClear(r)
    PROVE  RfqIInv'
<1>1. CASE AcceptHandler(r) \/ SubmitterStep(r)
  BY <1>1, AcceptHandlerKeeps, SubmitterStepKeeps
<1>2. CASE GetRfq(r) \/ Reconciliation(r) \/ Recovery(r)
  BY <1>2, GetRfqKeeps, ReconcileMinedKeeps, ReconcileExpiredKeeps, ReconcileQuietKeeps,
     RecoverUnsentKeeps, RecoverExecutingKeeps
     DEF Reconciliation, Recovery
<1>3. CASE Propagate(r) \/ RfqSucceeds(r) \/ RfqReverts(r) \/ Clock(r)
  BY <1>3, ChainKeeps, ExpireKeeps, QuietSteps DEF Clock
<1>4. CASE OpenRfq(r) \/ QuoteHandler(r) \/ AcceptStart(r) \/ Timer(r)
  BY <1>4, QuietSteps
<1> QED
  BY <1>1, <1>2, <1>3, <1>4 DEF RfqStep

\* Nothing changes.
LEMMA StutterKeeps ==
    ASSUME RfqIInv, UNCHANGED vars
    PROVE  RfqIInv'
<1>1. /\ UNCHANGED <<submitterVars, phase, todo, recon, status, job>>
      /\ ControlTypeOK'
  BY DEF vars, auctionVars, journalVars, handlerVars, sharedVars, processVars,
         RfqIInv, ControlTypeOK, submitterVars, SubmitterTypeOK
<1> QED
  BY <1>1, QuietKeeps

\* Handlers, timers and reconciliations leave the other calls to the executor
\* alone, and their latches.
LEMMA RfqStepIsApart ==
    ASSUME SubmitterTypeOK, NEW r \in Rfqs, RfqStep(r)
    PROVE  OthersKept(r)
<1> USE RfqsAreOps, SubmitterAssumption DEF SubmitterTypeOK, OthersKept, InSection
<1>1. CASE \/ OpenRfq(r) \/ QuoteHandler(r) \/ AcceptStart(r) \/ Timer(r)
           \/ AcceptLate(r) \/ AcceptInvalid(r) \/ AcceptPutFails(r)
           \/ WindowEnds(r) \/ DeadlinePasses(r) \/ RecoverOpen(r) \/ RecoverClosed(r)
           \/ ReconcileNotMined(r) \/ ReconcileInconclusive(r)
  <2>1. UNCHANGED submitterVars
    BY <1>1 DEF OpenRfq, QuoteHandler, QuoteFunded, QuoteRejected, QuoteAdmitted, AcceptStart,
                AcceptLate, AcceptInvalid, AcceptPutFails, Timer, CloseAuction, ExpireAccept,
                WindowEnds, DeadlinePasses, RecoverOpen, RecoverClosed, ReconcileNotMined,
                ReconcileInconclusive, sharedVars
  <2> QED
    BY <2>1 DEF submitterVars
<1>2. CASE SubmitterStep(r) \/ HashPersisted(r) \/ HashPutFails(r)
  BY <1>2 DEF SubmitterStep, CallStep, Refuse, Begin, HandOver, HashReturns, SendFails,
              ReceiptArrives, ReceiptLost, LatchHash, Return, HashPersisted, HashAcknowledged,
              HashPutFails, Latched
<1>3. CASE Propagate(r) \/ RfqSucceeds(r) \/ RfqReverts(r) \/ ActionsExpire(r)
  BY <1>3 DEF Propagate, NodeAccepts, RfqSucceeds, RfqReverts, MineAs, ActionsExpire, Expire
<1>4. CASE AcceptCommit(r) \/ Settle(r) \/ Rejected(r) \/ RejectedPutFails(r) \/ Ambiguous(r)
  BY <1>4 DEF AcceptCommit, Enqueue, Settle, Terminalize, Clear, Rejected, RejectedPutFails,
              Ambiguous, Arm, UnknownAfterArm, LatchAfterArm, HandlerReturns
<1>5. CASE GetRfq(r) \/ RecoverExecuting(r)
  BY <1>5 DEF GetRfq, RecoverExecuting, BeginReconciliation, Arm, UnknownAfterArm, LatchAfterArm
<1>6. CASE ReconcileMined(r) \/ ReconcileExpiredUnused(r)
  BY <1>6 DEF ReconcileMined, ReconcileExpiredUnused, Terminalize, Clear, Drained, Returned
<1> QED
  BY <1>1, <1>2, <1>3, <1>4, <1>5, <1>6
     DEF RfqStep, AcceptHandler, Clock, Reconciliation, Recovery

-----------------------------------------------------------------------------
(* The theorems. *)

\* Alone, the engine starts with nothing sent.
LEMMA ExecutorInitial == Init => ExecutorIInv
BY RfqsInitial DEF ExecutorIInv, OthersIdle, Init, ProcessInit, SubmitterInit

\* Every step of the RFQ engine keeps the invariant.
LEMMA ExecutorStepKeeps == ExecutorIInv /\ [Next]_vars => ExecutorIInv'
<1> SUFFICES ASSUME ExecutorIInv, [Next]_vars PROVE ExecutorIInv'
  OBVIOUS
<1>0. RfqIInv /\ SubmitterTypeOK /\ OthersIdle
  BY DEF ExecutorIInv, RfqIInv, ControlTypeOK
<1>1. ASSUME NEW r \in Rfqs, RfqStep(r) PROVE ExecutorIInv'
  <2>1. RfqIInv'
    BY <1>0, <1>1, RfqStepKeeps DEF OthersIdle, OthersClear, Live
  <2>2. OthersIdle'
    BY <1>0, <1>1, RfqStepIsApart DEF OthersIdle, OthersKept
  <2> QED
    BY <2>1, <2>2 DEF ExecutorIInv
<1>2. ASSUME NEW q \in Quotes, QuoteStart(q) \/ CancelQuote(q) PROVE ExecutorIInv'
  <2>1. UNCHANGED submitterVars
    BY <1>2 DEF QuoteStart, CancelQuote, sharedVars
  <2> QED
    BY <1>0, <1>2, <2>1, QuietQuoteSteps DEF ExecutorIInv, OthersIdle, submitterVars
<1>3. CASE Crash
  BY <1>0, <1>3, CrashKeeps DEF ExecutorIInv, OthersIdle, Crash, ProcessStops, SubmitterCrash
<1>4. CASE Restart \/ Serve \/ UNCHANGED vars
  <2>1. UNCHANGED submitterVars
    BY <1>4 DEF Restart, ProcessStarts, Serve, StartServing, vars, sharedVars
  <2>2. Unfinished \in SUBSET Ops
    BY RfqsAreOps DEF Unfinished
  <2>3. RfqIInv'
    BY <1>0, <1>4, <2>2, RestartKeeps, ServeKeeps, StutterKeeps DEF Restart
  <2> QED
    BY <1>0, <2>1, <2>3 DEF ExecutorIInv, OthersIdle, submitterVars
<1> QED
  BY <1>1, <1>2, <1>3, <1>4 DEF Next, Quiescent

\* The executor's invariant holds in every state of the RFQ engine.
THEOREM ExecutorInvariant == Spec => []ExecutorIInv
BY ExecutorInitial, ExecutorStepKeeps, PTL DEF Spec

\* The executor never has two transactions in the air, through crashes, lost
\* answers and failing puts (chain.ts serializeWrite, auction.ts recover).
THEOREM ExecutorIsExclusive == Spec => []OneLiveTx
<1>1. ExecutorIInv => OneLiveTx
  BY DEF ExecutorIInv, RfqIInv
<1> QED
  BY <1>1, ExecutorInvariant, PTL

\* A pair of signed actions is never broadcast twice.
THEOREM NothingIsResubmitted == Spec => []AtMostOneBroadcast
<1>1. ExecutorIInv => AtMostOneBroadcast
  <2> SUFFICES ASSUME ExecutorIInv, NEW o \in Ops PROVE sends[o] <= 1
    BY DEF AtMostOneBroadcast
  <2>1. CASE o \in Rfqs
    BY <2>1 DEF ExecutorIInv, RfqIInv, CallOK
  <2>2. CASE o \notin Rfqs
    BY <2>2 DEF ExecutorIInv, OthersIdle
  <2> QED
    BY <2>1, <2>2
<1> QED
  BY <1>1, ExecutorInvariant, PTL

\* What the journal says of an outcome is what the chain says.
THEOREM OutcomesAreTrue == Spec => []OutcomeIsTrue
<1>1. ExecutorIInv => OutcomeIsTrue
  BY DEF ExecutorIInv, RfqIInv, RecordOK, Unsent, OutcomeIsTrue
<1> QED
  BY <1>1, ExecutorInvariant, PTL

-----------------------------------------------------------------------------
(* Terminal records. *)

\* A step of an RFQ that changes its record finds it unfinished: a handler or
\* a reconciliation that waited for an answer still owns an executing record.
LEMMA StepOfUnfinished ==
    ASSUME RfqIInv, NEW r \in Rfqs, RfqStep(r)
    PROVE  \/ UNCHANGED status
           \/ /\ status[r] \notin Terminal
              /\ \E s \in RfqStatus : status' = [status EXCEPT ![r] = s]
<1>0. /\ job[r] = "executing" => status[r] = "executing"
      /\ recon[r] # "none" => status[r] = "executing"
  BY DEF RfqIInv, RecordOK
<1> USE DEF Terminal, RfqStatus
<1>1. CASE OpenRfq(r) \/ Timer(r)
  BY <1>1 DEF OpenRfq, Timer, CloseAuction, CloseEffect, ExpireAccept, ExpireEffect
<1>2. CASE QuoteHandler(r) \/ AcceptStart(r)
  BY <1>2 DEF QuoteHandler, QuoteFunded, QuoteRejected, QuoteAdmitted, AcceptStart, journalVars
<1>3. CASE AcceptHandler(r)
  <2>1. CASE AcceptLate(r) \/ AcceptInvalid(r) \/ AcceptCommit(r) \/ AcceptPutFails(r)
    BY <2>1 DEF AcceptLate, AcceptInvalid, AcceptCommit, AcceptPutFails, ExpireEffect, journalVars
  <2>2. CASE HashPersisted(r) \/ HashPutFails(r) \/ RejectedPutFails(r) \/ Ambiguous(r)
    BY <2>2 DEF HashPersisted, HashPutFails, RejectedPutFails, Ambiguous, journalVars
  <2>3. CASE Settle(r) \/ Rejected(r)
    BY <2>3, <1>0 DEF Settle, Terminalize, MinedAs, Rejected, ExpireEffect
  <2> QED
    BY <1>3, <2>1, <2>2, <2>3 DEF AcceptHandler
<1>4. CASE Reconciliation(r) \/ GetRfq(r)
  BY <1>4, <1>0 DEF Reconciliation, ReconcileMined, ReconcileNotMined, ReconcileExpiredUnused,
                    ReconcileInconclusive, GetRfq, Terminalize, MinedAs, journalVars
<1>5. CASE Recovery(r)
  BY <1>5 DEF Recovery, RecoverOpen, RecoverClosed, RecoverExecuting, CloseEffect, ExpireEffect,
              journalVars
<1>6. CASE \/ SubmitterStep(r) \/ Propagate(r) \/ RfqSucceeds(r) \/ RfqReverts(r) \/ Clock(r)
  BY <1>6 DEF SubmitterStep, Propagate, RfqSucceeds, RfqReverts, Clock, WindowEnds,
              DeadlinePasses, ActionsExpire, auctionVars, journalVars
<1> QED
  BY <1>1, <1>2, <1>3, <1>4, <1>5, <1>6 DEF RfqStep

\* No late timer, handler or reconciliation overwrites a terminal record.
THEOREM OutcomesAreFinal == Spec => TerminalIsFinal
<1>1. RfqIInv /\ [Next]_vars
        => [\A r \in Rfqs : status[r] \in Terminal => status'[r] = status[r]]_vars
  <2> SUFFICES ASSUME RfqIInv, Next, NEW x \in Rfqs, status[x] \in Terminal
               PROVE  status'[x] = status[x]
    OBVIOUS
  <2>1. status \in [Rfqs -> RfqStatus]
    BY DEF RfqIInv, ControlTypeOK
  <2>2. CASE \E r \in Rfqs : RfqStep(r)
    <3>1. PICK r \in Rfqs : RfqStep(r)
      BY <2>2
    <3> QED
      BY <2>1, <3>1, StepOfUnfinished
  <2>3. CASE \E q \in Quotes : QuoteStart(q) \/ CancelQuote(q)
    BY <2>3 DEF QuoteStart, CancelQuote, journalVars
  <2>4. CASE Crash \/ Restart \/ Serve \/ Quiescent
    BY <2>4 DEF Crash, AuctionForgets, Restart, Serve, Quiescent, vars, auctionVars, journalVars
  <2> QED
    BY <2>2, <2>3, <2>4 DEF Next
<1>2. ExecutorIInv => RfqIInv
  BY DEF ExecutorIInv
<1> QED
  BY <1>1, <1>2, ExecutorInvariant, PTL DEF Spec, TerminalIsFinal

-----------------------------------------------------------------------------
(* Books, reservations and the makers' cash. *)

\* The quotes of r that hold their maker's cash.
Share(r) ==
    IF status[r] = "open" THEN QuotesOn(r)
    ELSE IF status[r] \in {"closed", "executing"} THEN Winner(r) ELSE {}

\* The states of an auction whose winner was locked in.
Decided == {"closed", "executing", "executed", "failed"}

\* The book of r and what was locked in from it.
BookOK(r) ==
    /\ \A q \in QuotesOn(r) : RfqOf[q] = r
    /\ status[r] = "none" => book[r] = <<>>
    /\ status[r] \in {"none", "open"} => best[r] = NoQuote
    /\ best[r] \in QuotesOn(r) \cup {NoQuote}
    /\ status[r] \in Decided => best[r] = SelectBestQuote(book[r]) /\ best[r] # NoQuote

\* A quote of r is being validated under the account's lock.
Quoting(r) == job[r] \in {"quoting", "funded"}

\* A quote under validation is for an auction that its lock keeps open.
OfferOK(r) ==
    Quoting(r) => /\ offer[r] \in Quotes /\ RfqOf[offer[r]] = r
                  /\ status[r] = "open"
                  /\ lockedBy[AccountOf[offer[r]]] = r

\* A record that recover() has not reached has no timer and no reconciliation.
DormantOK(r) ==
    (phase = "down" \/ r \in todo) => ~closeTimer[r] /\ ~acceptTimer[r] /\ recon[r] = "none"

\* The reservations, quote by quote, recovery included.
ReservedOK(q) ==
    q \in reserved <=> Up /\ RfqOf[q] \notin todo /\ q \in Share(RfqOf[q])

\* The books, the reservations and what AuctionEngine_proofs shows.
BookIInv ==
    /\ RfqIInv
    /\ TypeOK
    /\ \A r \in Rfqs : BookOK(r) /\ OfferOK(r) /\ DormantOK(r)
    /\ \A q \in Quotes : ReservedOK(q)

-----------------------------------------------------------------------------
(* The operators on books. *)

\* A quote at the end of a book.
LEMMA AppendTyped ==
    ASSUME NEW b \in Seq(Quotes), NEW q \in Quotes
    PROVE  Append(b, q) \in Seq(Quotes) /\ ToSet(Append(b, q)) = ToSet(b) \cup {q}
<1> DEFINE c == Append(b, q)
<1>1. /\ c \in Seq(Quotes) /\ Len(b) \in Nat
      /\ DOMAIN b = 1 .. Len(b) /\ DOMAIN c = 1 .. Len(b) + 1
      /\ \A i \in 1 .. Len(b) : c[i] = b[i]
      /\ c[Len(b) + 1] = q
  OBVIOUS
<1> HIDE DEF c
<1>2. ASSUME NEW x PROVE x \in ToSet(c) <=> x \in ToSet(b) \/ x = q
  <2>1. x \in ToSet(c) <=> \E i \in 1 .. Len(b) + 1 : x = c[i]
    BY <1>1 DEF ToSet
  <2>2. x \in ToSet(b) <=> \E i \in 1 .. Len(b) : x = b[i]
    BY <1>1 DEF ToSet
  <2>3. 1 .. Len(b) + 1 = 1 .. Len(b) \cup {Len(b) + 1}
    BY <1>1
  <2> QED
    BY <1>1, <2>1, <2>2, <2>3
<1>3. ToSet(c) = ToSet(b) \cup {q}
  BY <1>2
<1> QED
  BY <1>1, <1>3 DEF c

\* The recursion of Without, on the first n quotes of b.
IsKept(f, b, S, n) ==
    f = [i \in 0 .. n |-> IF i = 0 THEN <<>>
                          ELSE IF b[i] \in S THEN f[i - 1] ELSE Append(f[i - 1], b[i])]

\* Its value there: a book of the quotes that S leaves.
KeptWell(f, b, S, i) == f[i] \in Seq(Quotes) /\ ToSet(f[i]) = {b[j] : j \in 1 .. i} \ S

KeptUpTo(b, S, n) == \E f : IsKept(f, b, S, n) /\ \A i \in 0 .. n : KeptWell(f, b, S, i)

\* One more quote.
LEMMA KeptGrows ==
    ASSUME NEW b \in Seq(Quotes), NEW S, NEW n \in Nat, n + 1 \in 1 .. Len(b),
           KeptUpTo(b, S, n)
    PROVE  KeptUpTo(b, S, n + 1)
<1>1. PICK f : IsKept(f, b, S, n) /\ \A i \in 0 .. n : KeptWell(f, b, S, i)
  BY DEF KeptUpTo
<1> DEFINE q == b[n + 1]
           last == IF q \in S THEN f[n] ELSE Append(f[n], q)
           g == [i \in 0 .. n + 1 |-> IF i \in 0 .. n THEN f[i] ELSE last]
<1>2. /\ \A i \in 0 .. n : g[i] = f[i]
      /\ g[n + 1] = last
  OBVIOUS
<1>0. g = [i \in 0 .. n + 1 |-> g[i]]
  OBVIOUS
<1>3. \A i \in 0 .. n : f[i] = IF i = 0 THEN <<>>
                              ELSE IF b[i] \in S THEN f[i - 1] ELSE Append(f[i - 1], b[i])
  BY <1>1 DEF IsKept
<1>4. q \in Quotes
  OBVIOUS
<1> HIDE DEF g
<1>5. \A i \in 0 .. n + 1 : g[i] = IF i = 0 THEN <<>>
                                  ELSE IF b[i] \in S THEN g[i - 1] ELSE Append(g[i - 1], b[i])
  <2> TAKE i \in 0 .. n + 1
  <2>1. CASE i \in 0 .. n
    <3>1. i # 0 => i - 1 \in 0 .. n
      BY <2>1
    <3>2. g[i] = f[i] /\ (i # 0 => g[i - 1] = f[i - 1])
      BY <1>2, <2>1, <3>1
    <3> QED BY <1>3, <2>1, <3>2
  <2>2. CASE i = n + 1
    <3>1. i - 1 = n /\ n \in 0 .. n /\ i # 0
      BY <2>2
    <3>2. g[i] = last /\ b[i] = q
      BY <1>2, <2>2
    <3>3. g[i - 1] = f[n]
      BY <1>2, <3>1
    <3> HIDE DEF q
    <3> QED BY <3>1, <3>2, <3>3
  <2> QED BY <2>1, <2>2
<1>6. IsKept(g, b, S, n + 1)
  BY <1>0, <1>5 DEF IsKept
<1>7. KeptWell(g, b, S, n + 1)
  <2>1. KeptWell(f, b, S, n)
    BY <1>1
  <2>2. {b[j] : j \in 1 .. n + 1} = {b[j] : j \in 1 .. n} \cup {q}
    <3>1. 1 .. n + 1 = 1 .. n \cup {n + 1}
      OBVIOUS
    <3> QED BY <3>1
  <2>3. ToSet(Append(f[n], q)) = ToSet(f[n]) \cup {q} /\ Append(f[n], q) \in Seq(Quotes)
    BY <1>4, <2>1, AppendTyped DEF KeptWell
  <2> HIDE DEF q
  <2>4. last \in Seq(Quotes)
    BY <2>1, <2>3 DEF KeptWell
  <2>5. ToSet(last) = {b[j] : j \in 1 .. n + 1} \ S
    BY <2>1, <2>2, <2>3 DEF KeptWell
  <2> QED
    BY <1>2, <2>4, <2>5 DEF KeptWell
<1>8. \A i \in 0 .. n + 1 : KeptWell(g, b, S, i)
  <2> TAKE i \in 0 .. n + 1
  <2>1. CASE i \in 0 .. n
    BY <1>1, <1>2, <2>1 DEF KeptWell
  <2>2. CASE i = n + 1
    BY <1>7, <2>2
  <2> QED BY <2>1, <2>2
<1> QED
  BY <1>6, <1>8 DEF KeptUpTo

\* The recursion has a value on the whole book.
LEMMA KeptExists ==
    ASSUME NEW b \in Seq(Quotes), NEW S
    PROVE  KeptUpTo(b, S, Len(b))
<1> DEFINE G == {n \in Nat : n <= Len(b) => KeptUpTo(b, S, n)}
<1>1. 0 \in G
  <2> DEFINE f == [i \in 0 .. 0 |-> <<>>]
  <2>1. IsKept(f, b, S, 0)
    BY DEF IsKept
  <2>2. \A i \in 0 .. 0 : KeptWell(f, b, S, i)
    BY DEF ToSet, KeptWell
  <2> QED
    BY <2>1, <2>2 DEF KeptUpTo
<1>2. \A n \in Nat : n \in G => n + 1 \in G
  BY KeptGrows
<1>3. Nat \subseteq G
  <2> HIDE DEF G
  <2> QED BY <1>1, <1>2, NatSetInduction
<1> QED
  BY <1>3

\* Two values of the recursion agree.
LEMMA KeptUnique ==
    ASSUME NEW b \in Seq(Quotes), NEW S, NEW f, IsKept(f, b, S, Len(b)),
           NEW g, IsKept(g, b, S, Len(b))
    PROVE  f[Len(b)] = g[Len(b)]
<1> DEFINE G == {n \in Nat : n <= Len(b) => f[n] = g[n]}
<1>1. /\ \A i \in 0 .. Len(b) :
             f[i] = IF i = 0 THEN <<>>
                    ELSE IF b[i] \in S THEN f[i - 1] ELSE Append(f[i - 1], b[i])
      /\ \A i \in 0 .. Len(b) :
             g[i] = IF i = 0 THEN <<>>
                    ELSE IF b[i] \in S THEN g[i - 1] ELSE Append(g[i - 1], b[i])
  BY DEF IsKept
<1>2. 0 \in G
  BY <1>1
<1>3. \A n \in Nat : n \in G => n + 1 \in G
  <2> TAKE n \in Nat
  <2>1. n + 1 \in Nat /\ (n + 1) - 1 = n /\ n + 1 # 0
    OBVIOUS
  <2> SUFFICES ASSUME n \in G, n + 1 <= Len(b) PROVE f[n + 1] = g[n + 1]
    BY <2>1
  <2>2. f[n] = g[n] /\ n + 1 \in 0 .. Len(b)
    OBVIOUS
  <2> QED
    BY <1>1, <2>1, <2>2
<1>4. Nat \subseteq G
  <2> HIDE DEF G
  <2> QED BY <1>2, <1>3, NatSetInduction
<1> QED
  BY <1>4

\* A book without some quotes is a book of the others.
LEMMA WithoutTyped ==
    ASSUME NEW b \in Seq(Quotes), NEW S
    PROVE  Without(b, S) \in Seq(Quotes) /\ ToSet(Without(b, S)) = ToSet(b) \ S
<1> DEFINE kept == CHOOSE f : IsKept(f, b, S, Len(b))
<1>1. Without(b, S) = kept[Len(b)]
  BY DEF Without, IsKept
<1>2. PICK f : IsKept(f, b, S, Len(b)) /\ \A i \in 0 .. Len(b) : KeptWell(f, b, S, i)
  BY KeptExists DEF KeptUpTo
<1>3. IsKept(kept, b, S, Len(b))
  BY <1>2
<1> HIDE DEF kept
<1>4. KeptWell(f, b, S, Len(b)) /\ kept[Len(b)] = f[Len(b)]
  BY <1>2, <1>3, KeptUnique
<1>5. ToSet(b) = {b[j] : j \in 1 .. Len(b)}
  BY DEF ToSet
<1> QED
  BY <1>1, <1>4, <1>5 DEF KeptWell

\* The best of the first n quotes: selectBestQuote's order.
TopOf(b, i, n) == \A j \in 1 .. n : \/ Premium[b[j]] < Premium[b[i]]
                                    \/ Premium[b[j]] = Premium[b[i]] /\ j >= i

HasTop(b, n) == \E i \in 1 .. n : TopOf(b, i, n)

\* One more quote is the new best, or the old best stays.
LEMMA TopGrows ==
    ASSUME NEW b \in Seq(Quotes), NEW n \in Nat, n + 1 \in 1 .. Len(b), n = 0 \/ HasTop(b, n)
    PROVE  HasTop(b, n + 1)
<1>0. \A i \in 1 .. Len(b) : Premium[b[i]] \in Nat
  BY AuctionAssumption
<1>1. CASE n = 0
  <2>1. TopOf(b, 1, 1)
    BY DEF TopOf
  <2> QED BY <1>1, <2>1 DEF HasTop
<1>2. CASE n # 0
  <2>1. PICK i \in 1 .. n : TopOf(b, i, n)
    BY <1>2 DEF HasTop
  <2>2. i \in 1 .. Len(b) /\ i \in 1 .. n + 1 /\ n + 1 \in 1 .. n + 1
    OBVIOUS
  <2>3. CASE Premium[b[n + 1]] <= Premium[b[i]]
    <3>1. TopOf(b, i, n + 1)
      BY <1>0, <2>1, <2>2, <2>3 DEF TopOf
    <3> QED BY <2>2, <3>1 DEF HasTop
  <2>4. CASE Premium[b[n + 1]] > Premium[b[i]]
    <3>1. TopOf(b, n + 1, n + 1)
      BY <1>0, <2>1, <2>2, <2>4 DEF TopOf
    <3> QED BY <2>2, <3>1 DEF HasTop
  <2> QED
    BY <1>0, <2>2, <2>3, <2>4
<1> QED
  BY <1>1, <1>2

\* selectBestQuote finds a quote of every book that is not empty.
LEMMA BestIsOnBook ==
    ASSUME NEW b \in Seq(Quotes)
    PROVE  /\ b = <<>> => SelectBestQuote(b) = NoQuote
           /\ b # <<>> => SelectBestQuote(b) \in ToSet(b)
<1>1. ASSUME b # <<>> PROVE SelectBestQuote(b) \in ToSet(b)
  <2> DEFINE G == {n \in Nat : n + 1 <= Len(b) => HasTop(b, n + 1)}
  <2>1. 0 \in G
    BY TopGrows
  <2>2. \A n \in Nat : n \in G => n + 1 \in G
    <3> TAKE n \in Nat
    <3> SUFFICES ASSUME n \in G, (n + 1) + 1 <= Len(b) PROVE HasTop(b, (n + 1) + 1)
      OBVIOUS
    <3>1. HasTop(b, n + 1) /\ n + 1 \in Nat /\ (n + 1) + 1 \in 1 .. Len(b)
      OBVIOUS
    <3> QED BY <3>1, TopGrows
  <2>3. Nat \subseteq G
    <3> HIDE DEF G
    <3> QED BY <2>1, <2>2, NatSetInduction
  <2>4. Len(b) \in Nat /\ Len(b) > 0 /\ DOMAIN b = 1 .. Len(b)
    BY <1>1
  <2>5. HasTop(b, Len(b))
    <3>1. Len(b) - 1 \in G /\ (Len(b) - 1) + 1 = Len(b)
      BY <2>3, <2>4
    <3> QED BY <2>4, <3>1
  <2>6. \E i \in DOMAIN b : \A j \in DOMAIN b : \/ Premium[b[j]] < Premium[b[i]]
                                                \/ Premium[b[j]] = Premium[b[i]] /\ j >= i
    BY <2>4, <2>5 DEF HasTop, TopOf
  <2>7. \E i \in DOMAIN b : SelectBestQuote(b) = b[i]
    BY <1>1, <2>6 DEF SelectBestQuote
  <2> QED
    BY <2>7 DEF ToSet
<1> QED
  BY <1>1 DEF SelectBestQuote

-----------------------------------------------------------------------------
(* Types. *)

\* What TypeOK says beyond the executor's invariant.
DataTypeOK ==
    /\ lockedBy \in [Accounts -> Ops \cup {Nobody}]
    /\ cash \in [Accounts -> Int]
    /\ crashes \in 0 .. MaxCrashes
    /\ best \in [Rfqs -> Quotes \cup {NoQuote}]
    /\ book \in [Rfqs -> Seq(Quotes)]
    /\ hasHash \in [Rfqs -> BOOLEAN]
    /\ durableHash \in [Rfqs -> BOOLEAN]
    /\ windowOver \in [Rfqs -> BOOLEAN]
    /\ late \in [Rfqs -> BOOLEAN]
    /\ reserved \subseteq Quotes
    /\ closeTimer \in [Rfqs -> BOOLEAN]
    /\ acceptTimer \in [Rfqs -> BOOLEAN]
    /\ offer \in [Rfqs -> Quotes \cup {NoQuote}]
    /\ counted \in [Rfqs -> SUBSET Quotes]
    /\ putFailures \in 0 .. MaxPutFailures

\* The full type invariant, in the two parts.
LEMMA TypesSplit == ControlTypeOK => (TypeOK <=> DataTypeOK)
BY DEF ControlTypeOK, DataTypeOK, TypeOK, ProcessTypeOK, AuctionTypeOK

\* What the helpers yield.
LEMMA HelperTypes ==
    ASSUME DataTypeOK, NEW r \in Rfqs
    PROVE  /\ QuotesOn(r) \subseteq Quotes
           /\ Winner(r) \subseteq Quotes
           /\ SelectBestQuote(book[r]) \in Quotes \cup {NoQuote}
           /\ book[r] \in Seq(Quotes)
           /\ \A q \in Quotes : Prior(q) \subseteq Quotes
<1>1. book \in [Rfqs -> Seq(Quotes)] /\ best[r] \in Quotes \cup {NoQuote}
  BY DEF DataTypeOK
<1>2. \A x \in Rfqs : QuotesOn(x) \subseteq Quotes
  BY <1>1 DEF QuotesOn, ToSet
<1>3. SelectBestQuote(book[r]) \in Quotes \cup {NoQuote}
  BY <1>1, <1>2, BestIsOnBook DEF QuotesOn
<1> QED
  BY <1>1, <1>2, <1>3, AuctionAssumption DEF Winner, Prior

\* Locks and clocks keep their types.
LEMMA LockTypes ==
    ASSUME DataTypeOK, NEW r \in Rfqs
    PROVE  /\ \A A : LockAccounts(A, r) => lockedBy' \in [Accounts -> Ops \cup {Nobody}]
           /\ UnlockAccounts(r) => lockedBy' \in [Accounts -> Ops \cup {Nobody}]
BY RfqsAreOps DEF DataTypeOK, LockAccounts, UnlockAccounts

\* A quote's handler keeps the types.
LEMMA QuoteTypes ==
    ASSUME DataTypeOK, NEW r \in Rfqs, QuoteHandler(r), offer[r] \in Quotes
    PROVE  DataTypeOK'
<1>0. /\ Prior(offer[r]) \subseteq Quotes /\ book[r] \in Seq(Quotes)
      /\ LeaveHandler(r) => lockedBy' \in [Accounts -> Ops \cup {Nobody}]
  BY HelperTypes, LockTypes DEF LeaveHandler
<1>1. CASE QuoteFunded(r) \/ QuoteRejected(r)
  BY <1>0, <1>1 DEF QuoteFunded, QuoteRejected, LeaveHandler, DataTypeOK, journalVars, timeVars,
        timerVars, processVars, sharedVars, fundsVars
<1>2. CASE QuoteAdmitted(r)
  <2>1. Append(Without(book[r], Prior(offer[r])), offer[r]) \in Seq(Quotes)
    BY <1>0, WithoutTyped, AppendTyped
  <2>2. /\ book' = [book EXCEPT ![r] = Append(Without(book[r], Prior(offer[r])), offer[r])]
        /\ reserved' = (reserved \ Prior(offer[r])) \cup {offer[r]}
        /\ offer' = [offer EXCEPT ![r] = NoQuote]
        /\ counted' = [counted EXCEPT ![r] = {}]
        /\ lockedBy' \in [Accounts -> Ops \cup {Nobody}]
        /\ UNCHANGED <<cash, crashes, best, hasHash, durableHash, windowOver, late, closeTimer,
                       acceptTimer, putFailures>>
    BY <1>0, <1>2 DEF QuoteAdmitted, LeaveHandler, timeVars, timerVars, processVars
  <2> QED
    BY <2>1, <2>2 DEF DataTypeOK
<1> QED
  BY <1>1, <1>2 DEF QuoteHandler

\* A close, an expiry and the end of an execution keep the types.
LEMMA EffectTypes ==
    ASSUME DataTypeOK, NEW r \in Rfqs
    PROVE  /\ CloseEffect(r) => /\ best' \in [Rfqs -> Quotes \cup {NoQuote}]
                                /\ reserved' \subseteq Quotes
                                /\ closeTimer' \in [Rfqs -> BOOLEAN]
                                /\ acceptTimer' \in [Rfqs -> BOOLEAN]
                                /\ UNCHANGED <<book, hasHash, durableHash>>
           /\ ExpireEffect(r) => /\ reserved' \subseteq Quotes
                                 /\ acceptTimer' \in [Rfqs -> BOOLEAN]
                                 /\ UNCHANGED <<best, book, closeTimer>>
           /\ LeaveHandler(r) => /\ offer' \in [Rfqs -> Quotes \cup {NoQuote}]
                                 /\ counted' \in [Rfqs -> SUBSET Quotes]
                                 /\ lockedBy' \in [Accounts -> Ops \cup {Nobody}]
<1>1. ASSUME CloseEffect(r)
      PROVE  /\ best' \in [Rfqs -> Quotes \cup {NoQuote}]
             /\ reserved' \subseteq Quotes
             /\ closeTimer' \in [Rfqs -> BOOLEAN]
             /\ acceptTimer' \in [Rfqs -> BOOLEAN]
             /\ UNCHANGED <<book, hasHash, durableHash>>
  BY <1>1, HelperTypes DEF CloseEffect, DataTypeOK
<1>2. ExpireEffect(r) => /\ reserved' \subseteq Quotes
                         /\ acceptTimer' \in [Rfqs -> BOOLEAN]
                         /\ UNCHANGED <<best, book, closeTimer>>
  BY DEF ExpireEffect, DataTypeOK
<1>3. LeaveHandler(r) => /\ offer' \in [Rfqs -> Quotes \cup {NoQuote}]
                         /\ counted' \in [Rfqs -> SUBSET Quotes]
                         /\ lockedBy' \in [Accounts -> Ops \cup {Nobody}]
  BY LockTypes DEF LeaveHandler, DataTypeOK
<1> QED
  BY <1>1, <1>2, <1>3

\* The bound on failing puts.
LEMMA PutTypes == DataTypeOK /\ PutFails => putFailures' \in 0 .. MaxPutFailures
BY AuctionAssumption DEF DataTypeOK, PutFails

\* The acceptance keeps the types.
LEMMA AcceptTypes ==
    ASSUME DataTypeOK, NEW r \in Rfqs, AcceptStart(r) \/ AcceptHandler(r)
    PROVE  DataTypeOK'
<1> USE DEF DataTypeOK, journalVars, timeVars, timerVars, processVars, fundsVars
<1>1. CASE AcceptStart(r)
  BY <1>1, LockTypes DEF AcceptStart
<1>2. CASE AcceptLate(r) \/ AcceptInvalid(r) \/ AcceptPutFails(r)
  BY <1>2, EffectTypes, PutTypes DEF AcceptLate, AcceptInvalid, AcceptPutFails
<1>3. CASE AcceptCommit(r) \/ HashPersisted(r) \/ HashPutFails(r)
  BY <1>3, PutTypes DEF AcceptCommit, HashPersisted, HashPutFails, handlerVars
<1>4. CASE Settle(r) \/ RejectedPutFails(r)
  BY <1>4, EffectTypes, PutTypes DEF Settle, Terminalize, HandlerReturns, RejectedPutFails
<1>5. CASE Rejected(r)
  BY <1>5, EffectTypes DEF Rejected, HandlerReturns
<1>6. CASE Ambiguous(r)
  BY <1>6, EffectTypes, PutTypes DEF Ambiguous, HandlerReturns
<1> QED
  BY <1>1, <1>2, <1>3, <1>4, <1>5, <1>6 DEF AcceptHandler

\* Timers, reconciliation and recovery keep the types.
LEMMA BackgroundTypes ==
    ASSUME DataTypeOK, NEW r \in Rfqs,
           Timer(r) \/ GetRfq(r) \/ Reconciliation(r) \/ Recovery(r)
    PROVE  DataTypeOK'
<1> USE DEF DataTypeOK, journalVars, timeVars, timerVars, handlerVars, processVars, fundsVars,
            sharedVars
<1>1. CASE Timer(r)
  BY <1>1, EffectTypes DEF Timer, CloseAuction, ExpireAccept
<1>2. CASE GetRfq(r) \/ ReconcileNotMined(r) \/ ReconcileInconclusive(r)
  BY <1>2 DEF GetRfq, ReconcileNotMined, ReconcileInconclusive
<1>3. CASE ReconcileMined(r) \/ ReconcileExpiredUnused(r)
  BY <1>3 DEF ReconcileMined, ReconcileExpiredUnused, Terminalize
<1>4. CASE RecoverOpen(r)
  BY <1>4, EffectTypes, HelperTypes DEF RecoverOpen, RecoverTurn, TakeTurn
<1>5. CASE RecoverClosed(r) \/ RecoverExecuting(r)
  BY <1>5, EffectTypes, HelperTypes DEF RecoverClosed, RecoverExecuting, RecoverTurn, TakeTurn
<1> QED
  BY <1>1, <1>2, <1>3, <1>4, <1>5 DEF Reconciliation, Recovery

\* Clocks, the chain and the executor keep the types.
LEMMA OutsideTypes ==
    ASSUME DataTypeOK, NEW r \in Rfqs,
           \/ OpenRfq(r) \/ SubmitterStep(r) \/ Propagate(r) \/ RfqSucceeds(r)
           \/ RfqReverts(r) \/ Clock(r)
    PROVE  DataTypeOK'
<1> USE DEF DataTypeOK, auctionVars, journalVars, timeVars, timerVars, handlerVars, processVars,
            fundsVars, sharedVars
<1>1. CASE OpenRfq(r) \/ Clock(r)
  BY <1>1 DEF OpenRfq, Clock, WindowEnds, DeadlinePasses, ActionsExpire
<1>2. CASE SubmitterStep(r) \/ Propagate(r) \/ RfqReverts(r)
  BY <1>2 DEF SubmitterStep, Propagate, RfqReverts
<1>3. CASE RfqSucceeds(r)
  BY <1>3, AuctionAssumption, HelperTypes DEF RfqSucceeds, Debit
<1> QED
  BY <1>1, <1>2, <1>3

\* A quote comes in or goes.
LEMMA QuoteCallTypes ==
    ASSUME DataTypeOK, NEW q \in Quotes, QuoteStart(q) \/ CancelQuote(q)
    PROVE  DataTypeOK'
<1> USE DEF DataTypeOK, journalVars, timeVars, timerVars, handlerVars, processVars, sharedVars,
            fundsVars
<1>0. RfqOf[q] \in Rfqs
  BY AuctionAssumption
<1>1. CASE QuoteStart(q)
  <2>1. ReservedFor(AccountOf[q], Prior(q)) \subseteq Quotes
    BY DEF ReservedFor
  <2> QED
    BY <1>0, <1>1, <2>1, LockTypes DEF QuoteStart
<1>2. CASE CancelQuote(q)
  <2>1. Without(book[RfqOf[q]], {q}) \in Seq(Quotes)
    BY <1>0, WithoutTyped
  <2> QED
    BY <1>0, <1>2, <2>1 DEF CancelQuote
<1> QED
  BY <1>1, <1>2

-----------------------------------------------------------------------------
(* A step concerns one RFQ. *)

\* Nothing but what belongs to r changes.
OnlyAt(r) ==
    /\ phase' = phase
    /\ todo' = todo \/ todo' = todo \ {r}
    /\ \A x \in Rfqs \ {r} :
           /\ status'[x] = status[x] /\ best'[x] = best[x] /\ book'[x] = book[x]
           /\ job'[x] = job[x] /\ offer'[x] = offer[x] /\ counted'[x] = counted[x]
           /\ closeTimer'[x] = closeTimer[x] /\ acceptTimer'[x] = acceptTimer[x]
           /\ recon'[x] = recon[x]
    /\ \A q \in Quotes : RfqOf[q] # r => (q \in reserved' <=> q \in reserved)
    /\ \A a \in Accounts : lockedBy[a] \notin {r, Nobody} => lockedBy'[a] = lockedBy[a]

\* The types of what the invariant speaks of.
LEMMA BookTypes ==
    ASSUME BookIInv
    PROVE  /\ ControlTypeOK /\ DataTypeOK
           /\ status \in [Rfqs -> RfqStatus] /\ best \in [Rfqs -> Quotes \cup {NoQuote}]
           /\ book \in [Rfqs -> Seq(Quotes)] /\ reserved \subseteq Quotes
           /\ job \in [Rfqs -> HandlerState] /\ offer \in [Rfqs -> Quotes \cup {NoQuote}]
           /\ closeTimer \in [Rfqs -> BOOLEAN] /\ acceptTimer \in [Rfqs -> BOOLEAN]
           /\ recon \in [Rfqs -> {"none", "receipt", "nonces"}]
           /\ lockedBy \in [Accounts -> Ops \cup {Nobody}]
           /\ counted \in [Rfqs -> SUBSET Quotes]
BY TypesSplit DEF BookIInv, RfqIInv, ControlTypeOK, DataTypeOK

\* The quotes of an RFQ's record answer that RFQ.
LEMMA BookQuotes ==
    ASSUME BookIInv, NEW r \in Rfqs
    PROVE  /\ \A q \in QuotesOn(r) : q \in Quotes /\ RfqOf[q] = r
           /\ \A q \in Winner(r) : q \in QuotesOn(r) /\ q \in Quotes /\ RfqOf[q] = r
           /\ Quoting(r) => /\ offer[r] \in Quotes /\ RfqOf[offer[r]] = r
                            /\ \A q \in Prior(offer[r]) : q \in QuotesOn(r)
<1>1. BookOK(r) /\ OfferOK(r) /\ QuotesOn(r) \subseteq Quotes
  BY BookTypes, HelperTypes DEF BookIInv
<1> QED
  BY <1>1 DEF BookOK, OfferOK, Winner, Prior

\* The rest of the invariant does not see a step that concerns r.
LEMMA LocalKeeps ==
    ASSUME BookIInv, RfqIInv', TypeOK', NEW r \in Rfqs, OnlyAt(r),
           BookOK(r)', OfferOK(r)', DormantOK(r)',
           \A q \in Quotes : RfqOf[q] = r => ReservedOK(q)'
    PROVE  BookIInv'
<1>1. ASSUME NEW x \in Rfqs, x # r PROVE BookOK(x)' /\ OfferOK(x)' /\ DormantOK(x)'
  <2>1. BookOK(x) /\ OfferOK(x) /\ DormantOK(x)
    BY DEF BookIInv
  <2>2. BookOK(x)' /\ DormantOK(x)'
    BY <1>1, <2>1 DEF OnlyAt, BookOK, DormantOK, QuotesOn
  <2>3. OfferOK(x)'
    BY <1>1, <2>1, ProcessAssumption, AuctionAssumption, RfqsAreOps DEF OnlyAt, OfferOK, Quoting
  <2> QED
    BY <2>2, <2>3
<1>2. ASSUME NEW q \in Quotes, RfqOf[q] # r PROVE ReservedOK(q)'
  <2>1. RfqOf[q] \in Rfqs /\ ReservedOK(q)
    BY AuctionAssumption DEF BookIInv
  <2>2. Share(RfqOf[q])' = Share(RfqOf[q])
    BY <1>2, <2>1 DEF OnlyAt, Share, QuotesOn, Winner
  <2> QED
    BY <1>2, <2>1, <2>2 DEF OnlyAt, ReservedOK, Up
<1> QED
  BY <1>1, <1>2 DEF BookIInv

\* A handler, a timer or a reconciliation touches its own RFQ only.
LEMMA StepIsLocal ==
    ASSUME BookIInv, NEW r \in Rfqs, RfqStep(r)
    PROVE  OnlyAt(r)
<1>0. /\ \A q \in QuotesOn(r) : RfqOf[q] = r
      /\ \A q \in Winner(r) : RfqOf[q] = r
      /\ Quoting(r) => RfqOf[offer[r]] = r /\ \A q \in Prior(offer[r]) : RfqOf[q] = r
  BY BookQuotes
<1>1. CloseEffect(r) =>
          /\ \A q \in Quotes : RfqOf[q] # r => (q \in reserved' <=> q \in reserved)
          /\ \A x \in Rfqs \ {r} : /\ status'[x] = status[x] /\ best'[x] = best[x]
                                   /\ closeTimer'[x] = closeTimer[x]
                                   /\ acceptTimer'[x] = acceptTimer[x]
          /\ book' = book
  <2>1. /\ SelectBestQuote(book[r]) \in QuotesOn(r) \cup {NoQuote}
        /\ NoQuote \notin Quotes
    BY BookTypes, BestIsOnBook, AuctionAssumption DEF QuotesOn
  <2> QED
    BY <1>0, <2>1, BookTypes DEF CloseEffect
<1>2. ExpireEffect(r) =>
          /\ \A q \in Quotes : RfqOf[q] # r => (q \in reserved' <=> q \in reserved)
          /\ \A x \in Rfqs \ {r} : /\ status'[x] = status[x]
                                   /\ acceptTimer'[x] = acceptTimer[x]
          /\ UNCHANGED <<best, book, closeTimer>>
  BY <1>0, BookTypes DEF ExpireEffect
<1>3. LeaveHandler(r) =>
          /\ \A x \in Rfqs \ {r} : /\ job'[x] = job[x] /\ offer'[x] = offer[x]
                                   /\ counted'[x] = counted[x]
          /\ \A a \in Accounts : lockedBy[a] \notin {r, Nobody} => lockedBy'[a] = lockedBy[a]
  BY BookTypes DEF LeaveHandler, UnlockAccounts
<1> USE BookTypes DEF OnlyAt, auctionVars, journalVars, timeVars, timerVars, handlerVars,
                      processVars, fundsVars, sharedVars
<1>4. CASE OpenRfq(r) \/ Clock(r) \/ SubmitterStep(r) \/ Propagate(r) \/ RfqSucceeds(r)
           \/ RfqReverts(r)
  BY <1>4 DEF OpenRfq, Clock, WindowEnds, DeadlinePasses, ActionsExpire, SubmitterStep, Propagate,
              RfqSucceeds, RfqReverts
<1>5. CASE QuoteHandler(r)
  <2>1. CASE QuoteFunded(r) \/ QuoteRejected(r)
    BY <1>3, <2>1 DEF QuoteFunded, QuoteRejected
  <2>2. CASE QuoteAdmitted(r)
    <3>1. Quoting(r)
      BY <2>2 DEF QuoteAdmitted, Quoting
    <3> QED
      BY <1>0, <1>3, <2>2, <3>1 DEF QuoteAdmitted
  <2> QED
    BY <1>5, <2>1, <2>2 DEF QuoteHandler
<1>6. CASE AcceptStart(r)
  BY <1>6 DEF AcceptStart, LockAccounts, AllFree
<1>7. CASE AcceptHandler(r)
  <2>1. CASE AcceptLate(r) \/ AcceptInvalid(r) \/ AcceptPutFails(r)
    BY <1>2, <1>3, <2>1 DEF AcceptLate, AcceptInvalid, AcceptPutFails
  <2>2. CASE AcceptCommit(r) \/ HashPersisted(r) \/ HashPutFails(r)
    BY <2>2 DEF AcceptCommit, HashPersisted, HashPutFails
  <2>3. CASE Settle(r) \/ RejectedPutFails(r) \/ Ambiguous(r)
    BY <1>0, <1>3, <2>3 DEF Settle, Terminalize, HandlerReturns, RejectedPutFails, Ambiguous
  <2>4. CASE Rejected(r)
    BY <1>2, <1>3, <2>4 DEF Rejected, HandlerReturns
  <2> QED
    BY <1>7, <2>1, <2>2, <2>3, <2>4 DEF AcceptHandler
<1>8. CASE Timer(r)
  BY <1>1, <1>2, <1>8 DEF Timer, CloseAuction, ExpireAccept
<1>9. CASE GetRfq(r) \/ Reconciliation(r)
  BY <1>0, <1>9 DEF GetRfq, BeginReconciliation, Reconciliation, ReconcileMined, ReconcileNotMined,
                    ReconcileExpiredUnused, ReconcileInconclusive, Terminalize
<1>10. CASE Recovery(r)
  <2>1. CASE RecoverOpen(r)
    BY <1>0, <1>1, <2>1 DEF RecoverOpen, RecoverTurn, TakeTurn
  <2>2. CASE RecoverClosed(r)
    BY <1>0, <1>2, <2>2 DEF RecoverClosed, RecoverTurn, TakeTurn
  <2>3. CASE RecoverExecuting(r)
    BY <1>0, <2>3 DEF RecoverExecuting, RecoverTurn, TakeTurn, BeginReconciliation
  <2> QED
    BY <1>10, <2>1, <2>2, <2>3 DEF Recovery
<1> QED
  BY <1>4, <1>5, <1>6, <1>7, <1>8, <1>9, <1>10 DEF RfqStep

-----------------------------------------------------------------------------
(* What a step does to the record, the book and the reservations of its RFQ. *)

\* Steps that leave the record, the book and the reservations alone.
LEMMA SameRecord ==
    ASSUME BookIInv, NEW r \in Rfqs,
           UNCHANGED <<reserved, phase, todo>>,
           status'[r] = status[r], best'[r] = best[r], book'[r] = book[r]
    PROVE  BookOK(r)' /\ \A q \in Quotes : RfqOf[q] = r => ReservedOK(q)'
<1>1. BookOK(r) /\ \A q \in Quotes : ReservedOK(q)
  BY DEF BookIInv
<1> QED
  BY <1>1 DEF BookOK, ReservedOK, Share, QuotesOn, Winner, Up

\* The parts of the invariant for one RFQ.
LEMMA PartsOf ==
    ASSUME BookIInv, NEW r \in Rfqs
    PROVE  /\ BookOK(r) /\ OfferOK(r) /\ DormantOK(r)
           /\ \A q \in Quotes : RfqOf[q] = r => ReservedOK(q)
           /\ RecordOK(r)
           /\ phase # "serving" => job[r] = "idle"
           /\ phase = "serving" => todo = {}
BY DEF BookIInv, RfqIInv, PhaseOK

\* The clock, the chain, the executor and what a handler does in between.
LEMMA QuietBookSteps ==
    ASSUME BookIInv, NEW r \in Rfqs, RfqIInv', TypeOK',
           \/ Clock(r) \/ SubmitterStep(r) \/ Propagate(r) \/ RfqSucceeds(r) \/ RfqReverts(r)
           \/ HashPersisted(r) \/ HashPutFails(r) \/ ReconcileNotMined(r)
    PROVE  BookIInv'
<1>1. OnlyAt(r)
  BY StepIsLocal DEF RfqStep, AcceptHandler, Reconciliation
<1>2. UNCHANGED <<reserved, phase, todo, status, best, book, job, offer, closeTimer, acceptTimer>>
  BY DEF Clock, WindowEnds, DeadlinePasses, ActionsExpire, SubmitterStep, Propagate,
         RfqSucceeds, RfqReverts, HashPersisted, HashPutFails, ReconcileNotMined, auctionVars,
         journalVars, timerVars, handlerVars, processVars, sharedVars
<1>3. recon' = recon \/ recon[r] # "none"
  BY DEF Clock, WindowEnds, DeadlinePasses, ActionsExpire, SubmitterStep, Propagate,
         RfqSucceeds, RfqReverts, HashPersisted, HashPutFails, ReconcileNotMined, auctionVars
<1>4. lockedBy' = lockedBy
  BY DEF Clock, WindowEnds, DeadlinePasses, ActionsExpire, SubmitterStep, Propagate,
         RfqSucceeds, RfqReverts, HashPersisted, HashPutFails, ReconcileNotMined, fundsVars,
         Debit, sharedVars
<1>5. BookOK(r)' /\ \A q \in Quotes : RfqOf[q] = r => ReservedOK(q)'
  BY <1>2, SameRecord
<1>6. OfferOK(r)' /\ DormantOK(r)'
  BY <1>2, <1>3, <1>4, PartsOf DEF OfferOK, Quoting, DormantOK
<1> QED
  BY <1>1, <1>5, <1>6, LocalKeeps

\* A handler starts, goes on or leaves, and the record stays.
LEMMA HandlerBookSteps ==
    ASSUME BookIInv, NEW r \in Rfqs, RfqIInv', TypeOK',
           \/ QuoteFunded(r) \/ QuoteRejected(r) \/ AcceptStart(r) \/ AcceptInvalid(r)
           \/ AcceptPutFails(r) \/ RejectedPutFails(r) \/ Ambiguous(r) \/ GetRfq(r)
           \/ ReconcileInconclusive(r)
    PROVE  BookIInv'
<1>1. OnlyAt(r)
  BY StepIsLocal DEF RfqStep, AcceptHandler, Reconciliation, QuoteHandler
<1>2. UNCHANGED <<reserved, phase, todo, status, best, book, closeTimer>>
  BY DEF QuoteFunded, QuoteRejected, AcceptStart, AcceptInvalid, AcceptPutFails,
         RejectedPutFails, Ambiguous, GetRfq, ReconcileInconclusive, journalVars, timerVars,
         processVars, sharedVars
<1>3. phase = "serving" \/ (UNCHANGED acceptTimer /\ recon'[r] \in {"none", recon[r]})
  <2>1. CASE ReconcileInconclusive(r)
    BY <2>1, BookTypes DEF ReconcileInconclusive, timerVars
  <2>2. CASE ~ReconcileInconclusive(r)
    BY <2>2, PartsOf
       DEF QuoteFunded, QuoteRejected, AcceptStart, AcceptInvalid, AcceptPutFails,
           RejectedPutFails, Ambiguous, GetRfq, Serving
  <2> QED
    BY <2>1, <2>2
<1>4. Quoting(r)' => Quoting(r) /\ UNCHANGED <<offer, lockedBy>>
  BY BookTypes
     DEF Quoting, QuoteFunded, QuoteRejected, AcceptStart, AcceptInvalid, AcceptPutFails,
         RejectedPutFails, Ambiguous, GetRfq, ReconcileInconclusive, LeaveHandler, HandlerReturns,
         handlerVars, sharedVars, fundsVars
<1>5. BookOK(r)' /\ \A q \in Quotes : RfqOf[q] = r => ReservedOK(q)'
  BY <1>2, SameRecord
<1>6. OfferOK(r)'
  BY <1>2, <1>4, PartsOf DEF OfferOK
<1>7. DormantOK(r)'
  BY <1>2, <1>3, PartsOf DEF DormantOK
<1> QED
  BY <1>1, <1>5, <1>6, <1>7, LocalKeeps

\* The quotes of r are reserved, exactly, when its record is not dormant.
LEMMA ReservedOf ==
    ASSUME BookIInv, NEW r \in Rfqs, Up, r \notin todo
    PROVE  \A q \in Quotes : RfqOf[q] = r => (q \in reserved <=> q \in Share(r))
BY PartsOf DEF ReservedOK

\* An auction opens with an empty book.
LEMMA OpenKeeps ==
    ASSUME BookIInv, NEW r \in Rfqs, RfqIInv', TypeOK', OpenRfq(r)
    PROVE  BookIInv'
<1>1. OnlyAt(r)
  BY StepIsLocal DEF RfqStep
<1>2. /\ UNCHANGED <<best, book, reserved, job, offer, lockedBy, phase, todo, recon>>
      /\ status[r] = "none" /\ status'[r] = "open" /\ phase = "serving"
  BY BookTypes DEF OpenRfq, handlerVars, sharedVars, fundsVars, processVars, Serving
<1>3. BookOK(r)' /\ OfferOK(r)' /\ DormantOK(r)'
  BY <1>2, PartsOf DEF BookOK, OfferOK, Quoting, DormantOK, QuotesOn, Decided
<1>4. ASSUME NEW q \in Quotes, RfqOf[q] = r PROVE ReservedOK(q)'
  <2>1. book[r] = <<>> /\ todo = {}
    BY <1>2, PartsOf DEF BookOK
  <2>2. QuotesOn(r) = {}
    BY <2>1 DEF QuotesOn, ToSet
  <2>3. q \notin reserved
    BY <1>2, <1>4, <2>1, ReservedOf DEF Up, Share
  <2> QED
    BY <1>2, <1>4, <2>2, <2>3 DEF ReservedOK, Share, QuotesOn
<1> QED
  BY <1>1, <1>3, <1>4, LocalKeeps

\* The effect of a close on the book, from a timer or from recover().
LEMMA CloseIsBest ==
    ASSUME BookIInv, NEW r \in Rfqs, status[r] = "open", CloseEffect(r),
           phase' # "down", r \notin todo'
    PROVE  BookOK(r)' /\ \A q \in Quotes : RfqOf[q] = r => ReservedOK(q)'
<1> DEFINE b == SelectBestQuote(book[r])
<1>1. b \in QuotesOn(r) \cup {NoQuote} /\ NoQuote \notin Quotes
  BY BookTypes, BestIsOnBook, AuctionAssumption DEF QuotesOn
<1>2. /\ status'[r] = IF b = NoQuote THEN "expired" ELSE "closed"
      /\ best'[r] = b /\ book' = book
      /\ reserved' = (reserved \ QuotesOn(r)) \cup ({b} \ {NoQuote})
  BY BookTypes DEF CloseEffect
<1> HIDE DEF b
<1>3. SelectBestQuote(book[r])' = b
  BY <1>2 DEF b
<1>4. BookOK(r)'
  BY <1>1, <1>2, <1>3, PartsOf DEF BookOK, QuotesOn, Decided
<1>5. \A q \in Quotes : RfqOf[q] = r /\ q \in reserved => q \in QuotesOn(r)
  BY PartsOf DEF ReservedOK, Share
<1>6. ASSUME NEW q \in Quotes, RfqOf[q] = r PROVE ReservedOK(q)'
  <2>1. q \in reserved' <=> q = b
    BY <1>1, <1>2, <1>5, <1>6
  <2>2. q \in Share(r)' <=> q = b
    BY <1>1, <1>2 DEF Share, Winner, QuotesOn
  <2> QED
    BY <1>6, <2>1, <2>2 DEF ReservedOK, Up
<1> QED
  BY <1>4, <1>6

\* The effect of an expiry: the winner, if any, is released.
LEMMA ExpireReleases ==
    ASSUME BookIInv, NEW r \in Rfqs, status[r] \in {"closed", "executing"}, ExpireEffect(r)
    PROVE  BookOK(r)' /\ \A q \in Quotes : RfqOf[q] = r => ReservedOK(q)'
<1>1. /\ status'[r] = "expired" /\ best' = best /\ book' = book
      /\ reserved' = reserved \ Winner(r)
  BY BookTypes DEF ExpireEffect
<1>2. BookOK(r)'
  BY <1>1, PartsOf DEF BookOK, QuotesOn, Decided
<1>3. ASSUME NEW q \in Quotes, RfqOf[q] = r PROVE ReservedOK(q)'
  <2>1. q \notin reserved'
    BY <1>1, <1>3, PartsOf DEF ReservedOK, Share
  <2>2. q \notin Share(r)'
    BY <1>1 DEF Share
  <2> QED
    BY <1>3, <2>1, <2>2 DEF ReservedOK
<1> QED
  BY <1>2, <1>3

\* The end of an execution releases the winner, and keeps what was decided.
LEMMA TerminalizeReleases ==
    ASSUME BookIInv, NEW r \in Rfqs, status[r] = "executing",
           NEW s \in {"executed", "failed"}, status' = [status EXCEPT ![r] = s],
           reserved' = reserved \ Winner(r), UNCHANGED <<best, book>>
    PROVE  BookOK(r)' /\ \A q \in Quotes : RfqOf[q] = r => ReservedOK(q)'
<1>1. status'[r] = s
  BY BookTypes
<1>2. BookOK(r)'
  <2>1. SelectBestQuote(book[r])' = SelectBestQuote(book[r])
    OBVIOUS
  <2> QED
    BY <1>1, <2>1, PartsOf DEF BookOK, QuotesOn, Decided
<1>3. ASSUME NEW q \in Quotes, RfqOf[q] = r PROVE ReservedOK(q)'
  <2>1. q \notin reserved'
    BY <1>3, PartsOf DEF ReservedOK, Share
  <2>2. q \notin Share(r)'
    BY <1>1 DEF Share
  <2> QED
    BY <1>3, <2>1, <2>2 DEF ReservedOK
<1> QED
  BY <1>2, <1>3

-----------------------------------------------------------------------------
(* The steps that change the record, the book or the reservations. *)

\* A quote starts to be validated under the lock of its RFQ and its account.
LEMMA QuoteStartKeeps ==
    ASSUME BookIInv, NEW q \in Quotes, RfqIInv', TypeOK', QuoteStart(q)
    PROVE  BookIInv'
<1> DEFINE r == RfqOf[q]
<1>0. r \in Rfqs /\ AccountOf[q] \in Accounts
  BY AuctionAssumption
<1>1. /\ UNCHANGED <<status, best, book, reserved, closeTimer, acceptTimer, recon, phase, todo>>
      /\ job' = [job EXCEPT ![r] = "quoting"] /\ offer' = [offer EXCEPT ![r] = q]
      /\ counted' = [counted EXCEPT ![r] = ReservedFor(AccountOf[q], Prior(q))]
      /\ status[r] = "open"
      /\ LockAccounts({AccountOf[q]}, r) /\ AllFree({AccountOf[q]})
  BY DEF QuoteStart, journalVars, timerVars, processVars
<1>2. OnlyAt(r)
  BY <1>0, <1>1, BookTypes DEF OnlyAt, LockAccounts, AllFree
<1>3. BookOK(r)' /\ \A p \in Quotes : RfqOf[p] = r => ReservedOK(p)'
  BY <1>0, <1>1, SameRecord
<1>4. OfferOK(r)' /\ DormantOK(r)'
  BY <1>0, <1>1, BookTypes, PartsOf DEF OfferOK, DormantOK, LockAccounts
<1> QED
  BY <1>0, <1>2, <1>3, <1>4, LocalKeeps

\* A book that gains an admitted quote or loses some, with its reservations.
LEMMA BookChanges ==
    ASSUME BookIInv, NEW r \in Rfqs, status[r] = "open", phase = "serving",
           UNCHANGED <<status, best, phase, todo>>,
           \A q \in QuotesOn(r)' : RfqOf[q] = r,
           \A q \in Quotes : RfqOf[q] = r => (q \in reserved' <=> q \in QuotesOn(r)')
    PROVE  BookOK(r)' /\ \A q \in Quotes : RfqOf[q] = r => ReservedOK(q)'
BY PartsOf DEF BookOK, Decided, ReservedOK, Share, Up

\* The quotes of an open auction are reserved.
LEMMA OpenReserved ==
    ASSUME BookIInv, NEW r \in Rfqs, status[r] = "open", phase = "serving"
    PROVE  \A q \in Quotes : RfqOf[q] = r => (q \in reserved <=> q \in QuotesOn(r))
BY PartsOf, ReservedOf DEF Up, Share

\* The quote under validation replaces its maker's earlier ones.
LEMMA QuoteAdmittedKeeps ==
    ASSUME BookIInv, NEW r \in Rfqs, RfqIInv', TypeOK', QuoteAdmitted(r)
    PROVE  BookIInv'
<1> DEFINE q == offer[r]
<1>0. /\ q \in Quotes /\ RfqOf[q] = r /\ job[r] = "funded" /\ status[r] = "open"
      /\ phase = "serving" /\ todo = {}
  BY PartsOf, BookQuotes DEF QuoteAdmitted, Quoting
<1>1. /\ UNCHANGED <<status, best, closeTimer, acceptTimer, recon, phase, todo>>
      /\ book' = [book EXCEPT ![r] = Append(Without(book[r], Prior(q)), q)]
      /\ reserved' = (reserved \ Prior(q)) \cup {q}
      /\ job' = [job EXCEPT ![r] = "idle"]
  BY DEF QuoteAdmitted, LeaveHandler, timerVars, processVars
<1> HIDE DEF q
<1>2. OnlyAt(r)
  BY StepIsLocal DEF RfqStep, QuoteHandler
<1>3. QuotesOn(r)' = (QuotesOn(r) \ Prior(q)) \cup {q}
  <2>1. Without(book[r], Prior(q)) \in Seq(Quotes)
        /\ ToSet(Without(book[r], Prior(q))) = ToSet(book[r]) \ Prior(q)
    BY BookTypes, WithoutTyped
  <2>2. ToSet(Append(Without(book[r], Prior(q)), q)) = ToSet(Without(book[r], Prior(q))) \cup {q}
    BY <1>0, <2>1, AppendTyped
  <2>3. book'[r] = Append(Without(book[r], Prior(q)), q)
    BY <1>1, BookTypes
  <2> QED
    BY <2>1, <2>2, <2>3 DEF QuotesOn
<1>4. BookOK(r)' /\ \A p \in Quotes : RfqOf[p] = r => ReservedOK(p)'
  <2>1. \A p \in QuotesOn(r)' : RfqOf[p] = r
    BY <1>0, <1>3, BookQuotes
  <2>2. \A p \in Quotes : RfqOf[p] = r => (p \in reserved' <=> p \in QuotesOn(r)')
    BY <1>0, <1>1, <1>3, OpenReserved
  <2> QED
    BY <1>0, <1>1, <2>1, <2>2, BookChanges
<1>5. OfferOK(r)' /\ DormantOK(r)'
  BY <1>0, <1>1, BookTypes DEF OfferOK, Quoting, DormantOK
<1> QED
  BY <1>2, <1>4, <1>5, LocalKeeps

\* A cancelled quote leaves the book and the reservations.
LEMMA CancelKeeps ==
    ASSUME BookIInv, NEW q \in Quotes, RfqIInv', TypeOK', CancelQuote(q)
    PROVE  BookIInv'
<1> DEFINE r == RfqOf[q]
<1>0. r \in Rfqs /\ phase = "serving" /\ status[r] = "open" /\ job[r] = "idle"
  BY AuctionAssumption DEF CancelQuote, Serving, LockFree
<1>1. /\ UNCHANGED <<status, best, closeTimer, acceptTimer, recon, phase, todo, job, offer,
                     counted, lockedBy>>
      /\ book' = [book EXCEPT ![r] = Without(book[r], {q})]
      /\ reserved' = reserved \ {q}
  BY DEF CancelQuote, timerVars, processVars, handlerVars, sharedVars, fundsVars
<1>2. OnlyAt(r)
  BY <1>0, <1>1, BookTypes DEF OnlyAt
<1>3. QuotesOn(r)' = QuotesOn(r) \ {q}
  <2>1. book'[r] = Without(book[r], {q})
    BY <1>0, <1>1, BookTypes
  <2>2. ToSet(Without(book[r], {q})) = ToSet(book[r]) \ {q}
    BY <1>0, BookTypes, WithoutTyped
  <2> QED
    BY <2>1, <2>2 DEF QuotesOn
<1>4. BookOK(r)' /\ \A p \in Quotes : RfqOf[p] = r => ReservedOK(p)'
  <2>1. \A p \in QuotesOn(r)' : RfqOf[p] = r
    BY <1>0, <1>3, BookQuotes
  <2>2. \A p \in Quotes : RfqOf[p] = r => (p \in reserved' <=> p \in QuotesOn(r)')
    BY <1>0, <1>1, <1>3, OpenReserved
  <2> QED
    BY <1>0, <1>1, <2>1, <2>2, BookChanges
<1>5. OfferOK(r)' /\ DormantOK(r)'
  BY <1>0, <1>1, PartsOf DEF OfferOK, Quoting, DormantOK
<1> QED
  BY <1>0, <1>2, <1>4, <1>5, LocalKeeps

\* A timer of r fires: r is recovered, nobody holds its lock.
LEMMA TimerKeeps ==
    ASSUME BookIInv, NEW r \in Rfqs, RfqIInv', TypeOK', Timer(r)
    PROVE  BookIInv'
<1>1. OnlyAt(r)
  BY StepIsLocal DEF RfqStep
<1>2. /\ phase # "down" /\ r \notin todo /\ job[r] = "idle"
      /\ UNCHANGED <<phase, todo, job, recon>>
  BY PartsOf DEF Timer, CloseAuction, ExpireAccept, Up, LockFree, DormantOK, sharedVars,
                 processVars, handlerVars
<1>3. BookOK(r)' /\ \A q \in Quotes : RfqOf[q] = r => ReservedOK(q)'
  BY <1>2, CloseIsBest, ExpireReleases DEF Timer, CloseAuction, ExpireAccept
<1>4. OfferOK(r)' /\ DormantOK(r)'
  BY <1>2 DEF OfferOK, Quoting, DormantOK
<1> QED
  BY <1>1, <1>3, <1>4, LocalKeeps

\* An acceptance that is committed, found late, settled or refused.
LEMMA AcceptKeeps ==
    ASSUME BookIInv, NEW r \in Rfqs, RfqIInv', TypeOK',
           AcceptLate(r) \/ AcceptCommit(r) \/ Settle(r) \/ Rejected(r)
    PROVE  BookIInv'
<1>1. OnlyAt(r)
  BY StepIsLocal DEF RfqStep, AcceptHandler
<1>2. phase = "serving" /\ todo = {} /\ UNCHANGED <<phase, todo, recon>>
  BY PartsOf DEF AcceptLate, AcceptCommit, Settle, Rejected, Serving, processVars
<1>3. job'[r] \in {"idle", "executing"}
  BY BookTypes DEF AcceptLate, AcceptCommit, Settle, Rejected, LeaveHandler, HandlerReturns
<1>4. job[r] = "executing" => status[r] = "executing"
  BY PartsOf DEF RecordOK
<1>5. BookOK(r)' /\ \A q \in Quotes : RfqOf[q] = r => ReservedOK(q)'
  <2>1. CASE AcceptLate(r) \/ (Rejected(r) /\ late[r])
    BY <1>4, <2>1, ExpireReleases DEF AcceptLate, Rejected
  <2>2. CASE Settle(r)
    BY <1>4, <2>2, TerminalizeReleases DEF Settle, Terminalize, MinedAs
  <2>3. CASE AcceptCommit(r) \/ (Rejected(r) /\ ~late[r])
    <3>1. /\ {status[r], status'[r]} = {"closed", "executing"}
          /\ UNCHANGED <<best, book, reserved>>
      BY <1>4, <2>3, BookTypes DEF AcceptCommit, Rejected
    <3>2. SelectBestQuote(book[r])' = SelectBestQuote(book[r])
      BY <3>1
    <3>3. BookOK(r)'
      BY <3>1, <3>2, PartsOf DEF BookOK, QuotesOn, Decided
    <3>4. Share(r)' = Share(r)
      BY <3>1 DEF Share, Winner
    <3>5. ASSUME NEW q \in Quotes, RfqOf[q] = r PROVE ReservedOK(q)'
      BY <1>2, <3>1, <3>4, <3>5, PartsOf DEF ReservedOK, Up
    <3> QED
      BY <3>3, <3>5
  <2> QED
    BY <2>1, <2>2, <2>3
<1>6. OfferOK(r)' /\ DormantOK(r)'
  BY <1>2, <1>3 DEF OfferOK, Quoting, DormantOK
<1> QED
  BY <1>1, <1>5, <1>6, LocalKeeps

\* A reconciliation that ends the execution.
LEMMA ReconcileKeeps ==
    ASSUME BookIInv, NEW r \in Rfqs, RfqIInv', TypeOK',
           ReconcileMined(r) \/ ReconcileExpiredUnused(r)
    PROVE  BookIInv'
<1>1. OnlyAt(r)
  BY StepIsLocal DEF RfqStep, Reconciliation
<1>2. /\ status[r] = "executing" /\ recon[r] # "none"
      /\ UNCHANGED <<phase, todo, job, offer, lockedBy, closeTimer, acceptTimer>>
  BY PartsOf DEF ReconcileMined, ReconcileExpiredUnused, RecordOK, processVars, handlerVars,
                 fundsVars, timerVars
<1>3. BookOK(r)' /\ \A q \in Quotes : RfqOf[q] = r => ReservedOK(q)'
  BY <1>2, TerminalizeReleases DEF ReconcileMined, ReconcileExpiredUnused, Terminalize, MinedAs
<1>4. OfferOK(r)' /\ DormantOK(r)'
  BY <1>2, PartsOf DEF OfferOK, Quoting, DormantOK
<1> QED
  BY <1>1, <1>3, <1>4, LocalKeeps

\* recover() reserves what the journal's record of r says.
LEMMA RecoveryKeeps ==
    ASSUME BookIInv, NEW r \in Rfqs, RfqIInv', TypeOK', Recovery(r)
    PROVE  BookIInv'
<1>1. OnlyAt(r)
  BY StepIsLocal DEF RfqStep
<1>2. /\ phase = "recovering" /\ phase' = phase /\ r \in todo /\ todo' = todo \ {r}
      /\ UNCHANGED job /\ job[r] = "idle"
  BY PartsOf DEF Recovery, RecoverOpen, RecoverClosed, RecoverExecuting, RecoverTurn, TakeTurn,
                 handlerVars
<1>3. OfferOK(r)' /\ DormantOK(r)'
  BY <1>2 DEF OfferOK, Quoting, DormantOK
<1>4. BookOK(r)' /\ \A q \in Quotes : RfqOf[q] = r => ReservedOK(q)'
  <2>1. CASE RecoverOpen(r) /\ windowOver[r]
    BY <1>2, <2>1, CloseIsBest DEF RecoverOpen
  <2>2. CASE RecoverClosed(r) /\ late[r]
    BY <1>2, <2>2, ExpireReleases DEF RecoverClosed
  <2>3. CASE \/ RecoverOpen(r) /\ ~windowOver[r]
             \/ RecoverClosed(r) /\ ~late[r]
             \/ RecoverExecuting(r)
    <3>1. UNCHANGED <<status, best, book>> /\ reserved' = reserved \cup Share(r)
      BY <2>3 DEF RecoverOpen, RecoverClosed, RecoverExecuting, journalVars, Share
    <3>2. BookOK(r)'
      BY <3>1, PartsOf DEF BookOK, QuotesOn
    <3>3. Share(r)' = Share(r)
      BY <3>1 DEF Share, QuotesOn, Winner
    <3>4. ASSUME NEW q \in Quotes, RfqOf[q] = r PROVE ReservedOK(q)'
      BY <1>2, <3>1, <3>3, <3>4, PartsOf DEF ReservedOK, Up
    <3> QED
      BY <3>2, <3>4
  <2> QED
    BY <2>1, <2>2, <2>3 DEF Recovery
<1> QED
  BY <1>1, <1>3, <1>4, LocalKeeps

\* The process stops: nothing is reserved any more, the journal stays.
LEMMA CrashKeepsBooks ==
    ASSUME BookIInv, RfqIInv', TypeOK', Crash
    PROVE  BookIInv'
<1>1. /\ UNCHANGED <<status, best, book>> /\ phase' = "down" /\ reserved' = {}
      /\ \A r \in Rfqs : /\ job'[r] = "idle" /\ recon'[r] = "none"
                         /\ closeTimer'[r] = FALSE /\ acceptTimer'[r] = FALSE
  BY DEF Crash, ProcessStops, AuctionForgets
<1>2. ASSUME NEW r \in Rfqs PROVE BookOK(r)' /\ OfferOK(r)' /\ DormantOK(r)'
  <2>1. SelectBestQuote(book[r])' = SelectBestQuote(book[r])
    BY <1>1
  <2> QED
    BY <1>1, <2>1, PartsOf DEF BookOK, QuotesOn, OfferOK, Quoting, DormantOK
<1>3. \A q \in Quotes : ReservedOK(q)'
  BY <1>1 DEF ReservedOK, Up
<1> QED
  BY <1>2, <1>3 DEF BookIInv

\* The process starts and goes over its unfinished records, then serves.
LEMMA RestartKeepsBooks ==
    ASSUME BookIInv, RfqIInv', TypeOK', NEW records \in SUBSET Ops, Unfinished \subseteq records,
           (ProcessStarts(records) /\ UNCHANGED auctionVars) \/ Serve
    PROVE  BookIInv'
<1>1. UNCHANGED <<status, best, book, reserved, job, offer, lockedBy, recon, closeTimer, acceptTimer>>
  BY DEF Serve, ProcessStarts, StartServing, auctionVars, journalVars, handlerVars,
         timerVars, fundsVars
<1>2. ASSUME NEW r \in Rfqs PROVE BookOK(r)' /\ OfferOK(r)' /\ Share(r)' = Share(r)
  <2>1. SelectBestQuote(book[r])' = SelectBestQuote(book[r])
    BY <1>1
  <2> QED
    BY <1>1, <2>1, PartsOf DEF BookOK, QuotesOn, OfferOK, Quoting, Share, Winner
<1>3. CASE ProcessStarts(records)
  <2>1. phase = "down" /\ phase' = "recovering" /\ todo' = records
    BY <1>3 DEF ProcessStarts
  <2>2. \A r \in Rfqs : DormantOK(r)'
    BY <1>1, <2>1, PartsOf DEF DormantOK
  <2>3. ASSUME NEW q \in Quotes PROVE ReservedOK(q)'
    <3>1. q \notin reserved /\ RfqOf[q] \in Rfqs
      BY <2>1, AuctionAssumption DEF BookIInv, ReservedOK, Up
    <3>2. RfqOf[q] \notin todo' => Share(RfqOf[q]) = {}
      BY <2>1, <3>1 DEF Unfinished, Share
    <3> QED
      BY <1>1, <1>2, <3>1, <3>2 DEF ReservedOK
  <2> QED
    BY <1>2, <2>2, <2>3 DEF BookIInv
<1>4. CASE Serve
  <2>1. phase = "recovering" /\ phase' = "serving" /\ todo = {} /\ todo' = todo
    BY <1>4 DEF Serve, StartServing
  <2>2. \A r \in Rfqs : DormantOK(r)'
    BY <2>1 DEF DormantOK
  <2>3. ASSUME NEW q \in Quotes PROVE ReservedOK(q)'
    <3>1. ReservedOK(q) /\ RfqOf[q] \in Rfqs
      BY AuctionAssumption DEF BookIInv
    <3> QED
      BY <1>1, <1>2, <2>1, <3>1 DEF ReservedOK, Up
  <2> QED
    BY <1>2, <2>2, <2>3 DEF BookIInv
<1> QED
  BY <1>3, <1>4

-----------------------------------------------------------------------------
(* The invariant, and what it gives. *)

\* The first state.
LEMMA BookInitial == Init => BookIInv
<1> SUFFICES ASSUME Init PROVE BookIInv
  OBVIOUS
<1>1. RfqIInv
  BY RfqsInitial
<1>2. DataTypeOK
  BY ProcessAssumption, AuctionAssumption DEF Init, ProcessInit, AuctionInit, DataTypeOK
<1>3. TypeOK
  BY <1>1, <1>2, TypesSplit DEF RfqIInv
<1>4. ASSUME NEW r \in Rfqs PROVE BookOK(r) /\ OfferOK(r) /\ DormantOK(r)
  BY <1>4 DEF Init, ProcessInit, AuctionInit, BookOK, OfferOK, Quoting, DormantOK, QuotesOn, ToSet,
              Decided
<1>5. ASSUME NEW q \in Quotes PROVE ReservedOK(q)
  <2>1. RfqOf[q] \in Rfqs
    BY AuctionAssumption
  <2> QED
    BY <2>1 DEF Init, AuctionInit, ReservedOK, Share
<1> QED
  BY <1>1, <1>3, <1>4, <1>5 DEF BookIInv

\* What the steps of the RFQ engine do to the types.
LEMMA RfqTypes ==
    ASSUME BookIInv, RfqIInv',
           \/ \E r \in Rfqs : RfqStep(r)
           \/ \E q \in Quotes : QuoteStart(q) \/ CancelQuote(q)
    PROVE  TypeOK'
<1>0. DataTypeOK
  BY BookTypes
<1>1. ASSUME NEW r \in Rfqs, RfqStep(r) PROVE DataTypeOK'
  <2>1. QuoteHandler(r) => offer[r] \in Quotes
    BY BookQuotes DEF QuoteHandler, QuoteFunded, QuoteRejected, QuoteAdmitted, Quoting
  <2> QED
    BY <1>0, <1>1, <2>1, QuoteTypes, AcceptTypes, BackgroundTypes, OutsideTypes DEF RfqStep
<1>2. ASSUME NEW q \in Quotes, QuoteStart(q) \/ CancelQuote(q) PROVE DataTypeOK'
  BY <1>0, <1>2, QuoteCallTypes
<1> QED
  BY <1>1, <1>2
     DEF RfqIInv, ControlTypeOK, DataTypeOK, TypeOK, ProcessTypeOK, AuctionTypeOK

\* What the process does to them.
LEMMA ProcessDataTypes ==
    ASSUME BookIInv, RfqIInv',
           \/ Crash
           \/ /\ \/ \E records \in SUBSET Ops : ProcessStarts(records)
                 \/ StartServing
              /\ UNCHANGED auctionVars
           \/ UNCHANGED vars
    PROVE  TypeOK'
<1>0. DataTypeOK
  BY BookTypes
<1>1. CASE Crash
  <2>1. DataTypeOK'
    BY <1>0, <1>1, ProcessAssumption DEF Crash, ProcessStops, AuctionForgets, DataTypeOK, timeVars
  <2> QED
    BY <2>1 DEF RfqIInv, ControlTypeOK, DataTypeOK, TypeOK, ProcessTypeOK, AuctionTypeOK
<1>2. CASE ~Crash
  <2>1. DataTypeOK'
    BY <1>0, <1>2
       DEF ProcessStarts, StartServing, vars, auctionVars, journalVars, timeVars, timerVars,
           handlerVars, sharedVars, fundsVars, processVars, DataTypeOK
  <2> QED
    BY <2>1 DEF RfqIInv, ControlTypeOK, DataTypeOK, TypeOK, ProcessTypeOK, AuctionTypeOK
<1> QED
  BY <1>1, <1>2

\* Nothing changes.
LEMMA StutterKeepsBooks ==
    ASSUME BookIInv, RfqIInv', TypeOK', UNCHANGED vars
    PROVE  BookIInv'
<1>1. ASSUME NEW r \in Rfqs PROVE BookOK(r)' /\ OfferOK(r)' /\ DormantOK(r)'
  BY PartsOf DEF vars, auctionVars, journalVars, timeVars, timerVars, handlerVars, sharedVars,
                 fundsVars, processVars, BookOK, QuotesOn, OfferOK, Quoting, DormantOK
<1>2. ASSUME NEW q \in Quotes PROVE ReservedOK(q)'
  <2>1. ReservedOK(q)
    BY DEF BookIInv
  <2> QED
    BY <2>1 DEF vars, auctionVars, journalVars, sharedVars, processVars, ReservedOK, Share,
                QuotesOn, Winner, Up
<1> QED
  BY <1>1, <1>2 DEF BookIInv

\* Every step of the RFQ engine keeps the books and the reservations.
LEMMA RfqStepKeepsBooks ==
    ASSUME BookIInv, RfqIInv', TypeOK',
           \/ \E r \in Rfqs : RfqStep(r)
           \/ \E q \in Quotes : QuoteStart(q) \/ CancelQuote(q)
    PROVE  BookIInv'
<1>1. ASSUME NEW r \in Rfqs, RfqStep(r) PROVE BookIInv'
  <2>1. CASE OpenRfq(r) \/ QuoteHandler(r) \/ AcceptStart(r) \/ Timer(r)
    BY <2>1, OpenKeeps, HandlerBookSteps, QuoteAdmittedKeeps, TimerKeeps DEF QuoteHandler
  <2>2. CASE AcceptHandler(r)
    BY <2>2, AcceptKeeps, HandlerBookSteps, QuietBookSteps DEF AcceptHandler
  <2>3. CASE GetRfq(r) \/ Reconciliation(r) \/ Recovery(r)
    BY <2>3, HandlerBookSteps, ReconcileKeeps, QuietBookSteps, RecoveryKeeps DEF Reconciliation
  <2>4. CASE SubmitterStep(r) \/ Propagate(r) \/ RfqSucceeds(r) \/ RfqReverts(r) \/ Clock(r)
    BY <2>4, QuietBookSteps
  <2> QED
    BY <1>1, <2>1, <2>2, <2>3, <2>4 DEF RfqStep
<1> QED
  BY <1>1, QuoteStartKeeps, CancelKeeps

\* The engine alone keeps them.
LEMMA BookStepKeeps == ExecutorIInv /\ BookIInv /\ [Next]_vars => BookIInv'
<1> SUFFICES ASSUME ExecutorIInv, BookIInv, [Next]_vars PROVE BookIInv'
  OBVIOUS
<1>1. RfqIInv'
  BY ExecutorStepKeeps DEF ExecutorIInv
<1>2. Unfinished \in SUBSET Ops
  BY RfqsAreOps DEF Unfinished
<1>3. CASE \/ \E r \in Rfqs : RfqStep(r)
           \/ \E q \in Quotes : QuoteStart(q) \/ CancelQuote(q)
  BY <1>1, <1>3, RfqTypes, RfqStepKeepsBooks
<1>4. CASE Crash \/ Restart \/ Serve \/ UNCHANGED vars
  <2>1. TypeOK'
    BY <1>1, <1>2, <1>4, ProcessDataTypes DEF Restart, Serve
  <2> QED
    BY <1>1, <1>2, <1>4, <2>1, CrashKeepsBooks, RestartKeepsBooks, StutterKeepsBooks DEF Restart
<1> QED
  BY <1>3, <1>4 DEF Next, Quiescent

\* The journal, its index, the lock of each RFQ and the reservations agree in
\* every state of the RFQ engine.
THEOREM BookInvariant == Spec => []BookIInv
BY BookInitial, BookStepKeeps, ExecutorInvariant, PTL DEF Spec

\* Every variable of the RFQ engine keeps its type: the best quote is a quote
\* of its book and a terminal put never overruns its bound.
THEOREM AuctionTypes == Spec => []TypeOK
<1>1. BookIInv => TypeOK
  BY DEF BookIInv
<1> QED
  BY <1>1, BookInvariant, PTL

\* What was locked in at the close is selectBestQuote of the quotes that are
\* still stored: nothing is admitted, replaced or cancelled after it.
THEOREM WinnerStaysBest == Spec => []WinnerIsBest
<1>1. BookIInv => WinnerIsBest
  BY PartsOf DEF WinnerIsBest, BookOK, Decided
<1> QED
  BY <1>1, BookInvariant, PTL

\* A standing quote is one that holds its maker's cash.
LEMMA StandingHolds ==
    ASSUME BookIInv
    PROVE  \A q : q \in Standing <=> q \in Quotes /\ q \in Share(RfqOf[q])
<1>1. ASSUME NEW q PROVE q \in Standing <=> \E r \in Rfqs : q \in Share(r)
  BY DEF Standing, Share
<1>2. ASSUME NEW q, NEW r \in Rfqs, q \in Share(r) PROVE q \in Quotes /\ RfqOf[q] = r
  BY <1>2, BookQuotes DEF Share
<1> QED
  BY <1>1, <1>2, AuctionAssumption

\* In a serving engine every standing quote is reserved, and nothing else.
LEMMA BooksAreExact == BookIInv => ReservationsExact
<1> SUFFICES ASSUME BookIInv, Serving PROVE reserved = Standing
  BY DEF ReservationsExact
<1>1. phase = "serving"
  BY DEF Serving
<1>2. ASSUME NEW q \in Quotes PROVE q \in reserved <=> q \in Share(RfqOf[q])
  <2>1. RfqOf[q] \in Rfqs /\ ReservedOK(q) /\ todo = {}
    BY <1>1, AuctionAssumption, PartsOf DEF BookIInv, RfqIInv, PhaseOK
  <2> QED
    BY <1>1, <2>1 DEF ReservedOK, Up
<1>3. \A q : q \in Standing <=> q \in reserved
  BY <1>2, StandingHolds, BookTypes
<1> QED
  BY <1>3

\* A serving engine reserves the standing quotes and nothing else, before and
\* after any number of crashes (auction.ts reservations and recover).
THEOREM ReservationsAreExact == Spec => []ReservationsExact
BY BooksAreExact, BookInvariant, PTL

-----------------------------------------------------------------------------
(* The makers' cash. *)

\* The quotes that hold cash of a.
Held(a) == {q \in Quotes : q \in Share(RfqOf[q]) /\ AccountOf[q] = a}

\* Those of them whose match has not debited it.
Owed(a) == {q \in Held(a) : ~MatchSucceeded(q)}

\* What the handler of r still has to count against the cash it reads.
Against(r) == Owed(AccountOf[offer[r]]) \ Prior(offer[r])

\* The handler counted at least that: since it summed, nothing was added.
CountedOK(r) == Quoting(r) => Against(r) \subseteq counted[r] /\ IsFiniteSet(counted[r])

\* What the handlers count, also beside an engine that spends the same cash.
CountsIInv ==
    /\ BookIInv
    /\ \A r \in Rfqs : CountedOK(r)
    /\ \A a \in Accounts : IsFiniteSet(Held(a))

\* The cash it read pays for that and for the quote, also after a debit.
FundedOK(r) ==
    job[r] = "funded" =>
        cash[AccountOf[offer[r]]] >= SumCost(Against(r)) + Cost[offer[r]]

\* The cash pays for all that the journal would reserve on it.
CoveredOK(a) == cash[a] >= SumCost(Owed(a))

\* The cash of a pays for both.
PaidFor(a) ==
    /\ CoveredOK(a)
    /\ \A r \in Rfqs : job[r] = "funded" /\ AccountOf[offer[r]] = a => FundedOK(r)

\* The invariant behind Solvent.
FundsIInv == CountsIInv /\ \A a \in Accounts : PaidFor(a)

\* A step that adds neither to what holds cash nor to what is counted.
NothingMore ==
    /\ \A x \in Rfqs : Share(x)' \subseteq Share(x)
    /\ \A q \in Quotes : MatchSucceeded(q) => MatchSucceeded(q)'
    /\ \A x \in Rfqs : Quoting(x)' => /\ Quoting(x)
                                       /\ offer'[x] = offer[x] /\ counted'[x] = counted[x]
                                       /\ book'[x] = book[x]

\* SumCost is the sum of FiniteSums.
LEMMA SumCostIsSum == \A S : SumCost(S) = SumOver(Cost, S)
BY DEF SumCost, MapThenSumSet, MapThenFoldSet, SumOver, Fold, IsFold, SumStep, Pick

\* Sums of costs grow with their set, by at most the cost of what is added.
LEMMA SumCostMonotone ==
    ASSUME NEW S \in SUBSET Quotes, IsFiniteSet(S), NEW T \in SUBSET S
    PROVE  /\ SumCost(S) \in Nat /\ SumCost(T) \in Nat /\ SumCost(T) <= SumCost(S)
           /\ \A q \in Quotes : SumCost(S \cup {q}) <= SumCost(S) + Cost[q]
           /\ \A q \in S : SumCost(S) = Cost[q] + SumCost(S \ {q})
<1>1. \A x \in Quotes : Cost[x] \in Nat
  BY AuctionAssumption
<1>2. SumOver(Cost, S) \in Nat /\ SumOver(Cost, T) \in Nat
  <2>1. IsFiniteSet(T)
    BY FS_Subset
  <2> QED
    BY <1>1, <2>1, SumTyped
<1>3. SumOver(Cost, T) <= SumOver(Cost, S)
  BY <1>1, SumMonotone
<1>4. \A q \in Quotes : SumOver(Cost, S \cup {q}) <= SumOver(Cost, S) + Cost[q]
  BY <1>1, SumOfOneMore
<1>5. \A q \in S : SumOver(Cost, S) = Cost[q] + SumOver(Cost, S \ {q})
  BY <1>1, SumSplits
<1> QED
  BY <1>2, <1>3, <1>4, <1>5, SumCostIsSum, Zenon

\* Nothing costs nothing.
LEMMA SumCostOfNone == SumCost({}) = 0
BY SumOfNone, SumCostIsSum, Zenon

\* What is owed and what is counted is finite.
LEMMA FundsTyped ==
    ASSUME CountsIInv, NEW r \in Rfqs, NEW a \in Accounts
    PROVE  /\ Owed(a) \in SUBSET Quotes /\ IsFiniteSet(Owed(a)) /\ SumCost(Owed(a)) \in Nat
           /\ cash[a] \in Int
           /\ Quoting(r) => /\ AccountOf[offer[r]] \in Accounts /\ Cost[offer[r]] \in Nat
                            /\ Against(r) \in SUBSET Quotes /\ IsFiniteSet(Against(r))
                            /\ SumCost(Against(r)) \in Nat
                            /\ counted[r] \in SUBSET Quotes
<1>1. BookIInv
  BY DEF CountsIInv
<1>2. \A x \in Accounts : /\ Owed(x) \in SUBSET Quotes /\ IsFiniteSet(Owed(x))
                          /\ SumCost(Owed(x)) \in Nat
  <2> TAKE x \in Accounts
  <2>1. IsFiniteSet(Held(x)) /\ Owed(x) \in SUBSET Held(x) /\ Held(x) \in SUBSET Quotes
    BY DEF CountsIInv, Owed, Held
  <2> QED
    BY <2>1, FS_Subset, SumCostMonotone
<1>3. ASSUME Quoting(r)
      PROVE  /\ AccountOf[offer[r]] \in Accounts /\ Cost[offer[r]] \in Nat
             /\ Against(r) \in SUBSET Quotes /\ IsFiniteSet(Against(r))
             /\ SumCost(Against(r)) \in Nat
             /\ counted[r] \in SUBSET Quotes
  <2>1. AccountOf[offer[r]] \in Accounts /\ Cost[offer[r]] \in Nat
    BY <1>1, <1>3, BookQuotes, AuctionAssumption
  <2>2. Against(r) \in SUBSET Owed(AccountOf[offer[r]])
    BY DEF Against
  <2>3. IsFiniteSet(Against(r)) /\ SumCost(Against(r)) \in Nat
    BY <1>2, <2>1, <2>2, FS_Subset, SumCostMonotone
  <2> QED
    BY <1>1, <1>2, <2>1, <2>2, <2>3, BookTypes
<1>4. cash[a] \in Int
  BY <1>1, BookTypes DEF DataTypeOK
<1> QED
  BY <1>2, <1>3, <1>4

\* When less is owed, on the same cash, everything stays covered.
LEMMA LessIsCovered ==
    ASSUME CountsIInv, NEW a \in Accounts, CoveredOK(a),
           cash'[a] = cash[a], Owed(a)' \subseteq Owed(a)
    PROVE  CoveredOK(a)'
<1>1. cash[a] >= SumCost(Owed(a)) /\ IsFiniteSet(Held(a))
  BY DEF CountsIInv, CoveredOK
<1>2. IsFiniteSet(Owed(a)) /\ Owed(a) \in SUBSET Quotes
  BY <1>1, FS_Subset DEF Owed, Held
<1>3. /\ SumCost(Owed(a)') <= SumCost(Owed(a))
      /\ SumCost(Owed(a)') \in Nat /\ SumCost(Owed(a)) \in Nat
  BY <1>2, SumCostMonotone
<1>4. cash[a] \in Int
  BY BookTypes DEF CountsIInv, DataTypeOK
<1> QED
  BY <1>1, <1>3, <1>4 DEF CoveredOK

\* A quote that is still to be paid with less, from the same cash, stays funded.
LEMMA LessIsFunded ==
    ASSUME CountsIInv, NEW r \in Rfqs, FundedOK(r), job'[r] = "funded" => job[r] = "funded",
           Quoting(r)' => /\ offer'[r] = offer[r] /\ Against(r)' \subseteq Against(r)
                          /\ cash'[AccountOf[offer[r]]] = cash[AccountOf[offer[r]]]
    PROVE  FundedOK(r)'
<1> SUFFICES ASSUME job'[r] = "funded"
             PROVE  cash'[AccountOf[offer'[r]]] >= SumCost(Against(r)') + Cost[offer'[r]]
  BY DEF FundedOK
<1>0. BookIInv
  BY DEF CountsIInv
<1>1. Quoting(r)' /\ Quoting(r) /\ job[r] = "funded"
  BY DEF Quoting
<1>2. /\ cash[AccountOf[offer[r]]] >= SumCost(Against(r)) + Cost[offer[r]]
      /\ offer'[r] = offer[r] /\ Against(r)' \subseteq Against(r)
      /\ cash'[AccountOf[offer[r]]] = cash[AccountOf[offer[r]]]
  BY <1>0, <1>1 DEF FundedOK
<1>3. /\ Against(r) \in SUBSET Quotes /\ IsFiniteSet(Against(r))
      /\ AccountOf[offer[r]] \in Accounts /\ Cost[offer[r]] \in Nat
  BY <1>0, <1>1, BookQuotes, FundsTyped, AuctionAssumption
<1>4. /\ SumCost(Against(r)') <= SumCost(Against(r))
      /\ SumCost(Against(r)') \in Nat /\ SumCost(Against(r)) \in Nat
  BY <1>2, <1>3, SumCostMonotone
<1>5. cash[AccountOf[offer[r]]] \in Int
  BY <1>0, <1>3, BookTypes DEF DataTypeOK
<1> QED
  BY <1>2, <1>3, <1>4, <1>5

\* Then no account holds more and no handler has more to count.
LEMMA NothingMoreHeld ==
    ASSUME BookIInv, NothingMore
    PROVE  /\ \A a : Held(a)' \subseteq Held(a) /\ Owed(a)' \subseteq Owed(a)
           /\ \A x \in Rfqs : Quoting(x)' => Against(x)' \subseteq Against(x)
<1>1. \A a : Held(a)' \subseteq Held(a) /\ Owed(a)' \subseteq Owed(a)
  BY AuctionAssumption DEF NothingMore, Held, Owed
<1>2. ASSUME NEW x \in Rfqs, Quoting(x)' PROVE Against(x)' \subseteq Against(x)
  <2>1. /\ Quoting(x) /\ offer'[x] = offer[x] /\ book'[x] = book[x]
        /\ offer[x] \in Quotes /\ RfqOf[offer[x]] = x
    BY <1>2, BookQuotes DEF NothingMore
  <2>2. Prior(offer[x])' = Prior(offer[x])
    BY <2>1 DEF Prior, QuotesOn
  <2> QED
    BY <1>1, <2>1, <2>2 DEF Against, Prior, QuotesOn
<1> QED
  BY <1>1, <1>2

\* What was counted is still enough.
LEMMA CountsStay ==
    ASSUME CountsIInv, BookIInv', NothingMore
    PROVE  CountsIInv'
<1>1. BookIInv
  BY DEF CountsIInv
<1>2. ASSUME NEW a \in Accounts PROVE IsFiniteSet(Held(a)')
  <2>1. IsFiniteSet(Held(a)) /\ Held(a)' \subseteq Held(a)
    BY <1>1, NothingMoreHeld DEF CountsIInv
  <2> QED
    BY <2>1, FS_Subset
<1>3. ASSUME NEW x \in Rfqs, Quoting(x)'
      PROVE  Against(x)' \subseteq counted'[x] /\ IsFiniteSet(counted'[x])
  BY <1>1, <1>3, NothingMoreHeld DEF CountsIInv, CountedOK, NothingMore
<1> QED
  BY <1>2, <1>3 DEF CountsIInv, CountedOK

\* And on the same cash everything stays paid for.
LEMMA NothingAdded ==
    ASSUME CountsIInv, NothingMore, NEW a \in Accounts, PaidFor(a), cash'[a] = cash[a],
           \A x \in Rfqs : job'[x] = "funded" => job[x] = "funded"
    PROVE  PaidFor(a)'
<1>1. BookIInv
  BY DEF CountsIInv
<1>2. CoveredOK(a)'
  BY <1>1, NothingMoreHeld, LessIsCovered DEF PaidFor
<1>3. ASSUME NEW x \in Rfqs, job'[x] = "funded", AccountOf[offer'[x]] = a PROVE FundedOK(x)'
  <2>1. Quoting(x)' /\ offer'[x] = offer[x] /\ job[x] = "funded"
    BY <1>3 DEF Quoting, NothingMore
  <2> QED
    BY <1>1, <1>3, <2>1, NothingMoreHeld, LessIsFunded DEF PaidFor
<1> QED
  BY <1>2, <1>3 DEF PaidFor

\* A match that succeeded stays so: no best quote is replaced after the close,
\* and no transaction leaves its outcome.
LEMMA MatchStays ==
    ASSUME BookIInv, NEW r \in Rfqs, RfqStep(r), NEW q \in Quotes, MatchSucceeded(q)
    PROVE  MatchSucceeded(q)'
<1> DEFINE x == RfqOf[q]
<1>0. /\ x \in Rfqs /\ x \in Ops /\ best[x] = q /\ chain[x] = "success"
      /\ status[x] \notin {"none", "open"}
  BY AuctionAssumption, RfqsAreOps, PartsOf DEF MatchSucceeded, RecordOK, Unsent
<1>1. best'[x] = q
  <2>1. CASE x # r
    BY <1>0, <2>1, StepIsLocal DEF OnlyAt
  <2>2. CASE x = r
    <3>1. status[r] # "open"
      BY <1>0, <2>2
    <3>2. best' = best
      BY <3>1
         DEF RfqStep, OpenRfq, QuoteHandler, QuoteFunded, QuoteRejected, QuoteAdmitted,
             AcceptStart, AcceptHandler, AcceptLate, AcceptInvalid, AcceptCommit, AcceptPutFails,
             HashPersisted, HashPutFails, Settle, Rejected, RejectedPutFails, Ambiguous, Timer,
             CloseAuction, ExpireAccept, GetRfq, Reconciliation, ReconcileMined,
             ReconcileNotMined, ReconcileExpiredUnused, ReconcileInconclusive, Recovery,
             RecoverOpen, RecoverClosed, RecoverExecuting, SubmitterStep, Propagate, RfqSucceeds,
             RfqReverts, Clock, WindowEnds, DeadlinePasses, ActionsExpire, ExpireEffect,
             journalVars, auctionVars
    <3> QED
      BY <1>0, <3>2
  <2> QED
    BY <2>1, <2>2
<1>2. chain'[x] = "success"
  <2>1. chain \in [Ops -> ChainState] /\ r \in Ops
    BY BookTypes, RfqsAreOps DEF ControlTypeOK, SubmitterTypeOK
  <2>2. \/ chain' = chain
        \/ /\ chain[r] \in {"none", "handed", "pending"}
           /\ \E s \in ChainState : chain' = [chain EXCEPT ![r] = s]
        \/ \E o \in Ops : chain' = [chain EXCEPT ![o] = IF @ = "none" THEN "handed" ELSE @]
    <3>1. CASE SubmitterStep(r)
      BY <2>1, <3>1
         DEF SubmitterStep, CallStep, Refuse, Begin, HandOver, HashReturns, SendFails,
             ReceiptArrives, ReceiptLost, LatchHash
    <3>2. CASE Propagate(r) \/ RfqSucceeds(r) \/ RfqReverts(r)
      BY <3>2 DEF Propagate, NodeAccepts, RfqSucceeds, RfqReverts, MineAs, ChainState
    <3>3. CASE ~SubmitterStep(r) /\ ~Propagate(r) /\ ~RfqSucceeds(r) /\ ~RfqReverts(r)
      BY <3>3
         DEF RfqStep, OpenRfq, QuoteHandler, QuoteFunded, QuoteRejected, QuoteAdmitted,
             AcceptStart, AcceptHandler, AcceptLate, AcceptInvalid, AcceptCommit, AcceptPutFails,
             HashPersisted, HashAcknowledged, HashPutFails, LatchHash, Settle, Rejected,
             RejectedPutFails, Ambiguous, Timer, CloseAuction, ExpireAccept, GetRfq,
             Reconciliation, ReconcileMined, ReconcileNotMined, ReconcileExpiredUnused,
             ReconcileInconclusive, Recovery, RecoverOpen, RecoverClosed, RecoverExecuting, Clock,
             WindowEnds, DeadlinePasses, ActionsExpire, Expire, Enqueue, sharedVars, submitterVars
    <3> QED
      BY <3>1, <3>2, <3>3
  <2> QED
    BY <1>0, <2>1, <2>2
<1> QED
  BY <1>0, <1>1, <1>2 DEF MatchSucceeded

\* Only an admission adds to what an RFQ holds.
LEMMA ShareShrinks ==
    ASSUME BookIInv, NEW r \in Rfqs, RfqStep(r), ~QuoteAdmitted(r), NEW x \in Rfqs
    PROVE  Share(x)' \subseteq Share(x)
<1>1. CASE x # r
  BY <1>1, StepIsLocal DEF OnlyAt, Share, QuotesOn, Winner
<1>2. CASE x = r
  <2>0. /\ status \in [Rfqs -> RfqStatus] /\ best \in [Rfqs -> Quotes \cup {NoQuote}]
        /\ book[r] \in Seq(Quotes)
        /\ job[r] = "executing" => status[r] = "executing"
        /\ recon[r] # "none" => status[r] = "executing"
    BY BookTypes, PartsOf DEF RecordOK
  <2>1. CASE OpenRfq(r)
    <3>1. book'[r] = <<>> /\ status'[r] = "open"
      BY <2>0, <2>1, PartsOf DEF OpenRfq, BookOK
    <3> QED
      BY <1>2, <3>1 DEF Share, QuotesOn, ToSet
  <2>2. CASE status[r] = "open" /\ CloseEffect(r)
    <3>1. SelectBestQuote(book[r]) \in QuotesOn(r) \cup {NoQuote}
      BY <2>0, BestIsOnBook DEF QuotesOn
    <3> QED
      BY <1>2, <2>0, <2>2, <3>1 DEF CloseEffect, Share, QuotesOn, Winner
  <2>3. CASE ExpireEffect(r)
    BY <1>2, <2>0, <2>3 DEF ExpireEffect, Share
  <2>4. CASE \E s \in {"executed", "failed"} : status' = [status EXCEPT ![r] = s]
    BY <1>2, <2>0, <2>4 DEF Share
  <2>5. CASE /\ status[r] \in {"closed", "executing"}
             /\ \E s \in {"closed", "executing"} : status' = [status EXCEPT ![r] = s]
             /\ best' = best
    BY <1>2, <2>0, <2>5 DEF Share, Winner
  <2>6. CASE UNCHANGED <<status, best, book>>
    BY <1>2, <2>6 DEF Share, QuotesOn, Winner
  <2>7. CASE QuoteHandler(r) \/ AcceptStart(r) \/ Timer(r)
    BY <2>2, <2>3, <2>6, <2>7
       DEF QuoteHandler, QuoteFunded, QuoteRejected, AcceptStart, Timer, CloseAuction,
           ExpireAccept, journalVars
  <2>8. CASE AcceptHandler(r)
    BY <2>0, <2>3, <2>4, <2>5, <2>6, <2>8
       DEF AcceptHandler, AcceptLate, AcceptInvalid, AcceptCommit, AcceptPutFails, HashPersisted,
           HashPutFails, Settle, Rejected, RejectedPutFails, Ambiguous, Terminalize, MinedAs,
           journalVars
  <2>9. CASE GetRfq(r) \/ Reconciliation(r) \/ Recovery(r)
    BY <2>2, <2>3, <2>4, <2>6, <2>9
       DEF GetRfq, Reconciliation, ReconcileMined, ReconcileNotMined, ReconcileExpiredUnused,
           ReconcileInconclusive, Recovery, RecoverOpen, RecoverClosed, RecoverExecuting,
           Terminalize, MinedAs, journalVars
  <2>10. CASE SubmitterStep(r) \/ Propagate(r) \/ RfqSucceeds(r) \/ RfqReverts(r) \/ Clock(r)
    BY <2>6, <2>10
       DEF SubmitterStep, Propagate, RfqSucceeds, RfqReverts, Clock, WindowEnds, DeadlinePasses,
           ActionsExpire, auctionVars, journalVars
  <2> QED
    BY <2>1, <2>7, <2>8, <2>9, <2>10 DEF RfqStep
<1> QED
  BY <1>1, <1>2

\* Only an admission adds to what holds cash, and only the start of a quote
\* sums what is reserved.
LEMMA RfqNothingMore ==
    ASSUME BookIInv, NEW r \in Rfqs, RfqStep(r), ~QuoteAdmitted(r)
    PROVE  NothingMore
<1>1. \A x \in Rfqs : Share(x)' \subseteq Share(x)
  BY ShareShrinks
<1>2. \A q \in Quotes : MatchSucceeded(q) => MatchSucceeded(q)'
  BY MatchStays
<1>3. book' = book
  BY DEF RfqStep, OpenRfq, QuoteHandler, QuoteFunded, QuoteRejected, AcceptStart, AcceptHandler, AcceptLate,
         AcceptInvalid, AcceptCommit, AcceptPutFails, HashPersisted, HashPutFails, Settle,
         Rejected, RejectedPutFails, Ambiguous, Timer, CloseAuction, ExpireAccept, GetRfq,
         Reconciliation, ReconcileMined, ReconcileNotMined, ReconcileExpiredUnused,
         ReconcileInconclusive, Recovery, RecoverOpen, RecoverClosed, RecoverExecuting,
         SubmitterStep, Propagate, RfqSucceeds, RfqReverts, Clock, WindowEnds, DeadlinePasses, ActionsExpire,
         CloseEffect, ExpireEffect, journalVars, auctionVars
<1>4. \/ job'[r] \notin {"quoting", "funded"}
      \/ UNCHANGED <<job, offer, counted>>
      \/ job[r] = "quoting" /\ UNCHANGED <<offer, counted>>
  BY BookTypes
     DEF RfqStep, OpenRfq, QuoteHandler, QuoteFunded, QuoteRejected, AcceptStart, AcceptHandler, AcceptLate,
         AcceptInvalid, AcceptCommit, AcceptPutFails, HashPersisted, HashPutFails, Settle,
         Rejected, RejectedPutFails, Ambiguous, Timer, CloseAuction, ExpireAccept, GetRfq,
         Reconciliation, ReconcileMined, ReconcileNotMined, ReconcileExpiredUnused,
         ReconcileInconclusive, Recovery, RecoverOpen, RecoverClosed, RecoverExecuting,
         SubmitterStep, Propagate, RfqSucceeds, RfqReverts, Clock, WindowEnds, DeadlinePasses, ActionsExpire,
         LeaveHandler, HandlerReturns, handlerVars, auctionVars
<1>5. ASSUME NEW x \in Rfqs, Quoting(x)'
      PROVE  Quoting(x) /\ offer'[x] = offer[x] /\ counted'[x] = counted[x]
  BY <1>4, <1>5, StepIsLocal DEF OnlyAt, Quoting
<1> QED
  BY <1>1, <1>2, <1>3, <1>5 DEF NothingMore

\* Steps of an RFQ that are not about the funding of a quote.
LEMMA QuietNothingMore ==
    ASSUME BookIInv, NEW r \in Rfqs, RfqStep(r),
           ~QuoteAdmitted(r), ~QuoteFunded(r), ~RfqSucceeds(r)
    PROVE  /\ NothingMore /\ UNCHANGED cash
           /\ \A x \in Rfqs : job'[x] = "funded" => job[x] = "funded"
<1>1. cash' = cash
  BY DEF RfqStep, OpenRfq, QuoteHandler, QuoteRejected, AcceptStart, AcceptHandler, AcceptLate,
         AcceptInvalid, AcceptCommit, AcceptPutFails, HashPersisted, HashPutFails, Settle,
         Rejected, RejectedPutFails, Ambiguous, Timer, CloseAuction, ExpireAccept, GetRfq,
         Reconciliation, ReconcileMined, ReconcileNotMined, ReconcileExpiredUnused,
         ReconcileInconclusive, Recovery, RecoverOpen, RecoverClosed, RecoverExecuting,
         SubmitterStep, Propagate, RfqReverts, Clock, WindowEnds, DeadlinePasses, ActionsExpire,
         fundsVars, sharedVars
<1>2. job'[r] \notin {"quoting", "funded"} \/ UNCHANGED <<job, offer, counted>>
  BY BookTypes
     DEF RfqStep, OpenRfq, QuoteHandler, QuoteRejected, AcceptStart, AcceptHandler, AcceptLate,
         AcceptInvalid, AcceptCommit, AcceptPutFails, HashPersisted, HashPutFails, Settle,
         Rejected, RejectedPutFails, Ambiguous, Timer, CloseAuction, ExpireAccept, GetRfq,
         Reconciliation, ReconcileMined, ReconcileNotMined, ReconcileExpiredUnused,
         ReconcileInconclusive, Recovery, RecoverOpen, RecoverClosed, RecoverExecuting,
         SubmitterStep, Propagate, RfqReverts, Clock, WindowEnds, DeadlinePasses, ActionsExpire,
         LeaveHandler, HandlerReturns, handlerVars, auctionVars
<1>3. \A x \in Rfqs : job'[x] = "funded" => job[x] = "funded"
  BY <1>2, StepIsLocal DEF OnlyAt
<1> QED
  BY <1>1, <1>3, RfqNothingMore

\* A quote's handler sums what is reserved.
LEMMA QuoteStartCounts ==
    ASSUME CountsIInv, BookIInv', NEW q \in Quotes, QuoteStart(q)
    PROVE  /\ CountsIInv'
           /\ \A a : Owed(a)' = Owed(a)
           /\ \A x \in Rfqs : job'[x] = "funded" =>
                  job[x] = "funded" /\ offer'[x] = offer[x] /\ Against(x)' = Against(x)
<1> DEFINE r == RfqOf[q]
<1>0. BookIInv /\ r \in Rfqs /\ AccountOf[q] \in Accounts /\ phase = "serving" /\ todo = {}
  BY AuctionAssumption, PartsOf DEF CountsIInv, QuoteStart, Serving
<1>1. /\ UNCHANGED <<status, best, book, chain, reserved>>
      /\ job' = [job EXCEPT ![r] = "quoting"] /\ offer' = [offer EXCEPT ![r] = q]
      /\ counted' = [counted EXCEPT ![r] = ReservedFor(AccountOf[q], Prior(q))]
  BY DEF QuoteStart, journalVars, submitterVars
<1>2. \A x : Share(x)' = Share(x) /\ \A p : MatchSucceeded(p)' <=> MatchSucceeded(p)
  BY <1>1 DEF Share, QuotesOn, Winner, MatchSucceeded
<1>3. \A a : Held(a)' = Held(a) /\ Owed(a)' = Owed(a)
  BY <1>2 DEF Held, Owed
<1>4. \A p : Prior(p)' = Prior(p)
  BY <1>1 DEF Prior, QuotesOn
<1>5. ASSUME NEW x \in Rfqs, x # r
      PROVE  /\ job'[x] = job[x] /\ offer'[x] = offer[x] /\ counted'[x] = counted[x]
             /\ Against(x)' = Against(x)
  <2>1. job'[x] = job[x] /\ offer'[x] = offer[x] /\ counted'[x] = counted[x]
    BY <1>0, <1>1, <1>5, BookTypes
  <2> QED
    BY <1>3, <1>4, <2>1 DEF Against
<1>6. job'[r] = "quoting" /\ offer'[r] = q /\ counted'[r] = ReservedFor(AccountOf[q], Prior(q))
  BY <1>0, <1>1, BookTypes
<1>7. CountedOK(r)'
  <2>1. Against(r)' = Owed(AccountOf[q]) \ Prior(q)
    BY <1>3, <1>4, <1>6 DEF Against
  <2>2. \A p \in Quotes : p \in reserved <=> p \in Share(RfqOf[p])
    BY <1>0, AuctionAssumption DEF BookIInv, ReservedOK, Up
  <2>3. ReservedFor(AccountOf[q], Prior(q)) = Held(AccountOf[q]) \ Prior(q)
    BY <1>0, <2>2, BookTypes DEF ReservedFor, Held
  <2>4. IsFiniteSet(ReservedFor(AccountOf[q], Prior(q)))
    BY <1>0, <2>3, FS_Subset DEF CountsIInv
  <2>5. Owed(AccountOf[q]) \ Prior(q) \subseteq ReservedFor(AccountOf[q], Prior(q))
    BY <2>3 DEF Owed
  <2> QED
    BY <1>6, <2>1, <2>4, <2>5 DEF CountedOK
<1>8. CountsIInv'
  BY <1>3, <1>5, <1>7 DEF CountsIInv, CountedOK, Quoting
<1> QED
  BY <1>3, <1>5, <1>6, <1>8

\* It has not read the cash.
LEMMA QuoteStartPaid ==
    ASSUME CountsIInv, BookIInv', NEW q \in Quotes, QuoteStart(q), NEW a \in Accounts, PaidFor(a)
    PROVE  PaidFor(a)'
<1>1. UNCHANGED cash
  BY DEF QuoteStart
<1>2. CoveredOK(a)'
  BY <1>1, QuoteStartCounts, LessIsCovered DEF PaidFor
<1>3. ASSUME NEW x \in Rfqs, job'[x] = "funded", AccountOf[offer'[x]] = a PROVE FundedOK(x)'
  <2>1. job[x] = "funded" /\ offer'[x] = offer[x] /\ Against(x)' = Against(x)
    BY <1>3, QuoteStartCounts
  <2> QED
    BY <1>1, <1>3, <2>1 DEF PaidFor, FundedOK
<1> QED
  BY <1>2, <1>3 DEF PaidFor

\* A cancelled quote holds nothing any more.
LEMMA CancelNothingMore ==
    ASSUME BookIInv, NEW q \in Quotes, CancelQuote(q)
    PROVE  NothingMore /\ UNCHANGED <<cash, job>>
<1> DEFINE r == RfqOf[q]
<1>0. r \in Rfqs /\ job[r] = "idle"
  BY AuctionAssumption DEF CancelQuote, LockFree
<1>1. /\ UNCHANGED <<status, best, cash, chain, job, offer, counted>>
      /\ book' = [book EXCEPT ![r] = Without(book[r], {q})]
  BY DEF CancelQuote, sharedVars, submitterVars, fundsVars, handlerVars
<1>2. ASSUME NEW x \in Rfqs PROVE /\ QuotesOn(x)' \subseteq QuotesOn(x)
                                  /\ x # r => book'[x] = book[x]
  <2>1. ToSet(Without(book[r], {q})) = ToSet(book[r]) \ {q}
    BY <1>0, BookTypes, WithoutTyped
  <2>2. book'[x] = IF x = r THEN Without(book[r], {q}) ELSE book[x]
    BY <1>0, <1>1, BookTypes
  <2> QED
    BY <2>1, <2>2 DEF QuotesOn
<1>3. \A x \in Rfqs : Share(x)' \subseteq Share(x)
  BY <1>1, <1>2 DEF Share, Winner
<1>4. \A p \in Quotes : MatchSucceeded(p) => MatchSucceeded(p)'
  BY <1>1 DEF MatchSucceeded
<1>5. \A x \in Rfqs : Quoting(x)' => /\ Quoting(x)
                                     /\ offer'[x] = offer[x] /\ counted'[x] = counted[x]
                                     /\ book'[x] = book[x]
  BY <1>0, <1>1, <1>2 DEF Quoting
<1> QED
  BY <1>1, <1>3, <1>4, <1>5 DEF NothingMore

\* The cash read covers the quote on top of what was counted.
LEMMA QuoteFundedPays ==
    ASSUME CountsIInv, NEW r \in Rfqs, QuoteFunded(r)
    PROVE  /\ offer[r] \in Quotes /\ RfqOf[offer[r]] = r /\ AccountOf[offer[r]] \in Accounts
           /\ cash[AccountOf[offer[r]]] >= SumCost(Against(r)) + Cost[offer[r]]
           /\ Against(r)' = Against(r) /\ UNCHANGED <<cash, offer>>
           /\ job' = [job EXCEPT ![r] = "funded"]
<1> DEFINE q == offer[r]
<1>0. BookIInv /\ Quoting(r) /\ job[r] = "quoting"
  BY DEF CountsIInv, QuoteFunded, Quoting
<1>1. /\ UNCHANGED <<status, best, book, cash, chain, offer, counted>>
      /\ job' = [job EXCEPT ![r] = "funded"]
      /\ cash[AccountOf[q]] >= SumCost(counted[r]) + Cost[q]
  BY DEF QuoteFunded, CanPay, journalVars, sharedVars, submitterVars, fundsVars
<1>2. Against(r)' = Against(r)
  BY <1>1 DEF Against, Owed, Held, Share, MatchSucceeded, QuotesOn, Winner, Prior
<1>3. Against(r) \subseteq counted[r] /\ IsFiniteSet(counted[r])
  BY <1>0 DEF CountsIInv, CountedOK
<1>4. /\ counted[r] \in SUBSET Quotes /\ AccountOf[q] \in Accounts /\ Cost[q] \in Nat
      /\ q \in Quotes /\ RfqOf[q] = r
  BY <1>0, FundsTyped, BookQuotes, AuctionAssumption
<1>5. /\ SumCost(counted[r]) \in Nat /\ SumCost(Against(r)) \in Nat
      /\ SumCost(Against(r)) <= SumCost(counted[r])
  BY <1>3, <1>4, SumCostMonotone
<1>6. cash[AccountOf[q]] \in Int
  BY <1>0, <1>4, BookTypes DEF DataTypeOK
<1>7. cash[AccountOf[q]] >= SumCost(Against(r)) + Cost[q]
  BY <1>1, <1>4, <1>5, <1>6
<1> QED
  BY <1>1, <1>2, <1>4, <1>7

\* So the quote is funded.
LEMMA QuoteFundedPaid ==
    ASSUME CountsIInv, NEW r \in Rfqs, QuoteFunded(r), NEW a \in Accounts, PaidFor(a)
    PROVE  PaidFor(a)'
<1>0. BookIInv /\ NothingMore
  BY RfqNothingMore DEF CountsIInv, RfqStep, QuoteHandler, QuoteFunded, QuoteAdmitted
<1>1. CoveredOK(a)'
  BY <1>0, NothingMoreHeld, LessIsCovered, QuoteFundedPays DEF PaidFor
<1>2. FundedOK(r)'
  BY <1>0, QuoteFundedPays DEF FundedOK
<1>3. ASSUME NEW x \in Rfqs, x # r, job'[x] = "funded", AccountOf[offer'[x]] = a
      PROVE  FundedOK(x)'
  <2>1. job'[x] = job[x] /\ UNCHANGED <<cash, offer>>
    BY <1>0, <1>3, QuoteFundedPays, BookTypes
  <2>2. FundedOK(x)
    BY <1>3, <2>1 DEF PaidFor
  <2> QED
    BY <1>0, <2>1, <2>2, NothingMoreHeld, LessIsFunded
<1> QED
  BY <1>1, <1>2, <1>3 DEF PaidFor

\* An admission adds its quote to what its account holds, in the place of the
\* earlier ones.  The account's lock keeps every other quote off it.
LEMMA Admission ==
    ASSUME BookIInv, NEW r \in Rfqs, QuoteAdmitted(r)
    PROVE  \E q \in Quotes, a \in Accounts :
             /\ q = offer[r] /\ RfqOf[q] = r /\ a = AccountOf[q] /\ job'[r] = "idle"
             /\ \A x \in Rfqs : x # r => /\ Share(x)' = Share(x) /\ job'[x] = job[x]
                                         /\ offer'[x] = offer[x] /\ counted'[x] = counted[x]
             /\ Share(r)' = (Share(r) \ Prior(q)) \cup {q}
             /\ \A p \in Prior(q) : RfqOf[p] = r
             /\ \A p : MatchSucceeded(p)' <=> MatchSucceeded(p)
             /\ \A b \in Accounts : b # a => Held(b)' \subseteq Held(b) /\ Owed(b)' \subseteq Owed(b)
             /\ Held(a)' \subseteq Held(a) \cup {q} /\ Owed(a)' \subseteq Against(r) \cup {q}
             /\ \A x \in Rfqs : x # r /\ Quoting(x) => /\ AccountOf[offer[x]] # a
                                                     /\ Prior(offer[x])' = Prior(offer[x])
<1>a. PICK q \in Quotes : q = offer[r]
  BY BookQuotes DEF QuoteAdmitted, Quoting
<1>b. PICK a \in Accounts : a = AccountOf[q]
  BY AuctionAssumption
<1>0. /\ Quoting(r) /\ job[r] = "funded" /\ q \in Quotes /\ RfqOf[q] = r
      /\ status[r] = "open" /\ a \in Accounts /\ Cost[q] \in Nat
  BY <1>a, BookQuotes, AuctionAssumption DEF QuoteAdmitted, Quoting
<1>1. /\ UNCHANGED <<status, best, chain>>
      /\ book' = [book EXCEPT ![r] = Append(Without(book[r], Prior(q)), q)]
      /\ job' = [job EXCEPT ![r] = "idle"]
      /\ offer' = [offer EXCEPT ![r] = NoQuote] /\ counted' = [counted EXCEPT ![r] = {}]
  BY <1>a DEF QuoteAdmitted, LeaveHandler, submitterVars
<1>2. QuotesOn(r)' = (QuotesOn(r) \ Prior(q)) \cup {q}
  <2>1. Without(book[r], Prior(q)) \in Seq(Quotes)
        /\ ToSet(Without(book[r], Prior(q))) = ToSet(book[r]) \ Prior(q)
    BY <1>0, BookTypes, WithoutTyped
  <2>2. ToSet(Append(Without(book[r], Prior(q)), q)) = ToSet(Without(book[r], Prior(q))) \cup {q}
    BY <1>0, <2>1, AppendTyped
  <2>3. book'[r] = Append(Without(book[r], Prior(q)), q)
    BY <1>0, <1>1, BookTypes
  <2> QED
    BY <2>1, <2>2, <2>3 DEF QuotesOn
<1>3. \A x \in Rfqs : x # r => /\ book'[x] = book[x] /\ Share(x)' = Share(x)
                               /\ job'[x] = job[x] /\ offer'[x] = offer[x]
                               /\ counted'[x] = counted[x]
  BY <1>0, <1>1, BookTypes DEF Share, QuotesOn, Winner
<1>4. Share(r)' = (Share(r) \ Prior(q)) \cup {q}
  BY <1>0, <1>1, <1>2 DEF Share
<1>5. \A p : MatchSucceeded(p)' <=> MatchSucceeded(p)
  BY <1>1 DEF MatchSucceeded
<1>6. \A p \in Prior(q) : RfqOf[p] = r
  BY <1>0, <1>a, BookQuotes
<1>7. ASSUME NEW p \in Quotes
      PROVE  p \in Share(RfqOf[p])' => p = q \/ (p \in Share(RfqOf[p]) /\ p \notin Prior(q))
  BY <1>3, <1>4, <1>6, AuctionAssumption
<1>8. ASSUME NEW b \in Accounts, b # a PROVE Held(b)' \subseteq Held(b) /\ Owed(b)' \subseteq Owed(b)
  BY <1>b, <1>5, <1>7, <1>8 DEF Held, Owed
<1>9. Held(a)' \subseteq Held(a) \cup {q} /\ Owed(a)' \subseteq (Owed(a) \ Prior(q)) \cup {q}
  BY <1>5, <1>7 DEF Held, Owed
<1>10. ASSUME NEW x \in Rfqs, x # r, Quoting(x)
       PROVE  AccountOf[offer[x]] # a /\ Prior(offer[x])' = Prior(offer[x])
  <2>1. offer[x] \in Quotes /\ RfqOf[offer[x]] = x
    BY <1>10, BookQuotes
  <2>2. lockedBy[AccountOf[offer[x]]] = x /\ lockedBy[a] = r
    BY <1>0, <1>a, <1>b, <1>10, PartsOf DEF OfferOK
  <2> QED
    BY <1>3, <1>10, <2>1, <2>2 DEF Prior, QuotesOn
<1>11. job'[r] = "idle" /\ Against(r) = Owed(a) \ Prior(q)
  BY <1>0, <1>1, <1>a, <1>b, BookTypes DEF Against
<1> QED
  BY <1>0, <1>3, <1>4, <1>5, <1>6, <1>8, <1>9, <1>10, <1>11, <1>a, <1>b

\* So what the others counted is still enough.
LEMMA QuoteAdmittedCounts ==
    ASSUME CountsIInv, BookIInv', NEW r \in Rfqs, QuoteAdmitted(r)
    PROVE  /\ CountsIInv'
           /\ \A x \in Rfqs : Quoting(x)' => /\ x # r /\ Quoting(x) /\ job'[x] = job[x]
                                             /\ offer'[x] = offer[x]
                                             /\ Against(x)' \subseteq Against(x)
<1>0. BookIInv
  BY DEF CountsIInv
<1>1. PICK q \in Quotes, a \in Accounts :
             /\ job'[r] = "idle"
             /\ \A x \in Rfqs : x # r => /\ job'[x] = job[x]
                                         /\ offer'[x] = offer[x] /\ counted'[x] = counted[x]
             /\ \A b \in Accounts : b # a => Held(b)' \subseteq Held(b) /\ Owed(b)' \subseteq Owed(b)
             /\ Held(a)' \subseteq Held(a) \cup {q}
             /\ \A x \in Rfqs : x # r /\ Quoting(x) => /\ AccountOf[offer[x]] # a
                                                     /\ Prior(offer[x])' = Prior(offer[x])
  BY <1>0, Admission
<1>2. ASSUME NEW x \in Rfqs, Quoting(x)'
      PROVE  /\ x # r /\ Quoting(x) /\ job'[x] = job[x] /\ offer'[x] = offer[x]
             /\ counted'[x] = counted[x] /\ Against(x)' \subseteq Against(x)
  <2>1. /\ x # r /\ Quoting(x) /\ job'[x] = job[x] /\ offer'[x] = offer[x]
        /\ counted'[x] = counted[x]
    BY <1>1, <1>2 DEF Quoting
  <2>2. AccountOf[offer[x]] \in Accounts
    BY <1>0, <2>1, BookQuotes, AuctionAssumption
  <2>3. Owed(AccountOf[offer[x]])' \subseteq Owed(AccountOf[offer[x]])
    <3>1. PICK b \in Accounts : b = AccountOf[offer[x]]
      BY <2>2
    <3>2. b # a /\ offer'[x] = offer[x]
      BY <1>1, <2>1, <3>1
    <3>3. Owed(b)' \subseteq Owed(b)
      BY <1>1, <3>2
    <3> QED
      BY <3>1, <3>2, <3>3
  <2> QED
    BY <1>1, <2>1, <2>3 DEF Against
<1>3. ASSUME NEW b \in Accounts PROVE IsFiniteSet(Held(b)')
  <2>1. IsFiniteSet(Held(b))
    BY DEF CountsIInv
  <2>2. IsFiniteSet(Held(b) \cup {q}) /\ Held(b)' \subseteq Held(b) \cup {q}
    BY <1>1, <2>1, FS_AddElement
  <2> QED
    BY <2>2, FS_Subset
<1>4. \A x \in Rfqs : CountedOK(x)'
  BY <1>2 DEF CountsIInv, CountedOK
<1> QED
  BY <1>2, <1>3, <1>4 DEF CountsIInv

\* And the admitted quote is paid for.
LEMMA QuoteAdmittedPaid ==
    ASSUME CountsIInv, BookIInv', NEW r \in Rfqs, QuoteAdmitted(r), NEW b \in Accounts, PaidFor(b)
    PROVE  PaidFor(b)'
<1>0. BookIInv /\ UNCHANGED cash
  BY DEF CountsIInv, QuoteAdmitted
<1>1. PICK q \in Quotes, a \in Accounts :
             /\ q = offer[r] /\ a = AccountOf[q]
             /\ \A x \in Accounts : x # a => Owed(x)' \subseteq Owed(x)
             /\ Owed(a)' \subseteq Against(r) \cup {q}
  BY <1>0, Admission
<1>2. ASSUME a = b PROVE CoveredOK(a)'
  <2>1. job[r] = "funded" /\ Quoting(r) /\ Cost[q] \in Nat
    BY AuctionAssumption DEF QuoteAdmitted, Quoting
  <2>2. /\ Against(r) \in SUBSET Quotes
        /\ IsFiniteSet(Against(r)) /\ SumCost(Against(r)) \in Nat /\ cash[a] \in Int
        /\ cash[a] >= SumCost(Against(r)) + Cost[q]
    BY <1>1, <1>2, <2>1, FundsTyped DEF PaidFor, FundedOK
  <2>3. SumCost(Against(r) \cup {q}) <= SumCost(Against(r)) + Cost[q]
    BY <2>2, SumCostMonotone
  <2>4. /\ IsFiniteSet(Against(r) \cup {q}) /\ Against(r) \cup {q} \in SUBSET Quotes
        /\ Owed(a)' \in SUBSET (Against(r) \cup {q})
    BY <1>1, <2>2, FS_AddElement
  <2>5. /\ SumCost(Owed(a)') <= SumCost(Against(r) \cup {q})
        /\ SumCost(Owed(a)') \in Nat /\ SumCost(Against(r) \cup {q}) \in Nat
    BY <2>4, SumCostMonotone
  <2>6. cash[a] >= SumCost(Owed(a)')
    BY <2>1, <2>2, <2>3, <2>5
  <2> QED
    BY <1>0, <2>6 DEF CoveredOK
<1>3. CoveredOK(b)'
  BY <1>0, <1>1, <1>2, LessIsCovered DEF PaidFor
<1>4. ASSUME NEW x \in Rfqs, job'[x] = "funded", AccountOf[offer'[x]] = b PROVE FundedOK(x)'
  <2>1. Quoting(x)'
    BY <1>4 DEF Quoting
  <2>2. /\ job[x] = "funded" /\ offer'[x] = offer[x] /\ Against(x)' \subseteq Against(x)
    BY <1>4, <2>1, QuoteAdmittedCounts
  <2> QED
    BY <1>0, <1>4, <2>2, LessIsFunded DEF PaidFor
<1> QED
  BY <1>3, <1>4 DEF PaidFor

\* A match debits what its quote reserved, and the quote is owed no more.
LEMMA MatchDebits ==
    ASSUME BookIInv, NEW r \in Rfqs, RfqSucceeds(r)
    PROVE  \E w \in Quotes, a \in Accounts :
             /\ RfqOf[w] = r /\ a = AccountOf[w] /\ w \in Winner(r)
             /\ status[r] = "executing" /\ chain[r] = "pending" /\ ~expired[r]
             /\ UNCHANGED <<status, best, book, job, offer, counted>>
             /\ w \in Owed(a) /\ \A b : Held(b)' = Held(b) /\ Owed(b)' \subseteq Owed(b) \ {w}
             /\ MatchSucceeded(w)' /\ ~MatchSucceeded(w)
             /\ \A p \in Quotes : MatchSucceeded(p) => MatchSucceeded(p)'
             /\ cash'[a] = cash[a] - Cost[w] /\ \A b \in Accounts : b # a => cash'[b] = cash[b]
<1>0. ControlTypeOK /\ DataTypeOK /\ r \in Ops
  BY BookTypes, RfqsAreOps
<1>1. PICK w \in Winner(r) : Debit(AccountOf[w], Cost[w])
  BY DEF RfqSucceeds
<1> DEFINE a == AccountOf[w]
<1>2. /\ UNCHANGED <<status, best, book, job, offer, counted>>
      /\ chain[r] = "pending" /\ ~expired[r] /\ chain' = [chain EXCEPT ![r] = "success"]
      /\ cash' = [cash EXCEPT ![a] = @ - Cost[w]]
  BY <1>1 DEF RfqSucceeds, MineAs, auctionVars, journalVars, handlerVars, Debit
<1>3. w \in Quotes /\ RfqOf[w] = r /\ best[r] = w /\ a \in Accounts /\ Cost[w] \in Nat
  BY <1>0, BookQuotes, AuctionAssumption DEF Winner
<1> HIDE DEF a
<1>4. status[r] = "executing"
  BY <1>0, <1>2, PartsOf DEF RecordOK, Unsent, ControlTypeOK, RfqStatus
<1>5. chain'[r] = "success" /\ \A o \in Ops : o # r => chain'[o] = chain[o]
  BY <1>0, <1>2 DEF ControlTypeOK, SubmitterTypeOK
<1>6. \A x : Share(x)' = Share(x) /\ Prior(x)' = Prior(x)
  BY <1>2 DEF Share, QuotesOn, Winner, Prior
<1>7. MatchSucceeded(w)' /\ ~MatchSucceeded(w)
      /\ \A p \in Quotes : MatchSucceeded(p) => MatchSucceeded(p)'
  BY <1>2, <1>3, <1>5, AuctionAssumption, RfqsAreOps DEF MatchSucceeded
<1>8. w \in Owed(a)
  BY <1>3, <1>4, <1>7 DEF Owed, Held, Share, Winner, a
<1>9. \A b : Held(b)' = Held(b) /\ Owed(b)' \subseteq Owed(b) \ {w}
  BY <1>6, <1>7 DEF Held, Owed
<1>10. cash'[a] = cash[a] - Cost[w] /\ \A b \in Accounts : b # a => cash'[b] = cash[b]
  BY <1>0, <1>2, <1>3 DEF DataTypeOK
<1> QED
  BY <1>1, <1>2, <1>3, <1>4, <1>7, <1>8, <1>9, <1>10 DEF a

\* So what is still owed stays paid for, and what a handler has funded.
LEMMA RfqSucceedsPaid ==
    ASSUME CountsIInv, NEW r \in Rfqs, RfqSucceeds(r), NEW b \in Accounts, PaidFor(b)
    PROVE  PaidFor(b)'
<1>0. BookIInv
  BY DEF CountsIInv
<1>1. PICK w \in Quotes, a \in Accounts :
             /\ RfqOf[w] = r /\ a = AccountOf[w]
             /\ status[r] = "executing"
             /\ UNCHANGED <<status, best, book, job, offer, counted>>
             /\ w \in Owed(a) /\ \A x : Held(x)' = Held(x) /\ Owed(x)' \subseteq Owed(x) \ {w}
             /\ cash'[a] = cash[a] - Cost[w] /\ \A x \in Accounts : x # a => cash'[x] = cash[x]
  BY <1>0, MatchDebits
<1>2. Cost[w] \in Nat /\ \A x : Prior(x)' = Prior(x)
  BY <1>1, AuctionAssumption DEF Prior, QuotesOn
<1>3. ASSUME a = b PROVE CoveredOK(a)'
  <2>1. /\ IsFiniteSet(Owed(a)) /\ Owed(a) \in SUBSET Quotes /\ cash[a] \in Int
        /\ cash[a] >= SumCost(Owed(a))
    BY <1>3, FundsTyped DEF PaidFor, CoveredOK
  <2>2. /\ SumCost(Owed(a)) = Cost[w] + SumCost(Owed(a) \ {w})
    BY <1>1, <2>1, SumCostMonotone
  <2>3. IsFiniteSet(Owed(a) \ {w}) /\ Owed(a) \ {w} \in SUBSET Quotes
        /\ Owed(a)' \in SUBSET (Owed(a) \ {w})
    BY <1>1, <2>1, FS_Subset
  <2>4. /\ SumCost(Owed(a)') <= SumCost(Owed(a) \ {w})
        /\ SumCost(Owed(a)') \in Nat /\ SumCost(Owed(a) \ {w}) \in Nat
    BY <2>3, SumCostMonotone
  <2>5. cash'[a] >= SumCost(Owed(a)')
    BY <1>1, <1>2, <2>1, <2>2, <2>4
  <2> QED
    BY <2>5 DEF CoveredOK
<1>4. CoveredOK(b)'
  <2>1. b # a => cash'[b] = cash[b] /\ Owed(b)' \subseteq Owed(b)
    BY <1>1
  <2> QED
    BY <1>3, <2>1, LessIsCovered DEF PaidFor
<1>5. ASSUME NEW x \in Rfqs, job'[x] = "funded", AccountOf[offer'[x]] = b PROVE FundedOK(x)'
  <2>0. /\ job[x] = "funded" /\ Quoting(x) /\ offer' = offer /\ AccountOf[offer[x]] = b
        /\ FundedOK(x)
    BY <1>1, <1>5 DEF Quoting, PaidFor
  <2>1. Against(x)' \subseteq Against(x) \ {w}
    BY <1>1, <1>2 DEF Against
  <2>2. CASE b # a
    <3>1. cash'[AccountOf[offer[x]]] = cash[AccountOf[offer[x]]]
      BY <1>1, <2>0, <2>2
    <3> QED
      BY <2>0, <2>1, <3>1, LessIsFunded
  <2>3. CASE b = a
    <3> SUFFICES cash'[a] >= SumCost(Against(x)') + Cost[offer[x]]
      BY <2>0, <2>3 DEF FundedOK
    <3>1. /\ Against(x) \in SUBSET Quotes /\ IsFiniteSet(Against(x)) /\ Cost[offer[x]] \in Nat
          /\ SumCost(Against(x)) \in Nat /\ cash[a] \in Int
      BY <2>0, FundsTyped
    <3>2. cash[a] >= SumCost(Against(x)) + Cost[offer[x]]
      BY <2>0, <2>3 DEF FundedOK
    <3>3. w \in Against(x)
      <4>1. status[x] = "open" /\ \A p \in Prior(offer[x]) : RfqOf[p] = x
        BY <1>0, <2>0, PartsOf, BookQuotes DEF OfferOK
      <4> QED
        BY <1>1, <2>0, <2>3, <4>1 DEF Against
    <3>4. SumCost(Against(x)) = Cost[w] + SumCost(Against(x) \ {w})
      BY <3>1, <3>3, SumCostMonotone
    <3>5. /\ IsFiniteSet(Against(x) \ {w}) /\ Against(x) \ {w} \in SUBSET Quotes
          /\ Against(x)' \in SUBSET (Against(x) \ {w})
      BY <2>1, <3>1, FS_Subset
    <3>6. /\ SumCost(Against(x)') <= SumCost(Against(x) \ {w})
          /\ SumCost(Against(x)') \in Nat /\ SumCost(Against(x) \ {w}) \in Nat
      BY <3>5, SumCostMonotone
    <3> QED
      BY <1>1, <1>2, <3>1, <3>2, <3>4, <3>6
  <2> QED
    BY <2>2, <2>3
<1> QED
  BY <1>4, <1>5 DEF PaidFor

\* Crashes, restarts and the first request: only the handlers are lost.
LEMMA ProcessNothingMore ==
    ASSUME \/ Crash \/ UNCHANGED vars
           \/ /\ (\E records \in SUBSET Ops : ProcessStarts(records)) \/ StartServing
              /\ UNCHANGED auctionVars
    PROVE  /\ NothingMore /\ UNCHANGED cash
           /\ \A x \in Rfqs : job'[x] = "funded" => job[x] = "funded"
<1>1. UNCHANGED <<cash, status, best, book>>
  BY DEF Crash, ProcessStops, AuctionForgets, ProcessStarts, StartServing, vars,
         auctionVars, journalVars, timeVars, timerVars, handlerVars, sharedVars, fundsVars,
         processVars
<1>2. \A x : Share(x)' = Share(x)
  BY <1>1 DEF Share, QuotesOn, Winner
<1>3. \A q \in Quotes : MatchSucceeded(q) => MatchSucceeded(q)'
  <2>1. ASSUME NEW o \in Ops, chain[o] = "success" PROVE chain'[o] = "success"
    BY <2>1 DEF Crash, ProcessStops, SubmitterCrash, ProcessStarts,
                StartServing, vars, submitterVars, sharedVars
  <2> QED
    BY <1>1, <2>1, AuctionAssumption, RfqsAreOps DEF MatchSucceeded
<1>4. ASSUME NEW x \in Rfqs
      PROVE  /\ Quoting(x)' => /\ Quoting(x) /\ offer'[x] = offer[x] /\ counted'[x] = counted[x]
                               /\ book'[x] = book[x]
             /\ job'[x] = "funded" => job[x] = "funded"
  <2>1. CASE Crash
    BY <2>1 DEF Crash, AuctionForgets, Quoting
  <2>2. CASE UNCHANGED auctionVars
    BY <2>2 DEF auctionVars, journalVars, handlerVars, Quoting
  <2> QED
    BY <2>1, <2>2 DEF vars
<1> QED
  BY <1>1, <1>2, <1>3, <1>4 DEF NothingMore

\* At the start nothing is reserved.
LEMMA CountsInitial ==
    ASSUME BookIInv, AuctionInit
    PROVE  CountsIInv /\ \A a \in Accounts : Owed(a) = {}
<1>1. \A r \in Rfqs : CountedOK(r)
  BY DEF AuctionInit, CountedOK, Quoting
<1>2. ASSUME NEW a \in Accounts PROVE Held(a) = {}
  <2>1. \A r \in Rfqs : Share(r) = {}
    BY DEF AuctionInit, Share
  <2> QED
    BY <2>1, AuctionAssumption DEF Held
<1>3. \A a \in Accounts : IsFiniteSet(Held(a)) /\ Owed(a) = {}
  BY <1>2, FS_EmptySet DEF Owed
<1> QED
  BY <1>1, <1>3 DEF CountsIInv

\* And a maker without debt can pay for it.
LEMMA FundsInitial ==
    ASSUME \A a \in Accounts : InitialCash[a] >= 0, Init
    PROVE  FundsIInv
<1>1. CountsIInv /\ \A a \in Accounts : Owed(a) = {}
  BY BookInitial, CountsInitial DEF Init
<1>2. \A r \in Rfqs : job[r] # "funded"
  BY DEF Init, AuctionInit
<1>3. \A a \in Accounts : CoveredOK(a)
  BY <1>1, SumCostOfNone DEF Init, ProcessInit, CoveredOK
<1> QED
  BY <1>1, <1>2, <1>3 DEF FundsIInv, PaidFor

\* Every step of the RFQ engine keeps what its handlers count.
LEMMA RfqStepKeepsCounts ==
    ASSUME CountsIInv, BookIInv',
           \/ \E r \in Rfqs : RfqStep(r)
           \/ \E q \in Quotes : QuoteStart(q) \/ CancelQuote(q)
    PROVE  CountsIInv'
<1>1. BookIInv
  BY DEF CountsIInv
<1>2. ASSUME NEW r \in Rfqs, RfqStep(r) PROVE CountsIInv'
  BY <1>1, <1>2, QuoteAdmittedCounts, RfqNothingMore, CountsStay
<1> QED
  BY <1>1, <1>2, QuoteStartCounts, CancelNothingMore, CountsStay

\* And every account that pays for what it owes goes on doing so.
LEMMA RfqStepKeepsPaid ==
    ASSUME CountsIInv, BookIInv', NEW a \in Accounts, PaidFor(a),
           \/ \E r \in Rfqs : RfqStep(r)
           \/ \E q \in Quotes : QuoteStart(q) \/ CancelQuote(q)
    PROVE  PaidFor(a)'
<1>0. BookIInv
  BY DEF CountsIInv
<1>1. ASSUME NEW r \in Rfqs, RfqStep(r) PROVE PaidFor(a)'
  <2>1. CASE QuoteAdmitted(r) \/ QuoteFunded(r) \/ RfqSucceeds(r)
    BY <2>1, QuoteAdmittedPaid, QuoteFundedPaid, RfqSucceedsPaid
  <2>2. CASE ~(QuoteAdmitted(r) \/ QuoteFunded(r) \/ RfqSucceeds(r))
    BY <1>0, <1>1, <2>2, QuietNothingMore, NothingAdded
  <2> QED
    BY <2>1, <2>2
<1>2. ASSUME NEW q \in Quotes, QuoteStart(q) \/ CancelQuote(q) PROVE PaidFor(a)'
  BY <1>0, <1>2, QuoteStartPaid, CancelNothingMore, NothingAdded
<1> QED
  BY <1>1, <1>2

\* Every step keeps what is reserved covered.
LEMMA FundsStepKeeps == ExecutorIInv /\ FundsIInv /\ [Next]_vars => FundsIInv'
<1> SUFFICES ASSUME ExecutorIInv, FundsIInv, [Next]_vars PROVE FundsIInv'
  OBVIOUS
<1>0. BookIInv /\ CountsIInv /\ \A a \in Accounts : PaidFor(a)
  BY DEF FundsIInv, CountsIInv
<1>1. BookIInv'
  BY <1>0, BookStepKeeps
<1>2. CASE \/ \E r \in Rfqs : RfqStep(r)
           \/ \E q \in Quotes : QuoteStart(q) \/ CancelQuote(q)
  BY <1>0, <1>1, <1>2, RfqStepKeepsCounts, RfqStepKeepsPaid DEF FundsIInv
<1>3. CASE Crash \/ Restart \/ Serve \/ UNCHANGED vars
  <2>1. Unfinished \in SUBSET Ops
    BY RfqsAreOps DEF Unfinished
  <2>2. /\ NothingMore /\ UNCHANGED cash
        /\ \A x \in Rfqs : job'[x] = "funded" => job[x] = "funded"
    BY <1>3, <2>1, ProcessNothingMore DEF Restart, Serve
  <2> QED
    BY <1>0, <1>1, <2>2, CountsStay, NothingAdded DEF FundsIInv
<1> QED
  BY <1>2, <1>3 DEF Next, Quiescent

\* A maker who starts with no debt can always pay for every cost still
\* reserved on it, in a serving engine, between a crash and the end of
\* recover(), and during it (submitQuoteLocked's order of reads).
THEOREM MakersStaySolvent ==
    ASSUME \A a \in Accounts : InitialCash[a] >= 0
    PROVE  Spec => []Solvent
<1>1. FundsIInv => Solvent
  <2> SUFFICES ASSUME FundsIInv, NEW a \in Accounts
               PROVE  cash[a] >= SumCost({q \in reserved : AccountOf[q] = a /\ ~MatchSucceeded(q)})
    BY DEF Solvent
  <2> DEFINE R == {q \in reserved : AccountOf[q] = a /\ ~MatchSucceeded(q)}
  <2>1. R \subseteq Owed(a)
    <3>1. reserved \in SUBSET Quotes /\ \A q \in Quotes : ReservedOK(q)
      BY BookTypes DEF FundsIInv, CountsIInv, BookIInv
    <3>2. \A q \in reserved : q \in Share(RfqOf[q])
      BY <3>1 DEF ReservedOK
    <3> QED
      BY <3>1, <3>2 DEF Owed, Held
  <2>2. IsFiniteSet(Owed(a)) /\ Owed(a) \in SUBSET Quotes /\ cash[a] >= SumCost(Owed(a))
    <3>1. IsFiniteSet(Held(a)) /\ cash[a] >= SumCost(Owed(a))
      BY DEF FundsIInv, CountsIInv, PaidFor, CoveredOK
    <3> QED
      BY <3>1, FS_Subset DEF Owed, Held
  <2>3. SumCost(R) \in Nat /\ SumCost(Owed(a)) \in Nat /\ SumCost(R) <= SumCost(Owed(a))
    BY <2>1, <2>2, SumCostMonotone
  <2>4. cash[a] \in Int
    BY BookTypes DEF FundsIInv, CountsIInv, DataTypeOK
  <2> QED
    BY <2>2, <2>3, <2>4
<1>2. Init => FundsIInv
  BY FundsInitial
<1> QED
  BY <1>1, <1>2, FundsStepKeeps, ExecutorInvariant, PTL DEF Spec
=============================================================================
