------------------------- MODULE RfqEngine_proofs -------------------------
(***************************************************************************)
(* The two engines in one process.  What each of them keeps alone it also  *)
(* keeps beside the other, for two reasons.  A step of one engine concerns *)
(* one operation of its own: it leaves the calls, the transactions, the    *)
(* latches and the account keys of every other operation alone (Beside).   *)
(* And when a call of one engine passes the executor's guard, no           *)
(* transaction of the other is in the air: the other engine would have     *)
(* latched it, or its call would still be in the queue's first place.      *)
(***************************************************************************)
EXTENDS RfqEngine, AuctionEngine_proofs, WithdrawalEngine_proofs

\* Operations that neither engine knows.
StrangersIdle ==
    \A o \in Ops \ (Rfqs \cup Withdrawals) : wpc[o] = "idle" /\ chain[o] = "none" /\ sends[o] = 0

\* What both engines keep of the process they share.
SharedIInv == CountsIInv /\ WithdrawalIInv /\ StrangersIdle

\* What a step that concerns o leaves to all other operations.
Beside(o) ==
    /\ OthersKept(o)
    /\ phase' = phase
    /\ todo' = todo \/ (phase = "recovering" /\ todo' = todo \ {o})
    /\ \A a \in Accounts : lockedBy[a] \notin {o, Nobody} => lockedBy'[a] = lockedBy[a]

-----------------------------------------------------------------------------
(* A step of one engine, seen from the other. *)

\* The parts of the invariant.
LEMMA SharedParts ==
    ASSUME SharedIInv
    PROVE  /\ CountsIInv /\ BookIInv /\ RfqIInv /\ TypeOK /\ SubmitterTypeOK
           /\ WithdrawalIInv /\ ControlIInv /\ WithdrawalTypeOK /\ StrangersIdle
BY ControlTypes DEF SharedIInv, CountsIInv, BookIInv, RfqIInv, ControlTypeOK, WithdrawalIInv

\* The two engines have no operation in common.
LEMMA Disjoint ==
    /\ \A r \in Rfqs : r \in Ops /\ r \notin Withdrawals /\ r # Nobody
    /\ \A w \in Withdrawals : w \in Ops /\ w \notin Rfqs /\ w # Nobody
BY RfqsAreOps, OpsAndCallers, ServiceAssumption, ProcessAssumption

\* A step of an RFQ takes free account keys only, and gives its own back.
LEMMA RfqStepBeside ==
    ASSUME TypeOK, NEW r \in Rfqs, RfqStep(r)
    PROVE  Beside(r)
<1>0. SubmitterTypeOK /\ lockedBy \in [Accounts -> Ops \cup {Nobody}]
  BY DEF TypeOK, ProcessTypeOK
<1>1. OthersKept(r)
  BY <1>0, RfqStepIsApart
<1>2. /\ phase' = phase
      /\ todo' = todo \/ (phase = "recovering" /\ todo' = todo \ {r})
  <2>1. CASE QuoteHandler(r) \/ AcceptStart(r) \/ AcceptHandler(r)
    BY <2>1 DEF QuoteHandler, QuoteFunded, QuoteRejected, QuoteAdmitted, AcceptStart,
                AcceptHandler, AcceptLate, AcceptInvalid, AcceptCommit, AcceptPutFails,
                HashPersisted, HashPutFails, Settle, Rejected, RejectedPutFails, Ambiguous,
                sharedVars, processVars
  <2>2. CASE OpenRfq(r) \/ Timer(r) \/ GetRfq(r) \/ Reconciliation(r)
    BY <2>2 DEF OpenRfq, Timer, CloseAuction, ExpireAccept, GetRfq, Reconciliation,
                ReconcileMined, ReconcileNotMined, ReconcileExpiredUnused,
                ReconcileInconclusive, sharedVars, processVars
  <2>3. CASE Recovery(r)
    BY <2>3 DEF Recovery, RecoverOpen, RecoverClosed, RecoverExecuting, RecoverTurn, TakeTurn
  <2>4. CASE SubmitterStep(r) \/ Propagate(r) \/ RfqSucceeds(r) \/ RfqReverts(r) \/ Clock(r)
    BY <2>4 DEF SubmitterStep, Propagate, RfqSucceeds, RfqReverts, Clock, WindowEnds,
                DeadlinePasses, ActionsExpire, sharedVars, processVars
  <2> QED
    BY <2>1, <2>2, <2>3, <2>4 DEF RfqStep
<1>3. \/ UNCHANGED lockedBy \/ UnlockAccounts(r)
      \/ \E A \in {AcceptKeys(r)} : AllFree(A) /\ LockAccounts(A, r)
  <2>1. CASE QuoteHandler(r) \/ AcceptStart(r)
    BY <2>1 DEF QuoteHandler, QuoteFunded, QuoteRejected, QuoteAdmitted, AcceptStart,
                LeaveHandler, sharedVars, fundsVars
  <2>2. CASE AcceptHandler(r)
    BY <2>2 DEF AcceptHandler, AcceptLate, AcceptInvalid, AcceptCommit, AcceptPutFails,
                HashPersisted, HashPutFails, Settle, Rejected, RejectedPutFails, Ambiguous,
                LeaveHandler, HandlerReturns, fundsVars
  <2>3. CASE OpenRfq(r) \/ Timer(r) \/ GetRfq(r) \/ Reconciliation(r) \/ Recovery(r)
    BY <2>3 DEF OpenRfq, Timer, CloseAuction, ExpireAccept, GetRfq, Reconciliation,
                ReconcileMined, ReconcileNotMined, ReconcileExpiredUnused, ReconcileInconclusive,
                Recovery, RecoverOpen, RecoverClosed, RecoverExecuting, sharedVars, fundsVars
  <2>4. CASE SubmitterStep(r) \/ Propagate(r) \/ RfqSucceeds(r) \/ RfqReverts(r) \/ Clock(r)
    BY <2>4 DEF SubmitterStep, Propagate, RfqSucceeds, RfqReverts, Clock, WindowEnds,
                DeadlinePasses, ActionsExpire, sharedVars, fundsVars
  <2> QED
    BY <2>1, <2>2, <2>3, <2>4 DEF RfqStep
<1>4. \A a \in Accounts : lockedBy[a] \notin {r, Nobody} => lockedBy'[a] = lockedBy[a]
  BY <1>0, <1>3 DEF UnlockAccounts, AllFree, LockAccounts
<1> QED
  BY <1>1, <1>2, <1>4 DEF Beside

\* So does a quote that starts or is cancelled, for the RFQ it answers.
LEMMA QuoteStepBeside ==
    ASSUME TypeOK, NEW q \in Quotes, QuoteStart(q) \/ CancelQuote(q)
    PROVE  RfqOf[q] \in Rfqs /\ Beside(RfqOf[q])
<1>1. RfqOf[q] \in Rfqs /\ lockedBy \in [Accounts -> Ops \cup {Nobody}]
  BY AuctionAssumption DEF TypeOK, ProcessTypeOK
<1>2. UNCHANGED <<submitterVars, processVars>>
  BY DEF QuoteStart, CancelQuote, sharedVars
<1>3. \/ UNCHANGED lockedBy
      \/ AllFree({AccountOf[q]}) /\ LockAccounts({AccountOf[q]}, RfqOf[q])
  BY DEF QuoteStart, CancelQuote, sharedVars, fundsVars
<1>4. \A a \in Accounts : lockedBy[a] \notin {RfqOf[q], Nobody} => lockedBy'[a] = lockedBy[a]
  BY <1>1, <1>3 DEF AllFree, LockAccounts
<1> QED
  BY <1>1, <1>2, <1>4 DEF Beside, OthersKept, submitterVars, processVars

\* A request of the withdrawal engine keeps the account keys as they are.
LEMMA CallerBeside ==
    ASSUME ControlIInv, NEW c \in Callers, CallerStep(c)
    PROVE  \E w \in Withdrawals : Beside(w)
<1>1. PICK w \in Withdrawals : OthersKept(w)
  BY CallerIsApart
<1>2. UNCHANGED <<fundsVars, processVars>>
  BY DEF CallerStep, SubmitStep, LookUpStep, SubmitStart, SubmitRefused, SubmitClaims,
         SubmitAttributed, SubmitUnattributed, Attributed, MarkUnknown, Get, ReceiptFound,
         ReceiptMissing, NoReceiptApplied, ReadLatest, ReadNonce, UseFound, UseNotFound,
         UnusedExpired, UnusedUnknown, LookUpFails, lookupUnchanged, sharedVars
<1> QED
  BY <1>1, <1>2 DEF Beside, fundsVars, processVars

\* A withdrawal's task takes its account key when it is free, and gives it back.
LEMMA OperationBeside ==
    ASSUME ControlIInv, NEW w \in Withdrawals, NEW n, OperationStep(w) \/ TaskStep(w, n)
    PROVE  Beside(w)
<1>0. SubmitterTypeOK /\ lockedBy \in [Accounts -> Ops \cup {Nobody}]
  BY DEF ControlIInv, WithdrawalEngineTypeOK, ProcessTypeOK
<1>1. OthersKept(w)
  BY <1>0, OperationIsApart
<1>2. CASE OperationStep(w)
  <2>1. UNCHANGED <<lockedBy, phase>> /\ (UNCHANGED todo \/ TakeTurn(w))
    BY <1>2 DEF OperationStep, Prepare, Expires, RecoverPrepared, RecoverSent, RecoverTurnOf,
                OpTimePasses, OpActionExpires, WithdrawalSucceeds, WithdrawalReverts,
                WithdrawalPropagates, ForeignUse, lookupUnchanged, sharedVars, fundsVars,
                processVars, TakeTurn
  <2> QED
    BY <1>1, <2>1 DEF Beside, TakeTurn
<1>3. CASE TaskStep(w, n)
  <2>1. UNCHANGED processVars
    BY <1>3 DEF TaskStep, TaskStart, PolicySnapshot, PolicyHolds, PreflightThrows,
                TaskSubmitterStep, TaskHashPersisted, TaskSettles, TaskCaught, TaskEnds, sharedVars
  <2>2. \/ UNCHANGED lockedBy \/ UnlockAccounts(w)
        \/ AllFree({Debited[w]}) /\ LockAccounts({Debited[w]}, w)
    BY <1>3 DEF TaskStep, TaskStart, PolicySnapshot, PolicyHolds, PreflightThrows,
                TaskSubmitterStep, TaskHashPersisted, TaskSettles, TaskCaught, TaskEnds,
                sharedVars, fundsVars
  <2>3. \A a \in Accounts : lockedBy[a] \notin {w, Nobody} => lockedBy'[a] = lockedBy[a]
    BY <1>0, <2>2 DEF UnlockAccounts, AllFree, LockAccounts
  <2> QED
    BY <1>1, <2>1, <2>3 DEF Beside, processVars
<1> QED
  BY <1>2, <1>3

-----------------------------------------------------------------------------
(* What each engine keeps while the other one moves. *)

\* A live withdrawal stays followed while an RFQ moves: only a call that is
\* past the guard, and finds itself alone there, replaces the latched hash.
LEMMA RfqStepKeepsGuards ==
    ASSUME SharedIInv, NEW r \in Rfqs, Beside(r), UNCHANGED withdrawalVars
    PROVE  OpsGuarded'
<1>0. WithdrawalIInv /\ RfqIInv
  BY SharedParts
<1> SUFFICES ASSUME NEW w \in Withdrawals, Live(w)' PROVE OpGuarded(w)'
  BY DEF OpsGuarded
<1>1. w \in Ops /\ w # r /\ r \in Ops
  BY Disjoint
<1>2. /\ wpc'[w] = wpc[w] /\ chain'[w] = chain[w] /\ expired'[w] = expired[w]
      /\ w \in unknown => w \in unknown'
      /\ latchTx = w => latchTx' = w \/ wpc[r] \in InSection
      /\ wpc[w] = "lost" /\ LostBroadcast \in unknown => LostBroadcast \in unknown'
  BY <1>1 DEF Beside, OthersKept
<1>3. Live(w) /\ OpGuarded(w)
  BY <1>0, <1>2 DEF Live, WithdrawalIInv, OpsGuarded
<1>4. wpc[r] \notin InSection
  BY <1>0, <1>1, <1>3 DEF RfqIInv, SectionAlone
<1>5. target' = target /\ phase' = phase /\ (w \in todo => w \in todo')
  BY <1>1 DEF Beside, withdrawalVars
<1> QED
  BY <1>2, <1>3, <1>4, <1>5 DEF OpGuarded

\* The withdrawal engine is as it was when an RFQ moves.
LEMMA RfqStepKeepsWithdrawals ==
    ASSUME SharedIInv, RfqIInv', TypeOK', NEW r \in Rfqs, Beside(r), UNCHANGED withdrawalVars
    PROVE  WithdrawalIInv'
<1>0. ControlIInv /\ WithdrawalTypeOK
  BY SharedParts
<1>1. \A w \in Withdrawals : /\ wpc'[w] = wpc[w] /\ chain'[w] = chain[w]
                             /\ sends'[w] = sends[w] /\ expired'[w] = expired[w]
  BY Disjoint DEF Beside, OthersKept
<1>2. WithdrawalEngineTypeOK'
  BY <1>0 DEF TypeOK, WithdrawalEngineTypeOK, WithdrawalTypeOK, withdrawalVars
<1>3. OpPhaseOK'
  BY <1>0 DEF ControlIInv, OpPhaseOK, Beside, withdrawalVars
<1>4. ASSUME NEW w \in Withdrawals PROVE TaskOK(w)' /\ OpRecordOK(w)'
  <2>1. TaskOK(w) /\ OpRecordOK(w)
    BY <1>0 DEF ControlIInv
  <2> QED
    BY <1>1, <2>1 DEF TaskOK, Fresh, Unasked, Resolved, OpRecordOK, OutcomeOK, withdrawalVars
<1>5. ASSUME NEW c \in Callers PROVE CallerOK(c)'
  <2>1. CallerOK(c)
    BY <1>0 DEF ControlIInv
  <2>2. CASE target[c] \in Withdrawals
    BY <1>1, <2>1, <2>2 DEF CallerOK, withdrawalVars
  <2>3. CASE target[c] \notin Withdrawals
    BY <2>1, <2>3 DEF CallerOK, withdrawalVars
  <2> QED
    BY <2>2, <2>3
<1>6. ControlIInv'
  BY <1>2, <1>3, <1>4, <1>5 DEF ControlIInv, RfqIInv
<1> QED
  BY <1>6, RfqStepKeepsGuards DEF WithdrawalIInv, RfqIInv

\* A live match stays followed while a withdrawal moves.
LEMMA WithdrawalStepKeepsGuards ==
    ASSUME SharedIInv, NEW w \in Withdrawals, Beside(w), UNCHANGED auctionVars
    PROVE  LiveGuarded'
<1>0. RfqIInv
  BY SharedParts
<1> SUFFICES ASSUME NEW r \in Rfqs, Live(r)' PROVE Guarded(r)'
  BY DEF LiveGuarded
<1>1. w \in Ops /\ w # r /\ r \in Ops
  BY Disjoint
<1>2. /\ wpc'[r] = wpc[r] /\ chain'[r] = chain[r] /\ expired'[r] = expired[r]
      /\ r \in unknown => r \in unknown'
      /\ latchTx = r => latchTx' = r \/ wpc[w] \in InSection
      /\ wpc[r] = "lost" /\ LostBroadcast \in unknown => LostBroadcast \in unknown'
  BY <1>1 DEF Beside, OthersKept
<1>3. Live(r) /\ Guarded(r)
  BY <1>0, <1>2 DEF Live, RfqIInv, LiveGuarded
<1>4. wpc[w] \notin InSection
  BY <1>0, <1>1, <1>3 DEF RfqIInv, SectionAlone
<1>5. phase' = phase /\ (r \in todo => r \in todo')
  BY <1>1 DEF Beside
<1> QED
  BY <1>2, <1>3, <1>4, <1>5 DEF Guarded

\* The RFQ engine's executor is as it was when a withdrawal moves.
LEMMA WithdrawalStepKeepsRfqs ==
    ASSUME SharedIInv, WithdrawalIInv', NEW w \in Withdrawals, Beside(w), UNCHANGED auctionVars
    PROVE  RfqIInv' /\ TypeOK'
<1>0. RfqIInv /\ TypeOK
  BY SharedParts
<1>1. \A r \in Rfqs : /\ wpc'[r] = wpc[r] /\ chain'[r] = chain[r]
                      /\ sends'[r] = sends[r] /\ expired'[r] = expired[r]
  BY Disjoint DEF Beside, OthersKept
<1>2. TypeOK'
  BY <1>0 DEF TypeOK, AuctionTypeOK, WithdrawalIInv, ControlIInv, WithdrawalEngineTypeOK,
              auctionVars, journalVars, timeVars, timerVars, handlerVars
<1>3. ControlTypeOK'
  BY <1>2 DEF TypeOK, ProcessTypeOK, AuctionTypeOK, ControlTypeOK
<1>4. PhaseOK'
  BY <1>0, <1>1 DEF RfqIInv, PhaseOK, Beside, auctionVars, handlerVars
<1>5. ASSUME NEW r \in Rfqs PROVE CallOK(r)' /\ RecordOK(r)'
  BY <1>0, <1>1 DEF RfqIInv, CallOK, RecordOK, auctionVars, journalVars, handlerVars
<1> QED
  BY <1>2, <1>3, <1>4, <1>5, WithdrawalStepKeepsGuards DEF RfqIInv, WithdrawalIInv, ControlIInv

\* So are its books and what its handlers have counted.
LEMMA WithdrawalStepKeepsCounts ==
    ASSUME SharedIInv, WithdrawalIInv', NEW w \in Withdrawals, Beside(w), UNCHANGED auctionVars
    PROVE  CountsIInv'
<1>0. BookIInv /\ CountsIInv
  BY SharedParts
<1>1. RfqIInv' /\ TypeOK'
  BY WithdrawalStepKeepsRfqs
<1>2. UNCHANGED <<status, best, book, reserved, closeTimer, acceptTimer, job, offer, counted, recon>>
  BY DEF auctionVars, journalVars, timerVars, handlerVars
<1>3. phase' = phase /\ \A r \in Rfqs : r \in todo' <=> r \in todo
  BY Disjoint DEF Beside
<1>4. ASSUME NEW r \in Rfqs PROVE BookOK(r)' /\ OfferOK(r)' /\ DormantOK(r)'
  <2>1. BookOK(r) /\ OfferOK(r) /\ DormantOK(r) /\ r \notin {w, Nobody}
    BY <1>0, Disjoint DEF BookIInv
  <2>2. OfferOK(r)'
    <3>1. Quoting(r) => AccountOf[offer[r]] \in Accounts
      BY <2>1, AuctionAssumption DEF OfferOK
    <3> QED
      BY <1>2, <2>1, <3>1 DEF OfferOK, Quoting, Beside
  <2> QED
    BY <1>2, <1>3, <2>1, <2>2 DEF BookOK, QuotesOn, DormantOK
<1>5. ASSUME NEW q \in Quotes PROVE ReservedOK(q)'
  <2>1. ReservedOK(q) /\ RfqOf[q] \in Rfqs
    BY <1>0, AuctionAssumption DEF BookIInv
  <2> QED
    BY <1>2, <1>3, <2>1 DEF ReservedOK, Share, QuotesOn, Winner, Up
<1>6. BookIInv'
  BY <1>1, <1>4, <1>5 DEF BookIInv
<1>7. NothingMore
  <2>1. \A x \in Rfqs : Share(x)' = Share(x)
    BY <1>2 DEF Share, QuotesOn, Winner
  <2>2. ASSUME NEW q \in Quotes, MatchSucceeded(q) PROVE MatchSucceeded(q)'
    <3>1. RfqOf[q] \in Rfqs /\ RfqOf[q] \in Ops /\ RfqOf[q] # w
      BY AuctionAssumption, Disjoint
    <3> QED
      BY <1>2, <2>2, <3>1 DEF MatchSucceeded, Beside, OthersKept
  <2> QED
    BY <1>2, <2>1, <2>2 DEF NothingMore, Quoting
<1> QED
  BY <1>0, <1>6, <1>7, CountsStay

-----------------------------------------------------------------------------
(* The guard of the executor keeps the other engine's transactions out. *)

\* When the call of an RFQ passes the guard, no withdrawal is in the air.
LEMMA RfqsFindItClear ==
    ASSUME SharedIInv, NEW r \in Rfqs
    PROVE  OthersClear(r)
<1> SUFFICES ASSUME Begin(r), NEW o \in Ops \ Rfqs, Live(o) PROVE FALSE
  BY DEF OthersClear
<1>0. RfqIInv /\ ControlIInv /\ WithdrawalIInv /\ StrangersIdle
  BY SharedParts
<1>1. r \in Ops /\ wpc[r] = "queued" /\ Running(r) /\ latchTx = NoTx /\ unknown = {}
  BY Disjoint DEF Begin, Latched
<1>2. o \in Withdrawals
  BY <1>0 DEF StrangersIdle, Live
<1>3. phase = "serving" /\ todo = {}
  BY <1>0, <1>1 DEF RfqIInv, PhaseOK
<1>4. target[Recoverer] = Nobody
  BY <1>0, <1>3, OpsAndCallers DEF ControlIInv, OpPhaseOK, CallerOK
<1>5. wpc[o] \notin InSection
  <2>1. wpc[o] \in InSection => Running(o)
    BY <1>0, <1>2, OpsAndCallers DEF ControlIInv, QueueOK
  <2> QED
    BY <1>1, <2>1 DEF Running, InSection
<1>6. OpGuarded(o)
  BY <1>0, <1>2 DEF WithdrawalIInv, OpsGuarded
<1>7. o # Nobody /\ o # NoTx
  BY <1>2, OpsAndCallers, SubmitterAssumption
<1> QED
  BY <1>1, <1>3, <1>4, <1>5, <1>6, <1>7 DEF OpGuarded, InSection

\* When the call of a withdrawal passes the guard, no match is in the air.
LEMMA WithdrawalsFindItClear ==
    ASSUME SharedIInv, NEW w \in Withdrawals
    PROVE  ClearFor(w)
<1> SUFFICES ASSUME Begin(w), NEW o \in Ops \ Withdrawals, Live(o) PROVE FALSE
  BY DEF ClearFor
<1>0. RfqIInv /\ ControlIInv /\ StrangersIdle
  BY SharedParts
<1>1. w \in Ops /\ wpc[w] = "queued" /\ Running(w) /\ latchTx = NoTx /\ unknown = {}
  BY Disjoint DEF Begin, Latched
<1>2. o \in Rfqs
  BY <1>0 DEF StrangersIdle, Live
<1>3. phase = "serving" /\ todo = {}
  BY <1>0, <1>1, TaskRuns
<1>4. wpc[o] \notin InSection
  <2>1. wpc[o] \in InSection => Running(o)
    BY <1>0 DEF RfqIInv, QueueOK
  <2> QED
    BY <1>1, <2>1 DEF Running, InSection
<1>5. Guarded(o) /\ o # NoTx
  BY <1>0, <1>2, SubmitterAssumption DEF RfqIInv, LiveGuarded
<1> QED
  BY <1>1, <1>3, <1>4, <1>5 DEF Guarded, InSection

-----------------------------------------------------------------------------
(* The steps of the service. *)

\* Strangers stay out of a step that concerns somebody else.
LEMMA BesideStrangers ==
    ASSUME SharedIInv, NEW o \in Rfqs \cup Withdrawals, Beside(o)
    PROVE  StrangersIdle'
BY SharedParts DEF StrangersIdle, Beside, OthersKept

\* A step of the RFQ engine.
LEMMA RfqEngineKeeps ==
    ASSUME SharedIInv, RfqEngineStep, UNCHANGED withdrawalVars
    PROVE  SharedIInv'
<1>0. CountsIInv /\ BookIInv /\ RfqIInv /\ TypeOK
  BY SharedParts
<1>1. PICK r \in Rfqs : Beside(r)
  BY <1>0, RfqStepBeside, QuoteStepBeside DEF RfqEngineStep
<1>2. RfqIInv'
  BY <1>0, RfqStepKeeps, RfqsFindItClear, QuietQuoteSteps DEF RfqEngineStep
<1>3. TypeOK'
  BY <1>0, <1>2, RfqTypes DEF RfqEngineStep
<1>4. BookIInv'
  BY <1>0, <1>2, <1>3, RfqStepKeepsBooks DEF RfqEngineStep
<1>5. CountsIInv'
  BY <1>0, <1>4, RfqStepKeepsCounts DEF RfqEngineStep
<1>6. WithdrawalIInv'
  BY <1>1, <1>2, <1>3, RfqStepKeepsWithdrawals
<1> QED
  BY <1>1, <1>5, <1>6, BesideStrangers DEF SharedIInv

\* The steps of the withdrawal engine, as that engine alone knows them: its
\* recover() waits for the RFQs', and its policy check counts their reserves.
LEMMA WithdrawalEngineSteps ==
    ASSUME WithdrawalEngineStep
    PROVE  \/ \E c \in Callers : CallerStep(c)
           \/ \E w \in Withdrawals : OperationStep(w) \/ TaskStep(w, ReservedCash(Debited[w]))
BY DEF WithdrawalEngineStep, WithdrawalOperation, WithdrawalRecovery, OperationStep

\* A step of the withdrawal engine concerns one withdrawal.
LEMMA WithdrawalEngineBeside ==
    ASSUME SharedIInv, WithdrawalEngineStep
    PROVE  \E w \in Withdrawals : Beside(w)
BY WithdrawalEngineSteps, SharedParts, CallerBeside, OperationBeside

\* A step of the withdrawal engine.
LEMMA WithdrawalEngineKeeps ==
    ASSUME SharedIInv, WithdrawalEngineStep, UNCHANGED auctionVars
    PROVE  SharedIInv'
<1>1. PICK w \in Withdrawals : Beside(w)
  BY WithdrawalEngineBeside
<1>2. WithdrawalIInv /\ \A v \in Withdrawals : ClearFor(v)
  BY SharedParts, WithdrawalsFindItClear
<1>3. \/ \E c \in Callers : CallerStep(c)
      \/ \E v \in Withdrawals : OperationStep(v) \/ \E n : TaskStep(v, n)
  BY WithdrawalEngineSteps
<1>4. WithdrawalIInv'
  BY <1>2, <1>3, WithdrawalStepKeeps
<1> QED
  BY <1>1, <1>4, WithdrawalStepKeepsCounts, BesideStrangers DEF SharedIInv

\* The process stops, starts over the records of both journals, and serves.
LEMMA ProcessOfBothKeeps ==
    ASSUME SharedIInv,
           ServiceCrash \/ ServiceRestart \/ ServiceServe \/ UNCHANGED serviceVars
    PROVE  SharedIInv'
<1>0. /\ CountsIInv /\ BookIInv /\ RfqIInv /\ WithdrawalIInv /\ StrangersIdle
      /\ Unfinished \cup UnfinishedOps \in SUBSET Ops
      /\ Unfinished \subseteq Unfinished \cup UnfinishedOps
      /\ UnfinishedOps \subseteq Unfinished \cup UnfinishedOps
  BY SharedParts, Disjoint DEF Unfinished, UnfinishedOps
<1>1. \/ Crash /\ WithdrawalCrash
      \/ /\ ProcessStarts(Unfinished \cup UnfinishedOps) /\ UNCHANGED auctionVars
         /\ RestartOver(Unfinished \cup UnfinishedOps)
      \/ Serve /\ WithdrawalServe
      \/ UNCHANGED vars /\ UNCHANGED wvars
  BY <1>0 DEF ServiceCrash, ServiceRestart, ServiceServe, Crash, WithdrawalCrash, RestartOver,
              Serve, WithdrawalServe, serviceVars, vars, wvars
<1>2. RfqIInv'
  BY <1>0, <1>1, CrashKeeps, RestartKeeps, ServeKeeps, StutterKeeps
<1>3. TypeOK'
  BY <1>0, <1>1, <1>2, ProcessDataTypes DEF Serve
<1>4. BookIInv'
  BY <1>0, <1>1, <1>2, <1>3, CrashKeepsBooks, RestartKeepsBooks, StutterKeepsBooks
<1>5. NothingMore
  BY <1>0, <1>1, ProcessNothingMore DEF Serve
<1>6. CountsIInv'
  BY <1>0, <1>4, <1>5, CountsStay
<1>7. WithdrawalIInv'
  BY <1>0, <1>1, WithdrawalProcessKeeps
<1>8. StrangersIdle'
  BY <1>0, <1>1 DEF StrangersIdle, Crash, ProcessStops, SubmitterCrash, ProcessStarts, Serve,
                    StartServing, vars, sharedVars, submitterVars
<1> QED
  BY <1>6, <1>7, <1>8 DEF SharedIInv

-----------------------------------------------------------------------------
(* The theorems about the shared executor and the reservations. *)

\* A service without records.
LEMMA ServiceInitial == ServiceInit => SharedIInv
<1> SUFFICES ASSUME ServiceInit PROVE SharedIInv
  OBVIOUS
<1>1. Init /\ WithdrawalEngineInit
  BY DEF ServiceInit, Init, WithdrawalEngineInit
<1>2. CountsIInv
  BY <1>1, BookInitial, CountsInitial DEF Init
<1>3. WithdrawalIInv
  BY <1>1, WithdrawalsInitial DEF AloneIInv
<1>4. StrangersIdle
  BY <1>1 DEF Init, ProcessInit, SubmitterInit, StrangersIdle
<1> QED
  BY <1>2, <1>3, <1>4 DEF SharedIInv

\* Every step of the service.
LEMMA ServiceStepKeeps == SharedIInv /\ [ServiceNext]_serviceVars => SharedIInv'
<1> SUFFICES ASSUME SharedIInv, [ServiceNext]_serviceVars PROVE SharedIInv'
  OBVIOUS
<1> QED
  BY RfqEngineKeeps, WithdrawalEngineKeeps, ProcessOfBothKeeps DEF ServiceNext, ServiceQuiescent

\* What each engine keeps alone it keeps beside the other: its types, its
\* records, its reservations and its part of the executor, in every state of
\* the service that index.ts wires together.
THEOREM ServiceInvariant == ServiceSpec => []SharedIInv
BY ServiceInitial, ServiceStepKeeps, PTL DEF ServiceSpec

\* The service has one transaction in the air at most, a match or a
\* withdrawal, through crashes, lost answers and both recover()s (chain.ts
\* serializeWrite, shared by auction.ts and withdrawal.ts).
THEOREM ServiceIsExclusive == ServiceSpec => []OneLiveTx
<1>1. SharedIInv => OneLiveTx
  BY DEF SharedIInv, WithdrawalIInv
<1> QED
  BY <1>1, ServiceInvariant, PTL

\* No pair of signed actions is broadcast twice by the service.
THEOREM ServiceSendsOnce == ServiceSpec => []AtMostOneBroadcast
<1>1. SharedIInv => AtMostOneBroadcast
  <2> SUFFICES ASSUME SharedIInv, NEW o \in Ops PROVE sends[o] <= 1
    BY DEF AtMostOneBroadcast
  <2>1. RfqIInv /\ ControlIInv /\ StrangersIdle
    BY SharedParts
  <2>2. CASE o \in Rfqs
    BY <2>1, <2>2 DEF RfqIInv, CallOK
  <2>3. CASE o \in Withdrawals
    BY <2>1, <2>3 DEF ControlIInv, TaskOK
  <2>4. CASE o \notin Rfqs \cup Withdrawals
    BY <2>1, <2>4 DEF StrangersIdle
  <2> QED
    BY <2>2, <2>3, <2>4
<1> QED
  BY <1>1, ServiceInvariant, PTL

\* The outcomes that both journals record are the chain's.
THEOREM ServiceOutcomesAreTrue == ServiceSpec => [](OutcomeIsTrue /\ OpOutcomeIsTrue)
<1>1. SharedIInv => OutcomeIsTrue /\ OpOutcomeIsTrue
  BY SharedParts DEF RfqIInv, RecordOK, Unsent, OutcomeIsTrue, ControlIInv, OpRecordOK, OutcomeOK,
                     OpOutcomeIsTrue
<1> QED
  BY <1>1, ServiceInvariant, PTL

\* What the withdrawals' policy check counts as reserved is the standing quotes,
\* whatever both engines did before, crashes and recover()s included.
THEOREM ServiceReservesExactly == ServiceSpec => []ReservationsExact
<1>1. SharedIInv => ReservationsExact
  BY SharedParts, BooksAreExact
<1> QED
  BY <1>1, ServiceInvariant, PTL

-----------------------------------------------------------------------------
(* The cash the two engines spend. *)

\* This process alone holds the executor's key.
KeyIsOwn == \A w \in Withdrawals : <<w, "executor">> \notin UsedElsewhere

\* A task holds its account key until it ends, whatever the executor does.
HoldsKey(w) == task[w] \in {"queued", "snapped", "cleared"} => lockedBy[Debited[w]] = w

\* The submitter writes nothing that the preflight has not cleared.
StageOK(w) == /\ wpc[w] = "queued" => task[w] = "queued"
              /\ wpc[w] = "lost" => task[w] = "cleared"

\* The cash the final policy check has read is still there.
SnapshotOK(w) == task[w] = "snapped" /\ wpc[w] = "writing" => cash[Debited[w]] = snapshot[w]

\* A cleared withdrawal that is not settled can be paid besides the quotes.
ClearedOK(w) ==
    task[w] = "cleared" /\ (wpc[w] = "writing" \/ Live(w)) =>
        cash[Debited[w]] >= SumCost(Owed(Debited[w])) + Amount[w]

\* What a task knows of its account.
TaskFundsOK(w) == HoldsKey(w) /\ StageOK(w) /\ SnapshotOK(w) /\ ClearedOK(w)

\* The invariant behind ReservationsStayCovered.
ServiceIInv == SharedIInv /\ \A w \in Withdrawals : TaskFundsOK(w)

\* A submission that is not past the preflight is not in the air.
LEMMA NotYetSent ==
    ASSUME ControlIInv, NEW w \in Withdrawals, StageOK(w),
           task[w] \in {"scheduled", "queued", "snapped"} \/ wpc[w] = "writing"
    PROVE  ~Live(w)
<1>1. TaskOK(w) /\ wpc[w] \in CallState /\ task[w] \in TaskPc
  BY ControlTypes, OpsAndCallers DEF ControlIInv, WithdrawalTypeOK
<1>2. Fresh(w)
  BY <1>1 DEF TaskOK, Fresh, StageOK, CallState, TaskPc
<1>3. chain[w] \in {"none", "success"}
  BY <1>1, <1>2 DEF TaskOK
<1> QED
  BY <1>3 DEF Live

\* On the cash there was, for the quotes there were or fewer, a withdrawal that
\* can be paid can still be paid.
LEMMA ClearedStays ==
    ASSUME CountsIInv, NEW w \in Withdrawals, ClearedOK(w),
           task'[w] = "cleared" /\ (wpc'[w] = "writing" \/ Live(w)') =>
               /\ task[w] = "cleared" /\ (wpc[w] = "writing" \/ Live(w))
               /\ cash'[Debited[w]] = cash[Debited[w]]
               /\ Owed(Debited[w])' \subseteq Owed(Debited[w])
    PROVE  ClearedOK(w)'
<1> DEFINE a == Debited[w]
<1> SUFFICES ASSUME task'[w] = "cleared", wpc'[w] = "writing" \/ Live(w)'
             PROVE  cash'[a] >= SumCost(Owed(a)') + Amount[w]
  BY DEF ClearedOK
<1>1. a \in Accounts /\ Amount[w] \in Nat
  BY OpsAndCallers
<1>2. cash'[a] = cash[a] /\ Owed(a)' \subseteq Owed(a) /\ cash[a] >= SumCost(Owed(a)) + Amount[w]
  BY DEF ClearedOK
<1> HIDE DEF a
<1>3. IsFiniteSet(Held(a)) /\ cash[a] \in Int
  BY <1>1, BookTypes DEF CountsIInv, DataTypeOK
<1>4. Owed(a) \in SUBSET Quotes /\ IsFiniteSet(Owed(a))
  BY <1>3, FS_Subset DEF Owed, Held
<1>5. /\ SumCost(Owed(a)) \in Nat /\ SumCost(Owed(a)') \in Nat
      /\ SumCost(Owed(a)') <= SumCost(Owed(a))
  BY <1>2, <1>4, SumCostMonotone
<1> QED
  BY <1>1, <1>2, <1>3, <1>5

-----------------------------------------------------------------------------
(* What an RFQ does to it. *)

\* An RFQ debits an account only with a transaction that is in the air.
LEMMA RfqDebits ==
    ASSUME BookIInv, RfqEngineStep
    PROVE  UNCHANGED cash \/ \E r \in Rfqs : Live(r)
<1>1. ASSUME NEW r \in Rfqs, RfqStep(r) PROVE UNCHANGED cash \/ Live(r)
  <2>1. CASE RfqSucceeds(r)
    BY <2>1, MatchDebits DEF Live
  <2>2. CASE QuoteAdmitted(r) \/ QuoteFunded(r)
    BY <2>2 DEF QuoteAdmitted, QuoteFunded, sharedVars, fundsVars
  <2>3. CASE ~(QuoteAdmitted(r) \/ QuoteFunded(r) \/ RfqSucceeds(r))
    BY <1>1, <2>3, QuietNothingMore
  <2> QED
    BY <2>1, <2>2, <2>3
<1>2. ASSUME NEW q \in Quotes, QuoteStart(q) \/ CancelQuote(q) PROVE UNCHANGED cash
  BY <1>2 DEF QuoteStart, CancelQuote, sharedVars, fundsVars
<1> QED
  BY <1>1, <1>2 DEF RfqEngineStep

\* A quote is admitted under the key of its account.
LEMMA RfqOwesNoMore ==
    ASSUME CountsIInv, BookIInv', RfqEngineStep, NEW a \in Accounts, lockedBy[a] \notin Rfqs
    PROVE  Owed(a)' \subseteq Owed(a)
<1>0. BookIInv
  BY DEF CountsIInv
<1>1. ASSUME NEW r \in Rfqs, QuoteAdmitted(r) PROVE Owed(a)' \subseteq Owed(a)
  <2>1. AccountOf[offer[r]] # a
    BY <1>0, <1>1 DEF BookIInv, OfferOK, Quoting, QuoteAdmitted
  <2> QED
    BY <1>0, <1>1, <2>1, Admission
<1>2. ASSUME NEW r \in Rfqs, RfqStep(r), ~QuoteAdmitted(r) PROVE Owed(a)' \subseteq Owed(a)
  BY <1>0, <1>2, RfqNothingMore, NothingMoreHeld
<1>3. ASSUME NEW q \in Quotes, QuoteStart(q) \/ CancelQuote(q) PROVE Owed(a)' \subseteq Owed(a)
  BY <1>0, <1>3, QuoteStartCounts, CancelNothingMore, NothingMoreHeld
<1> QED
  BY <1>1, <1>2, <1>3 DEF RfqEngineStep

\* An RFQ leaves a task what it knows.
LEMMA RfqKeepsTaskFunds ==
    ASSUME ServiceIInv, SharedIInv', RfqEngineStep, UNCHANGED withdrawalVars,
           NEW w \in Withdrawals
    PROVE  TaskFundsOK(w)'
<1>0. /\ SharedIInv /\ TaskFundsOK(w) /\ CountsIInv /\ BookIInv /\ RfqIInv /\ TypeOK /\ w \in Ops
      /\ ControlIInv /\ Debited[w] \in Accounts /\ w # Nobody
  BY SharedParts, OpsAndCallers DEF ServiceIInv
<1>1. PICK r \in Rfqs : Beside(r)
  BY <1>0, RfqStepBeside, QuoteStepBeside DEF RfqEngineStep
<1>2. /\ w # r /\ wpc'[w] = wpc[w] /\ chain'[w] = chain[w] /\ expired'[w] = expired[w]
      /\ task' = task /\ snapshot' = snapshot
  BY <1>0, <1>1, Disjoint DEF Beside, OthersKept, withdrawalVars
<1>3. wpc[w] = "writing" \/ Live(w) => UNCHANGED cash
  <2>1. \A x \in Rfqs : Live(x) => wpc[w] # "writing" /\ ~Live(w)
    BY <1>0, Disjoint DEF RfqIInv, SectionAlone, OneLiveTx, InSection
  <2> QED
    BY <1>0, <2>1, RfqDebits
<1>4. HoldsKey(w)'
  BY <1>0, <1>1, <1>2 DEF TaskFundsOK, HoldsKey, Beside
<1>5. StageOK(w)' /\ SnapshotOK(w)'
  BY <1>0, <1>2, <1>3 DEF TaskFundsOK, StageOK, SnapshotOK
<1>6. ClearedOK(w)'
  <2>1. task[w] = "cleared" => lockedBy[Debited[w]] \notin Rfqs
    BY <1>0, Disjoint DEF TaskFundsOK, HoldsKey
  <2>2. task[w] = "cleared" => Owed(Debited[w])' \subseteq Owed(Debited[w])
    BY <1>0, <2>1, RfqOwesNoMore DEF SharedIInv, CountsIInv
  <2> QED
    BY <1>0, <1>2, <1>3, <2>2, ClearedStays DEF TaskFundsOK, Live
<1> QED
  BY <1>4, <1>5, <1>6 DEF TaskFundsOK

-----------------------------------------------------------------------------
(* What the withdrawal engine does to it. *)

\* A withdrawal leaves the quotes and their matches alone.
LEMMA WithdrawalNothingMore ==
    ASSUME SharedIInv, NEW w \in Withdrawals, Beside(w), UNCHANGED auctionVars
    PROVE  /\ NothingMore /\ \A a : Owed(a)' = Owed(a)
           /\ \A x \in Rfqs : job'[x] = "funded" => job[x] = "funded"
<1>1. UNCHANGED <<status, best, book, job, offer, counted>>
  BY DEF auctionVars, journalVars, handlerVars
<1>2. \A x : Share(x)' = Share(x)
  BY <1>1 DEF Share, QuotesOn, Winner
<1>3. ASSUME NEW q \in Quotes PROVE MatchSucceeded(q)' <=> MatchSucceeded(q)
  <2>1. RfqOf[q] \in Rfqs /\ RfqOf[q] \in Ops /\ RfqOf[q] # w
    BY AuctionAssumption, Disjoint
  <2> QED
    BY <1>1, <2>1 DEF MatchSucceeded, Beside, OthersKept
<1>4. \A a : Owed(a)' = Owed(a)
  BY <1>2, <1>3 DEF Owed, Held
<1> QED
  BY <1>1, <1>2, <1>3, <1>4 DEF NothingMore, Quoting

\* Requests have no hand in tasks under way, nor in the cash.
LEMMA CallerKeepsTaskFunds ==
    ASSUME ServiceIInv, NEW c \in Callers, CallerStep(c), UNCHANGED auctionVars,
           NEW w \in Withdrawals
    PROVE  TaskFundsOK(w)'
<1>0. /\ SharedIInv /\ TaskFundsOK(w) /\ CountsIInv /\ ControlIInv /\ WithdrawalTypeOK
  BY SharedParts DEF ServiceIInv
<1>1. PICK v \in Withdrawals : Beside(v)
  BY <1>0, CallerBeside
<1>2. UNCHANGED <<wpc, chain, expired, cash, lockedBy, snapshot>>
  BY DEF CallerStep, SubmitStep, LookUpStep, SubmitStart, SubmitRefused, SubmitClaims,
         SubmitAttributed, SubmitUnattributed, Attributed, MarkUnknown, Get, ReceiptFound,
         ReceiptMissing, NoReceiptApplied, ReadLatest, ReadNonce, UseFound, UseNotFound,
         UnusedExpired, UnusedUnknown, LookUpFails, lookupUnchanged, sharedVars, submitterVars,
         fundsVars
<1>3. \/ task' = task
      \/ SubmitClaims(c) /\ task' = [task EXCEPT ![target[c]] = "scheduled"]
  BY DEF CallerStep, SubmitStep, LookUpStep, SubmitStart, SubmitRefused, SubmitClaims,
         SubmitAttributed, SubmitUnattributed, Attributed, MarkUnknown, Get, ReceiptFound,
         ReceiptMissing, NoReceiptApplied, ReadLatest, ReadNonce, UseFound, UseNotFound,
         UnusedExpired, UnusedUnknown, LookUpFails, lookupUnchanged
<1>4. \A a : Owed(a)' = Owed(a)
  BY <1>0, <1>1, WithdrawalNothingMore
<1>5. CASE task'[w] = task[w]
  <2>1. ClearedOK(w)'
    BY <1>0, <1>2, <1>4, <1>5, ClearedStays DEF TaskFundsOK, Live
  <2> QED
    BY <1>0, <1>2, <1>5, <2>1 DEF TaskFundsOK, HoldsKey, StageOK, SnapshotOK
<1>6. CASE task'[w] # task[w]
  <2>1. SubmitClaims(c) /\ target[c] = w /\ task'[w] = "scheduled"
    BY <1>0, <1>3, <1>6 DEF WithdrawalTypeOK
  <2>2. task[w] = "none"
    BY <1>0, <2>1 DEF SubmitClaims, ControlIInv, CallerOK
  <2>3. wpc'[w] = "idle"
    BY <1>0, <1>2, <2>2 DEF ControlIInv, TaskOK
  <2> QED
    BY <2>1, <2>3 DEF TaskFundsOK, HoldsKey, StageOK, SnapshotOK, ClearedOK
<1> QED
  BY <1>5, <1>6

\* A withdrawal that is mined was the only one in the air.
LEMMA OperationKeepsTaskFunds ==
    ASSUME KeyIsOwn, ServiceIInv, NEW v \in Withdrawals, OperationStep(v), UNCHANGED auctionVars,
           NEW w \in Withdrawals
    PROVE  TaskFundsOK(w)'
<1>0. /\ SharedIInv /\ TaskFundsOK(w) /\ CountsIInv /\ ControlIInv /\ SubmitterTypeOK
      /\ w \in Ops /\ v \in Ops /\ WithdrawalIInv
  BY SharedParts, OpsAndCallers DEF ServiceIInv
<1>1. UNCHANGED <<wpc, lockedBy, task, snapshot>>
  BY DEF OperationStep, Prepare, Expires, RecoverPrepared, RecoverSent, OpTimePasses,
         OpActionExpires, Expire, WithdrawalSucceeds, WithdrawalReverts, MineAs,
         WithdrawalPropagates, NodeAccepts, ForeignUse, lookupUnchanged, sharedVars,
         submitterVars, withdrawalVars, fundsVars
<1>2. \A o \in Ops : Live(o)' => Live(o)
  BY <1>0, KeyIsOwn
     DEF SubmitterTypeOK, Live, OperationStep, Prepare, Expires, RecoverPrepared, RecoverSent,
         OpTimePasses, OpActionExpires, Expire, WithdrawalSucceeds, WithdrawalReverts, MineAs,
         WithdrawalPropagates, NodeAccepts, ForeignUse, lookupUnchanged, sharedVars, submitterVars,
         KeyIsOwn
<1>3. cash' = cash \/ (Live(v) /\ ~Live(v)')
  BY <1>0
     DEF SubmitterTypeOK, Live, OperationStep, Prepare, Expires, RecoverPrepared, RecoverSent,
         OpTimePasses, OpActionExpires, WithdrawalSucceeds, WithdrawalReverts, MineAs,
         WithdrawalPropagates, ForeignUse, lookupUnchanged, sharedVars, fundsVars, KeyIsOwn
<1>4. \A a : Owed(a)' = Owed(a)
  BY <1>0, OperationBeside, WithdrawalNothingMore
<1>5. wpc[w] = "writing" \/ Live(w)' => cash' = cash
  <2>1. wpc[w] = "writing" => ~Live(v)
    BY <1>0, NotYetSent DEF WithdrawalIInv, SectionAlone, InSection, TaskFundsOK
  <2>2. Live(w)' /\ Live(v) => w = v
    BY <1>0, <1>2 DEF WithdrawalIInv, OneLiveTx
  <2> QED
    BY <1>3, <2>1, <2>2
<1>6. ClearedOK(w)'
  BY <1>0, <1>1, <1>2, <1>4, <1>5, ClearedStays DEF TaskFundsOK
<1> QED
  BY <1>0, <1>1, <1>5, <1>6 DEF TaskFundsOK, HoldsKey, StageOK, SnapshotOK

\* What the policy check sums is at least what is still owed.
LEMMA ReservedCoversOwed ==
    ASSUME CountsIInv, phase = "serving", NEW a \in Accounts
    PROVE  /\ ReservedCash(a) \in Nat /\ SumCost(Owed(a)) \in Nat
           /\ SumCost(Owed(a)) <= ReservedCash(a)
<1>0. BookIInv /\ IsFiniteSet(Held(a)) /\ reserved = Standing
  BY BooksAreExact DEF CountsIInv, ReservationsExact, Serving
<1>1. ReservedFor(a, {}) = Held(a)
  BY <1>0, StandingHolds DEF ReservedFor, Held
<1>2. Owed(a) \in SUBSET Held(a) /\ Held(a) \in SUBSET Quotes
  BY DEF Owed, Held
<1> QED
  BY <1>0, <1>1, <1>2, SumCostMonotone DEF ReservedCash

\* The task of another withdrawal.
LEMMA TaskKeepsOtherFunds ==
    ASSUME ServiceIInv, NEW v \in Withdrawals, NEW n, TaskStep(v, n), UNCHANGED auctionVars,
           NEW w \in Withdrawals, w # v
    PROVE  TaskFundsOK(w)'
<1>0. /\ SharedIInv /\ TaskFundsOK(w) /\ CountsIInv /\ ControlIInv /\ WithdrawalTypeOK
      /\ w \in Ops /\ w # Nobody /\ Debited[w] \in Accounts
  BY SharedParts, OpsAndCallers, Disjoint DEF ServiceIInv
<1>1. Beside(v)
  BY <1>0, OperationBeside
<1>2. wpc'[w] = wpc[w] /\ chain'[w] = chain[w] /\ expired'[w] = expired[w]
  BY <1>0, <1>1 DEF Beside, OthersKept
<1>3. cash' = cash /\ task'[w] = task[w] /\ snapshot'[w] = snapshot[w]
  BY <1>0
     DEF WithdrawalTypeOK, TaskStep, TaskStart, PolicySnapshot, PolicyHolds, PreflightThrows,
         TaskSubmitterStep, TaskHashPersisted, TaskSettles, TaskCaught, TaskEnds, sharedVars,
         fundsVars, withdrawalVars
<1>4. lockedBy[Debited[w]] = w => lockedBy'[Debited[w]] = w
  BY <1>0, <1>1 DEF Beside
<1>5. \A a : Owed(a)' = Owed(a)
  BY <1>0, <1>1, WithdrawalNothingMore
<1>6. ClearedOK(w)'
  BY <1>0, <1>2, <1>3, <1>5, ClearedStays DEF TaskFundsOK, Live
<1> QED
  BY <1>0, <1>2, <1>3, <1>4, <1>6 DEF TaskFundsOK, HoldsKey, StageOK, SnapshotOK

\* The task itself: the policy check reads the cash, then sums what is reserved,
\* both inside the executor's queue.
LEMMA TaskKeepsOwnFunds ==
    ASSUME ServiceIInv, NEW w \in Withdrawals, TaskStep(w, ReservedCash(Debited[w])),
           UNCHANGED auctionVars
    PROVE  TaskFundsOK(w)'
<1>0. /\ SharedIInv /\ TaskFundsOK(w) /\ CountsIInv /\ ControlIInv /\ WithdrawalTypeOK
      /\ SubmitterTypeOK /\ w \in Ops /\ Debited[w] \in Accounts /\ Amount[w] \in Nat
      /\ cash[Debited[w]] \in Int /\ lockedBy \in [Accounts -> Ops \cup {Nobody}] /\ TaskOK(w)
  BY SharedParts, OpsAndCallers, BookTypes
     DEF ServiceIInv, CountsIInv, DataTypeOK, ControlIInv, WithdrawalEngineTypeOK, ProcessTypeOK
<1>1. \A a : Owed(a)' = Owed(a)
  BY <1>0, OperationBeside, WithdrawalNothingMore
<1>2. CASE TaskStart(w)
  <2>1. task'[w] = "queued" /\ wpc'[w] = "queued" /\ lockedBy'[Debited[w]] = w
    BY <1>0, <1>2 DEF TaskStart, Enqueue, LockAccounts, SubmitterTypeOK, WithdrawalTypeOK
  <2> QED
    BY <2>1 DEF TaskFundsOK, HoldsKey, StageOK, SnapshotOK, ClearedOK
<1>3. CASE PolicySnapshot(w)
  BY <1>0, <1>3
     DEF PolicySnapshot, sharedVars, submitterVars, fundsVars, WithdrawalTypeOK, TaskFundsOK,
         HoldsKey, StageOK, SnapshotOK, ClearedOK
<1>4. CASE PolicyHolds(w, ReservedCash(Debited[w]))
  <2>1. /\ task[w] = "snapped" /\ task'[w] = "cleared"
        /\ snapshot[w] >= ReservedCash(Debited[w]) + Amount[w]
        /\ UNCHANGED <<wpc, chain, expired, cash, lockedBy>>
    BY <1>0, <1>4 DEF PolicyHolds, sharedVars, submitterVars, fundsVars, WithdrawalTypeOK
  <2>2. ~Live(w)' /\ (wpc[w] = "writing" => cash[Debited[w]] = snapshot[w])
    BY <1>0, <2>1, NotYetSent DEF TaskFundsOK, SnapshotOK, Live
  <2>3. ClearedOK(w)'
    <3>1. phase = "serving"
      BY <1>0, <2>1 DEF ControlIInv, OpPhaseOK
    <3>2. /\ ReservedCash(Debited[w]) \in Nat /\ SumCost(Owed(Debited[w])) \in Nat
          /\ SumCost(Owed(Debited[w])) <= ReservedCash(Debited[w])
      BY <1>0, <3>1, ReservedCoversOwed
    <3> QED
      BY <1>0, <1>1, <2>1, <2>2, <3>2 DEF ClearedOK
  <2> QED
    BY <1>0, <2>1, <2>3 DEF TaskFundsOK, HoldsKey, StageOK, SnapshotOK
<1>5. CASE PreflightThrows(w)
  <2>1. /\ wpc'[w] = "unsent" /\ UNCHANGED <<task, cash, lockedBy, snapshot>>
        /\ task[w] # "cleared"
    BY <1>0, <1>5 DEF PreflightThrows, PreflightFails, Return, SubmitterTypeOK, withdrawalVars,
                      fundsVars
  <2> QED
    BY <1>0, <2>1 DEF TaskFundsOK, HoldsKey, StageOK, SnapshotOK, ClearedOK
<1>6. CASE TaskSettles(w) \/ TaskCaught(w)
  <2>1. task'[w] = "none" /\ wpc'[w] = "idle"
    BY <1>0, <1>6 DEF TaskSettles, TaskCaught, TaskEnds, SubmitterTypeOK, WithdrawalTypeOK
  <2> QED
    BY <2>1 DEF TaskFundsOK, HoldsKey, StageOK, SnapshotOK, ClearedOK
<1>7. CASE TaskSubmitterStep(w) \/ TaskHashPersisted(w)
  <2>1. UNCHANGED <<task, cash, lockedBy, snapshot>>
    BY <1>7 DEF TaskSubmitterStep, TaskHashPersisted, withdrawalVars, fundsVars
  <2>2. /\ wpc'[w] = "writing" => wpc[w] = "queued"
        /\ wpc'[w] # "queued"
        /\ wpc'[w] = "lost" => task[w] = "cleared"
    BY <1>0, <1>7
       DEF TaskSubmitterStep, TaskHashPersisted, HashAcknowledged, CallStep, Refuse, Begin,
           HandOver, HashReturns, SendFails, ReceiptArrives, ReceiptLost, LatchHash, Return,
           SubmitterTypeOK, TaskOK
  <2>3. StageOK(w)' /\ SnapshotOK(w)'
    BY <1>0, <2>1, <2>2 DEF TaskFundsOK, StageOK, SnapshotOK
  <2>4. task[w] = "cleared" /\ (wpc'[w] = "writing" \/ Live(w)') => wpc[w] = "writing" \/ Live(w)
    BY <1>0, <1>7, <2>2
       DEF TaskSubmitterStep, TaskHashPersisted, HashAcknowledged, CallStep, Refuse, Begin,
           HandOver, HashReturns, SendFails, ReceiptArrives, ReceiptLost, LatchHash, Live,
           SubmitterTypeOK, TaskFundsOK, StageOK
  <2>5. ClearedOK(w)'
    BY <1>0, <1>1, <2>1, <2>4, ClearedStays DEF TaskFundsOK
  <2> QED
    BY <1>0, <2>1, <2>3, <2>5 DEF TaskFundsOK, HoldsKey
<1> QED
  BY <1>2, <1>3, <1>4, <1>5, <1>6, <1>7 DEF TaskStep

-----------------------------------------------------------------------------
(* The invariant of the cash. *)

\* No task survives a crash, and recover() resumes none.
LEMMA ProcessKeepsTaskFunds ==
    ASSUME ServiceIInv, ServiceCrash \/ ServiceRestart \/ ServiceServe \/ UNCHANGED serviceVars,
           NEW w \in Withdrawals
    PROVE  TaskFundsOK(w)'
<1>0. /\ TaskFundsOK(w) /\ CountsIInv /\ BookIInv /\ w \in Ops /\ Debited[w] \in Accounts
  BY SharedParts, OpsAndCallers DEF ServiceIInv
<1>1. CASE ServiceCrash
  <2>1. task'[w] = "none" /\ wpc'[w] = "idle"
    BY <1>0, <1>1 DEF ServiceCrash, WithdrawalForgets, ProcessStops, SubmitterCrash
  <2> QED
    BY <2>1 DEF TaskFundsOK, HoldsKey, StageOK, SnapshotOK, ClearedOK
<1>2. CASE ServiceRestart \/ ServiceServe \/ UNCHANGED serviceVars
  <2>1. UNCHANGED <<auctionVars, withdrawalVars, submitterVars, fundsVars>>
    BY <1>2 DEF ServiceRestart, ServiceServe, ProcessStarts, StartServing, serviceVars, sharedVars
  <2>2. UNCHANGED <<status, best, book, wpc, chain, expired, task, snapshot, cash, lockedBy>>
    BY <2>1 DEF auctionVars, journalVars, withdrawalVars, submitterVars, fundsVars
  <2>3. \A a : Owed(a)' = Owed(a)
    BY <2>2 DEF Owed, Held, Share, QuotesOn, Winner, MatchSucceeded
  <2>4. ClearedOK(w)'
    BY <1>0, <2>2, <2>3, ClearedStays DEF TaskFundsOK, Live
  <2> QED
    BY <1>0, <2>2, <2>4 DEF TaskFundsOK, HoldsKey, StageOK, SnapshotOK
<1> QED
  BY <1>1, <1>2

\* A service without tasks.
LEMMA ServiceFundsInitial == ServiceInit => ServiceIInv
<1> SUFFICES ASSUME ServiceInit, NEW w \in Withdrawals PROVE TaskFundsOK(w)
  BY ServiceInitial DEF ServiceIInv
<1>1. task[w] = "none" /\ wpc[w] = "idle"
  BY OpsAndCallers DEF ServiceInit, WithdrawalInit, ProcessInit, SubmitterInit
<1> QED
  BY <1>1 DEF TaskFundsOK, HoldsKey, StageOK, SnapshotOK, ClearedOK

\* A step of the withdrawal engine, request, operation or task.
LEMMA WithdrawalKeepsTaskFunds ==
    ASSUME KeyIsOwn, ServiceIInv, WithdrawalEngineStep, UNCHANGED auctionVars,
           NEW w \in Withdrawals
    PROVE  TaskFundsOK(w)'
<1>1. ASSUME NEW v \in Withdrawals, OperationStep(v) PROVE TaskFundsOK(w)'
  BY <1>1, OperationKeepsTaskFunds
<1>2. ASSUME NEW v \in Withdrawals, TaskStep(v, ReservedCash(Debited[v])) PROVE TaskFundsOK(w)'
  BY <1>2, TaskKeepsOwnFunds, TaskKeepsOtherFunds
<1>3. ASSUME NEW c \in Callers, CallerStep(c) PROVE TaskFundsOK(w)'
  BY <1>3, CallerKeepsTaskFunds
<1> QED
  BY <1>1, <1>2, <1>3, WithdrawalEngineSteps

\* Every step of the service.
LEMMA ServiceFundsKeep == KeyIsOwn /\ ServiceIInv /\ [ServiceNext]_serviceVars => ServiceIInv'
<1> SUFFICES ASSUME KeyIsOwn, ServiceIInv, [ServiceNext]_serviceVars PROVE ServiceIInv'
  OBVIOUS
<1>1. SharedIInv'
  BY ServiceStepKeeps DEF ServiceIInv
<1>2. ASSUME NEW w \in Withdrawals PROVE TaskFundsOK(w)'
  <2>1. CASE RfqEngineStep /\ UNCHANGED withdrawalVars
    BY <1>1, <2>1, RfqKeepsTaskFunds
  <2>2. CASE WithdrawalEngineStep /\ UNCHANGED auctionVars
    BY <2>2, WithdrawalKeepsTaskFunds
  <2>3. CASE ServiceCrash \/ ServiceRestart \/ ServiceServe \/ UNCHANGED serviceVars
    BY <2>3, ProcessKeepsTaskFunds
  <2> QED
    BY <2>1, <2>2, <2>3 DEF ServiceNext, ServiceQuiescent
<1> QED
  BY <1>1, <1>2 DEF ServiceIInv

\* A withdrawal that the policy check has cleared stays payable besides all that
\* the quotes reserve, until it is settled: the check runs inside the queue and
\* the task keeps its account key (withdrawal.ts assertFinalPolicy).
THEOREM ServiceFundsInvariant ==
    ASSUME KeyIsOwn
    PROVE  ServiceSpec => []ServiceIInv
<1>1. ServiceIInv /\ [ServiceNext]_serviceVars => ServiceIInv'
  BY ServiceFundsKeep
<1> QED
  BY <1>1, ServiceFundsInitial, PTL DEF ServiceSpec

-----------------------------------------------------------------------------
(* What is promised is what has to be paid. *)

\* What covers a, as a property of every state.
CoveredIsPaid == \A a \in Accounts : Covered(a) <=> PaidFor(a)

\* The standing quotes of a are what is owed by it.
LEMMA StandingIsOwed ==
    ASSUME BookIInv, NEW a
    PROVE  {q \in Standing : AccountOf[q] = a /\ ~MatchSucceeded(q)} = Owed(a)
BY StandingHolds DEF Owed, Held

\* What a quote that passed its funds check makes of them.
LEMMA PromiseOfQuote ==
    ASSUME CountsIInv, NEW r \in Rfqs, job[r] = "funded", NEW a \in Accounts,
           NEW P, P = {q \in (Standing \ Prior(offer[r])) \cup {offer[r]} :
                           AccountOf[q] = a /\ ~MatchSucceeded(q)}
    PROVE  /\ SumCost(P) \in Nat
           /\ AccountOf[offer[r]] = a => SumCost(P) = Cost[offer[r]] + SumCost(Against(r))
           /\ AccountOf[offer[r]] # a => SumCost(P) <= SumCost(Owed(a))
<1> DEFINE q0 == offer[r]
<1>0. BookIInv /\ IsFiniteSet(Held(a)) /\ Owed(a) \in SUBSET Held(a) /\ Held(a) \in SUBSET Quotes
  BY DEF CountsIInv, Owed, Held
<1>1. /\ q0 \in Quotes /\ RfqOf[q0] = r /\ status[r] = "open" /\ best[r] = NoQuote
      /\ NoQuote \notin Quotes
  BY <1>0, PartsOf, AuctionAssumption DEF OfferOK, Quoting, BookOK
<1>2. Prior(q0) = {p \in QuotesOn(r) : MakerOf[p] = MakerOf[q0]} /\ Share(r) = QuotesOn(r)
  BY <1>1 DEF Prior, Share
<1>3. ~MatchSucceeded(q0)
  BY <1>1 DEF MatchSucceeded
<1>4. Owed(a) = {q \in Standing : AccountOf[q] = a /\ ~MatchSucceeded(q)}
  BY <1>0, StandingIsOwed
<1>5. q0 \notin Owed(a) \ Prior(q0)
  BY <1>1, <1>2 DEF Owed, Held
<1> HIDE DEF q0
<1>6. IsFiniteSet(Owed(a)) /\ IsFiniteSet(Owed(a) \ Prior(q0))
  BY <1>0, FS_Subset
<1>7. CASE AccountOf[q0] = a
  <2>1. P = (Owed(a) \ Prior(q0)) \cup {q0} /\ Against(r) = Owed(a) \ Prior(q0)
    BY <1>3, <1>4, <1>7 DEF Against, q0
  <2>2. P \in SUBSET Quotes /\ q0 \in P /\ P \ {q0} = Against(r)
    BY <1>0, <1>1, <1>5, <2>1 DEF q0
  <2>3. IsFiniteSet((Owed(a) \ Prior(q0)) \cup {q0})
    BY <1>6, FS_AddElement, Zenon
  <2>4. IsFiniteSet(P)
    BY <2>1, <2>3
  <2>5. SumCost(P) \in Nat /\ SumCost(P) = Cost[q0] + SumCost(P \ {q0})
    BY <2>2, <2>4, SumCostMonotone
  <2> QED
    BY <1>7, <2>2, <2>5 DEF q0
<1>8. CASE AccountOf[q0] # a
  <2>1. P \in SUBSET Owed(a) /\ Owed(a) \in SUBSET Quotes
    BY <1>0, <1>4, <1>8 DEF q0
  <2>2. SumCost(P) \in Nat /\ SumCost(P) <= SumCost(Owed(a))
    BY <1>6, <2>1, SumCostMonotone
  <2> QED
    BY <1>8, <2>2 DEF q0
<1> QED
  BY <1>7, <1>8

\* Covered speaks of the promises, PaidFor of the handlers: they agree.
LEMMA CoveredWhenPaid == CountsIInv => CoveredIsPaid
<1> SUFFICES ASSUME CountsIInv, NEW a \in Accounts PROVE Covered(a) <=> PaidFor(a)
  BY DEF CoveredIsPaid
<1> DEFINE Part(S) == {q \in S : AccountOf[q] = a /\ ~MatchSucceeded(q)}
           With(r) == (Standing \ Prior(offer[r])) \cup {offer[r]}
<1>0. BookIInv /\ cash[a] \in Int /\ SumCost(Owed(a)) \in Nat
  <2>1. BookIInv /\ IsFiniteSet(Held(a)) /\ Owed(a) \in SUBSET Held(a) /\ Held(a) \in SUBSET Quotes
    BY DEF CountsIInv, Owed, Held
  <2> QED
    BY <2>1, BookTypes, SumCostMonotone DEF DataTypeOK
<1>1. Part(Standing) = Owed(a)
  BY <1>0, StandingIsOwed
<1>2. Covered(a) <=> /\ cash[a] >= SumCost(Part(Standing))
                     /\ \A r \in Rfqs : job[r] = "funded" => cash[a] >= SumCost(Part(With(r)))
  BY DEF Covered, Promises
<1>3. ASSUME NEW r \in Rfqs, job[r] = "funded"
      PROVE  /\ SumCost(Part(With(r))) \in Nat
             /\ AccountOf[offer[r]] = a =>
                    SumCost(Part(With(r))) = Cost[offer[r]] + SumCost(Against(r))
             /\ AccountOf[offer[r]] # a => SumCost(Part(With(r))) <= SumCost(Owed(a))
  BY <1>3, PromiseOfQuote
<1>4. ASSUME NEW r \in Rfqs, job[r] = "funded"
      PROVE  SumCost(Against(r)) \in Nat /\ Cost[offer[r]] \in Nat
  BY <1>4, FundsTyped DEF Quoting
<1> HIDE DEF Part, With
<1>5. ASSUME NEW r \in Rfqs, job[r] = "funded", AccountOf[offer[r]] = a
      PROVE  cash[a] >= SumCost(Part(With(r))) <=> FundedOK(r)
  BY <1>0, <1>3, <1>4, <1>5 DEF FundedOK
<1>6. ASSUME NEW r \in Rfqs, job[r] = "funded", AccountOf[offer[r]] # a, CoveredOK(a)
      PROVE  cash[a] >= SumCost(Part(With(r)))
  BY <1>0, <1>3, <1>6 DEF CoveredOK
<1>7. CoveredOK(a) <=> cash[a] >= SumCost(Part(Standing))
  BY <1>1 DEF CoveredOK
<1> QED
  BY <1>2, <1>5, <1>6, <1>7 DEF PaidFor

-----------------------------------------------------------------------------
(* The theorem about the cash. *)

\* The withdrawal engine debits an account only when one of its withdrawals
\* from it is mined.
LEMMA WithdrawalDebits ==
    ASSUME KeyIsOwn, SharedIInv, WithdrawalEngineStep, NEW a \in Accounts
    PROVE  \/ cash'[a] = cash[a]
           \/ \E w \in Withdrawals : WithdrawalSucceeds(w) /\ Debited[w] = a
<1>1. \/ \E c \in Callers : CallerStep(c)
      \/ \E w \in Withdrawals : OperationStep(w) \/ \E n : TaskStep(w, n)
  BY WithdrawalEngineSteps
<1>2. ASSUME NEW c \in Callers, CallerStep(c) PROVE cash' = cash
  BY <1>2
     DEF CallerStep, SubmitStep, LookUpStep, SubmitStart, SubmitRefused, SubmitClaims,
         SubmitAttributed, SubmitUnattributed, Attributed, MarkUnknown, Get, ReceiptFound,
         ReceiptMissing, NoReceiptApplied, ReadLatest, ReadNonce, UseFound, UseNotFound,
         UnusedExpired, UnusedUnknown, LookUpFails, lookupUnchanged, sharedVars, fundsVars
<1>3. ASSUME NEW w \in Withdrawals, OperationStep(w) PROVE cash' = cash \/ WithdrawalSucceeds(w)
  BY <1>3
     DEF OperationStep, Prepare, Expires, RecoverPrepared, RecoverSent, OpTimePasses,
         OpActionExpires, WithdrawalReverts, WithdrawalPropagates, ForeignUse, lookupUnchanged,
         sharedVars, fundsVars, KeyIsOwn
<1>4. ASSUME NEW w \in Withdrawals, NEW n, TaskStep(w, n) PROVE cash' = cash
  BY <1>4
     DEF TaskStep, TaskStart, PolicySnapshot, PolicyHolds, PreflightThrows, TaskSubmitterStep,
         TaskHashPersisted, TaskSettles, TaskCaught, TaskEnds, sharedVars, fundsVars
<1>5. ASSUME NEW w \in Withdrawals, WithdrawalSucceeds(w), Debited[w] # a
      PROVE  cash'[a] = cash[a]
  <2>1. cash' = [cash EXCEPT ![Debited[w]] = cash[Debited[w]] - Amount[w]]
    BY <1>5 DEF WithdrawalSucceeds, Debit
  <2>2. cash \in [Accounts -> Int]
    BY SharedParts, BookTypes DEF DataTypeOK
  <2> QED
    BY <1>5, <2>1, <2>2
<1> QED
  BY <1>1, <1>2, <1>3, <1>4, <1>5

\* A withdrawal mined while its task waits for it was checked against all that
\* is reserved, and no quote has its funds checked under the key it holds.
LEMMA MinedIsPaid ==
    ASSUME ServiceIInv, NEW w \in Withdrawals, WithdrawalSucceeds(w), UNCHANGED auctionVars,
           task[w] # "none"
    PROVE  PaidFor(Debited[w])'
<1> DEFINE a == Debited[w]
<1>0. /\ SharedIInv /\ TaskFundsOK(w) /\ CountsIInv /\ BookIInv /\ ControlIInv
      /\ WithdrawalTypeOK /\ SubmitterTypeOK /\ w \in Ops /\ w \notin Rfqs
      /\ a \in Accounts /\ Amount[w] \in Nat
  BY SharedParts, OpsAndCallers, Disjoint DEF ServiceIInv
<1>1. Live(w)
  BY DEF WithdrawalSucceeds, MineAs, Live
<1>2. task[w] = "cleared"
  BY <1>0, <1>1, NotYetSent DEF TaskFundsOK, WithdrawalTypeOK, TaskPc
<1>3. cash \in [Accounts -> Int] /\ SumCost(Owed(a)) \in Nat
  <2>1. IsFiniteSet(Held(a)) /\ Owed(a) \in SUBSET Held(a) /\ Held(a) \in SUBSET Quotes
    BY <1>0 DEF CountsIInv, Owed, Held
  <2> QED
    BY <1>0, <2>1, BookTypes, SumCostMonotone DEF DataTypeOK
<1>4. cash[a] >= SumCost(Owed(a)) + Amount[w] /\ lockedBy[a] = w
  BY <1>0, <1>1, <1>2 DEF TaskFundsOK, ClearedOK, HoldsKey
<1>5. cash'[a] = cash[a] - Amount[w]
  BY <1>0, <1>3 DEF WithdrawalSucceeds, Debit
<1>6. Owed(a)' = Owed(a)
  BY <1>0, OperationBeside, WithdrawalNothingMore DEF OperationStep
<1>7. CoveredOK(a)'
  BY <1>0, <1>3, <1>4, <1>5, <1>6 DEF CoveredOK
<1>8. ASSUME NEW r \in Rfqs, job'[r] = "funded" PROVE AccountOf[offer'[r]] # a
  <2>1. Quoting(r) /\ offer'[r] = offer[r]
    BY <1>8 DEF auctionVars, handlerVars, Quoting
  <2>2. lockedBy[AccountOf[offer[r]]] = r
    BY <1>0, <2>1, PartsOf DEF OfferOK
  <2> QED
    BY <1>0, <1>4, <2>1, <2>2
<1> QED
  BY <1>7, <1>8 DEF PaidFor

\* Whatever pays for its quotes goes on doing so.
LEMMA PaidStays ==
    ASSUME KeyIsOwn, ServiceIInv, SharedIInv', [ServiceNext]_serviceVars,
           NEW a \in Accounts, PaidFor(a)
    PROVE  PaidFor(a)' \/ AbandonedAndMined(a)
<1>0. /\ SharedIInv /\ CountsIInv /\ BookIInv /\ BookIInv'
  BY SharedParts DEF ServiceIInv, SharedIInv, CountsIInv
<1>1. CASE RfqEngineStep
  BY <1>0, <1>1, RfqStepKeepsPaid DEF RfqEngineStep
<1>2. CASE WithdrawalEngineStep /\ UNCHANGED auctionVars
  <2>1. CASE cash'[a] = cash[a]
    <3>1. \E w \in Withdrawals : Beside(w)
      BY <1>0, <1>2, WithdrawalEngineBeside
    <3> QED
      BY <1>0, <1>2, <2>1, <3>1, WithdrawalNothingMore, NothingAdded
  <2>2. ASSUME NEW w \in Withdrawals, WithdrawalSucceeds(w), Debited[w] = a
        PROVE  PaidFor(a)' \/ AbandonedAndMined(a)
    <3>1. CASE task[w] = "none"
      <4>1. chain[w] = "pending" /\ chain'[w] = "success"
        BY <1>0, <2>2, SharedParts, OpsAndCallers
           DEF WithdrawalSucceeds, MineAs, SubmitterTypeOK
      <4> QED
        BY <2>2, <3>1, <4>1 DEF AbandonedAndMined
    <3>2. CASE task[w] # "none"
      BY <1>2, <2>2, <3>2, MinedIsPaid
    <3> QED
      BY <3>1, <3>2
  <2> QED
    BY <1>0, <1>2, <2>1, <2>2, WithdrawalDebits
<1>3. CASE ServiceCrash \/ ServiceRestart \/ ServiceServe \/ UNCHANGED serviceVars
  <2>1. Unfinished \cup UnfinishedOps \in SUBSET Ops
    BY Disjoint DEF Unfinished, UnfinishedOps
  <2>2. \/ Crash \/ UNCHANGED vars
        \/ /\ (\E records \in SUBSET Ops : ProcessStarts(records)) \/ StartServing
           /\ UNCHANGED auctionVars
    BY <1>3, <2>1 DEF ServiceCrash, ServiceRestart, ServiceServe, Crash, serviceVars, vars
  <2>3. /\ NothingMore /\ UNCHANGED cash
        /\ \A x \in Rfqs : job'[x] = "funded" => job[x] = "funded"
    BY <2>2, ProcessNothingMore
  <2> QED
    BY <1>0, <2>3, NothingAdded
<1> QED
  BY <1>1, <1>2, <1>3 DEF ServiceNext, ServiceQuiescent

\* An account that covers its quotes keeps covering them, whatever both engines
\* do in between, crashes and recover()s included, as long as no withdrawal is
\* mined after its task has given it up (withdrawal.ts executeSubmission).
THEOREM QuotesStayCovered ==
    ASSUME KeyIsOwn
    PROVE  ServiceSpec => ReservationsStayCovered
<1>1. ServiceIInv => SharedIInv /\ CoveredIsPaid
  BY SharedParts, CoveredWhenPaid DEF ServiceIInv
<1>2. ServiceIInv /\ SharedIInv' /\ CoveredIsPaid /\ CoveredIsPaid' /\ [ServiceNext]_serviceVars
      => [\A a \in Accounts : Covered(a) => Covered(a)' \/ AbandonedAndMined(a)]_serviceVars
  BY PaidStays DEF CoveredIsPaid
<1> QED
  BY <1>1, <1>2, ServiceFundsInvariant, PTL DEF ServiceSpec, ReservationsStayCovered

=============================================================================
