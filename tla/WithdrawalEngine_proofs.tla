--------------------- MODULE WithdrawalEngine_proofs ---------------------
(***************************************************************************)
(* The withdrawal engine, for any number of withdrawals, requests, crashes *)
(* and accounts: its recorded outcomes are the chain's, no transaction is  *)
(* broadcast twice, no second one is in the air, and no account that this  *)
(* process alone debits is overdrawn.                                      *)
(*                                                                         *)
(* The argument has three layers.  ControlIInv says what a request and a   *)
(* background task that are under way still know of the operation's record *)
(* and of the chain: lookups take no lock, so each of their facts has to   *)
(* be one that no later step of the task can undo.                         *)
(*                                                                         *)
(* WithdrawalIInv is about the one wallet.  OneLiveTx is kept because a call *)
(* enters the guarded section only when nothing is latched; OpsGuarded    *)
(* says why then nothing is live.  It has to follow a live transaction     *)
(* through the states in which no latch holds it: its own call is in the   *)
(* section or about to be handled, or the process is down, or the record   *)
(* waits for recover(), or recover() is looking it up at this moment.      *)
(*                                                                         *)
(* OpFundsIInv is about the cash.  What the final policy check has read of   *)
(* an account is still there at the hand-over and, until it is mined,      *)
(* after it.  Another holder of the executor's key may send a signed       *)
(* action first (Stolen): the account is then not answered for, until this *)
(* process hands the same transaction over itself, which is when the       *)
(* withdrawal counts as its own again.  Honest(w) says that no account's   *)
(* cash but for w itself has been taken in that way.                       *)
(***************************************************************************)
EXTENDS WithdrawalEngine, TxSubmitter_proofs

\* A submission that has not been given to the node.
Fresh(w) == task[w] = "scheduled" \/ wpc[w] \in {"queued", "writing", "unsent", "refused"}

\* No request is about w.
Unasked(w) == \A c \in Callers : target[c] # w

\* The background submission of w: a submission that is fresh cannot be
\* known to the chain, unless somebody else has sent it.
TaskOK(w) ==
    /\ (wpc[w] = "idle" <=> task[w] \in {"none", "scheduled"})
    /\ wpc[w] \in {"sending", "hash", "waiting", "mined"} => task[w] = "cleared"
    /\ wpc[w] = "mined" => Resolved(w)
    /\ Fresh(w) => opStatus[w] = "submitting" /\ sends[w] = 0 /\ Unasked(w)
    /\ sends[w] \in {0, 1}
    /\ sends[w] = 0 => chain[w] \in {"none", "success"}

\* The recorded outcome is the chain's.
OutcomeOK(w) ==
    /\ opStatus[w] = "confirmed" => chain[w] = "success"
    /\ opStatus[w] = "reverted" => chain[w] = "reverted"
    /\ opStatus[w] = "rejected" => sends[w] = 0
    /\ opStatus[w] = "expired" => sends[w] = 0 \/ (expired[w] /\ chain[w] # "success")

\* A record that is new belongs to no task, and to no lookup.
OpRecordOK(w) ==
    /\ opStatus[w] \in {"none", "prepared"} =>
         /\ sends[w] = 0 /\ task[w] = "none"
         /\ \A c \in Callers : target[c] = w => call[c] = "checking"
    /\ OutcomeOK(w)

\* What a request has read and will act upon is still so: an expiry it saw
\* stays, an unused nonce past the expiry stays unused, a claim is its own.
CallerOK(c) ==
    /\ call[c] = "idle" => target[c] = Nobody /\ ~sawExpired[c]
    /\ call[c] # "idle" => target[c] \in Withdrawals
    /\ sawExpired[c] => expired[target[c]]
    /\ call[c] = "unused" /\ sawExpired[c] => chain[target[c]] # "success"
    /\ call[c] = "checking" => /\ c \in Clients
                               /\ opStatus[target[c]] \in {"prepared", "expired"}
                               /\ task[target[c]] = "none" /\ sends[target[c]] = 0
                               /\ claimedBy[target[c]] = c
                               /\ \A d \in Callers : target[d] = target[c] => d = c

\* Tasks and requests run only in a process that serves, recovery before it.
OpPhaseOK ==
    /\ phase # "serving" => /\ \A w \in Withdrawals : task[w] = "none"
                            /\ \A c \in Clients : call[c] = "idle"
    /\ phase # "recovering" => todo = {} /\ call[Recoverer] = "idle"

\* Requests, tasks and records.
ControlIInv ==
    /\ WithdrawalEngineTypeOK
    /\ QueueOK
    /\ OpPhaseOK
    /\ \A w \in Withdrawals : TaskOK(w) /\ OpRecordOK(w)
    /\ \A c \in Callers : CallerOK(c)

\* What the next call would find of a live transaction.
OpGuarded(o) ==
    \/ wpc[o] \in {"sending", "hash", "waiting"}
    \/ wpc[o] = "lost" /\ (LostBroadcast \in unknown \/ latchTx = o)
    \/ o \in unknown
    \/ phase = "down"
    \/ o \in todo
    \/ target[Recoverer] = o

\* Every live withdrawal is followed.
OpsGuarded == \A w \in Withdrawals : Live(w) => OpGuarded(w)

\* What the engine keeps of the executor, alone or beside another one.
WithdrawalIInv ==
    /\ ControlIInv
    /\ OpsGuarded
    /\ SectionAlone
    /\ OneLiveTx

\* Alone, it is the only one that sends.
WithdrawalsAlone ==
    \A o \in Ops \ Withdrawals : wpc[o] = "idle" /\ chain[o] = "none" /\ sends[o] = 0

AloneIInv == WithdrawalIInv /\ WithdrawalsAlone

\* A call of w that passes the guard finds no transaction of another engine.
ClearFor(w) == Begin(w) => \A o \in Ops \ Withdrawals : ~Live(o)

\* A start that hands recover() at least every unfinished withdrawal.
RestartOver(records) ==
    /\ records \in SUBSET Ops
    /\ UnfinishedOps \subseteq records
    /\ ProcessStarts(records)
    /\ UNCHANGED withdrawalVars

\* The transaction of w was mined though this process never sent it.
Stolen(w) == chain[w] = "success" /\ sends[w] = 0

\* Of the withdrawals from the account of w, no other one is stolen.
Honest(w) == \A x \in Withdrawals : Stolen(x) /\ Debited[x] = Debited[w] => x = w

\* What the policy check of w has read, and what it has cleared, is there.
FundsOK(w) ==
    Honest(w) =>
      /\ task[w] = "snapped" /\ wpc[w] = "writing" =>
           cash[Debited[w]] >= IF Stolen(w) THEN snapshot[w] - Amount[w] ELSE snapshot[w]
      /\ task[w] = "cleared" /\ wpc[w] = "writing" =>
           cash[Debited[w]] >= IF Stolen(w) THEN 0 ELSE Amount[w]
      /\ Live(w) => cash[Debited[w]] >= Amount[w]

\* An account nobody else has debited is not in debt.
SoundOK(a) ==
    (\A x \in Withdrawals : Stolen(x) => Debited[x] # a) => cash[a] >= 0

\* Where an operation is that was not handed over or not yet checked.
Untried(w) == /\ chain[w] = "none" => sends[w] = 0
              /\ wpc[w] = "queued" => task[w] = "queued"

\* The cash.
OpFundsIInv ==
    /\ AloneIInv
    /\ \A w \in Withdrawals : FundsOK(w) /\ Untried(w)
    /\ \A a \in Accounts : SoundOK(a)

-----------------------------------------------------------------------------
(* The parts of the invariant. *)

\* The types, spelled out.
LEMMA ControlTypes ==
    ASSUME ControlIInv
    PROVE  /\ SubmitterTypeOK /\ WithdrawalTypeOK
           /\ wpc \in [Ops -> CallState] /\ chain \in [Ops -> ChainState]
           /\ phase \in {"down", "recovering", "serving"} /\ todo \subseteq Ops
BY DEF ControlIInv, WithdrawalEngineTypeOK, ProcessTypeOK, SubmitterTypeOK

\* What the constants say of operations and callers.
LEMMA OpsAndCallers ==
    /\ \A w \in Withdrawals : w \in Ops /\ w # Nobody /\ Debited[w] \in Accounts /\ Amount[w] \in Nat
    /\ Recoverer \in Callers /\ Recoverer \notin Clients /\ Nobody \notin Callers
    /\ \A c : c \in Callers <=> c \in Clients \/ c = Recoverer
BY WithdrawalAssumption, ProcessAssumption DEF Callers

\* Who may run.
Allowed(c) == (c \in Clients /\ phase = "serving") \/ (c = Recoverer /\ phase = "recovering")

\* A caller that is not idle may run.
LEMMA CallerRuns ==
    ASSUME ControlIInv, NEW c \in Callers, call[c] # "idle"
    PROVE  Allowed(c) /\ target[c] \in Withdrawals /\ target[c] \in Ops
BY OpsAndCallers, ControlTypes DEF ControlIInv, OpPhaseOK, CallerOK, Allowed

\* A task that is there runs in a process that serves.
LEMMA TaskRuns ==
    ASSUME ControlIInv, NEW w \in Withdrawals, task[w] # "none" \/ wpc[w] # "idle"
    PROVE  phase = "serving" /\ todo = {} /\ call[Recoverer] = "idle" /\ target[Recoverer] = Nobody
BY OpsAndCallers DEF ControlIInv, OpPhaseOK, TaskOK, CallerOK

\* A step that concerns one operation and one caller.
LEMMA LocalStep ==
    ASSUME ControlIInv, WithdrawalEngineTypeOK', QueueOK', NEW c \in Callers, NEW w \in Withdrawals,
           phase' = phase, todo' = todo \/ phase = "recovering",
           \A o \in Ops : o # w => /\ wpc'[o] = wpc[o] /\ chain'[o] = chain[o]
                                   /\ sends'[o] = sends[o] /\ expired'[o] = expired[o],
           \A v \in Withdrawals : v # w => opStatus'[v] = opStatus[v] /\ task'[v] = task[v],
           \A d \in Callers : d # c => /\ call'[d] = call[d] /\ target'[d] = target[d]
                                       /\ sawExpired'[d] = sawExpired[d],
           \A v \in Withdrawals, d \in Callers : d # c /\ claimedBy[v] = d => claimedBy'[v] = d,
           \/ target[c] \in {Nobody, w} /\ target'[c] \in {Nobody, w}
           \/ target'[c] = target[c] /\ call'[c] = call[c],
           TaskOK(w)', OpRecordOK(w)',
           \A d \in Callers : d = c \/ target[d] = w => CallerOK(d)',
           task'[w] = "none" \/ phase = "serving",
           call'[c] = "idle" \/ Allowed(c)
    PROVE  ControlIInv'
<1>1. OpPhaseOK'
  BY OpsAndCallers DEF ControlIInv, OpPhaseOK, Allowed
<1>2. ASSUME NEW v \in Withdrawals, v # w PROVE TaskOK(v)' /\ OpRecordOK(v)'
  <2>1. TaskOK(v) /\ OpRecordOK(v) /\ v # Nobody /\ v \in Ops
    BY OpsAndCallers DEF ControlIInv
  <2>3. \A d \in Callers : target'[d] = v => target[d] = v /\ call'[d] = call[d]
    BY <1>2, <2>1
  <2>4. TaskOK(v)'
    BY <1>2, <2>1, <2>3 DEF TaskOK, Fresh, Unasked, Resolved
  <2>5. OpRecordOK(v)'
    BY <1>2, <2>1, <2>3 DEF OpRecordOK, OutcomeOK, CallerOK
  <2> QED
    BY <2>4, <2>5
<1>3. ASSUME NEW d \in Callers, d # c, target[d] # w PROVE CallerOK(d)'
  BY <1>3, OpsAndCallers DEF ControlIInv, CallerOK
<1> QED
  BY <1>1, <1>2, <1>3 DEF ControlIInv

-----------------------------------------------------------------------------
(* Types. *)

\* Requests keep the types.
LEMMA CallerTypes ==
    ASSUME ControlIInv, NEW c \in Callers, CallerStep(c)
    PROVE  WithdrawalEngineTypeOK'
<1> USE DEF WithdrawalEngineTypeOK, ProcessTypeOK, SubmitterTypeOK, WithdrawalTypeOK, fundsVars,
            processVars, lookupUnchanged, latchVars, Proceed, Ask, Answer, SetStatus, OpStatus, CallPc
<1>0. WithdrawalEngineTypeOK
  BY DEF ControlIInv
<1>1. call[c] # "idle" => target[c] \in Withdrawals /\ target[c] \in Ops
  BY CallerRuns
<1>2. ASSUME NEW w \in Withdrawals, SubmitStart(c, w) \/ Get(c, w) PROVE WithdrawalEngineTypeOK'
  <2>1. CASE SubmitStart(c, w)
    BY <1>0, <2>1 DEF SubmitStart
  <2>2. CASE Get(c, w)
    <3>1. \E pc \in CallPc : Ask(c, w, pc)
      BY <2>2 DEF Get, LookUp
    <3>2. UNCHANGED <<opStatus, opHash, claimedBy, latchVars, lookupUnchanged>>
      BY <2>2 DEF Get
    <3> QED
      BY <1>0, <3>1, <3>2
  <2> QED
    BY <1>2, <2>1, <2>2
<1>3. CASE SubmitRefused(c) \/ ReceiptMissing(c) \/ ReadLatest(c) \/ ReadNonce(c) \/ LookUpFails(c)
  BY <1>0, <1>1, <1>3 DEF SubmitRefused, ReceiptMissing, ReadLatest, ReadNonce, LookUpFails
<1>4. CASE SubmitClaims(c)
  BY <1>0, <1>1, <1>4 DEF SubmitClaims, sharedVars, submitterVars, TaskPc
<1>5. CASE SubmitAttributed(c) \/ UseFound(c)
  BY <1>0, <1>1, <1>5 DEF SubmitAttributed, UseFound, Attributed
<1>6. CASE SubmitUnattributed(c) \/ UseNotFound(c) \/ UnusedUnknown(c) \/ NoReceiptApplied(c)
  BY <1>0, <1>1, <1>6
     DEF SubmitUnattributed, UseNotFound, UnusedUnknown, NoReceiptApplied, MarkUnknown, Arm,
         UnknownAfterArm, LatchAfterArm
<1>7. CASE ReceiptFound(c) \/ UnusedExpired(c)
  <2>1. CASE ReceiptFound(c)
    BY <1>0, <1>1, <2>1 DEF ReceiptFound, Clear, ReceiptStatus
  <2>2. CASE UnusedExpired(c)
    BY <1>0, <1>1, <2>2 DEF UnusedExpired, Clear
  <2> QED
    BY <1>7, <2>1, <2>2
<1> QED
  BY <1>2, <1>3, <1>4, <1>5, <1>6, <1>7 DEF CallerStep, SubmitStep, LookUpStep

\* So do operations and the chain.
LEMMA OperationTypes ==
    ASSUME ControlIInv, NEW w \in Withdrawals, OperationStep(w)
    PROVE  WithdrawalEngineTypeOK'
<1> USE DEF WithdrawalEngineTypeOK, ProcessTypeOK, SubmitterTypeOK, WithdrawalTypeOK, fundsVars,
            processVars, lookupUnchanged, latchVars, SetStatus, OpStatus, sharedVars, requestVars,
            submitterVars
<1>0. WithdrawalEngineTypeOK /\ w \in Ops /\ Debited[w] \in Accounts /\ Amount[w] \in Nat
      /\ Recoverer \in Callers
  BY OpsAndCallers DEF ControlIInv
<1>1. CASE Prepare(w) \/ Expires(w) \/ OpTimePasses(w)
  BY <1>0, <1>1 DEF Prepare, Expires, ExpirePrepared, OpTimePasses
<1>2. CASE RecoverPrepared(w) \/ RecoverSent(w)
  <2>1. CASE RecoverPrepared(w)
    BY <1>0, <2>1 DEF RecoverPrepared, RecoverTurnOf, TakeTurn, ExpirePrepared
  <2>2. CASE RecoverSent(w)
    BY <1>0, <2>2 DEF RecoverSent, RecoverTurnOf, TakeTurn, LookUp, Ask, CallPc
  <2> QED
    BY <1>2, <2>1, <2>2
<1>3. CASE OpActionExpires(w) \/ WithdrawalReverts(w) \/ WithdrawalPropagates(w)
  BY <1>0, <1>3 DEF OpActionExpires, Expire, WithdrawalReverts, WithdrawalPropagates, MineAs,
                    NodeAccepts, withdrawalVars, ChainState
<1>4. CASE WithdrawalSucceeds(w) \/ ForeignUse(w)
  <2>1. /\ cash' = cash \/ cash' = [cash EXCEPT ![Debited[w]] = @ - Amount[w]]
        /\ chain' = chain \/ chain' = [chain EXCEPT ![w] = "success"]
        /\ foreign' = foreign \/ foreign' = [foreign EXCEPT ![w] = TRUE]
    BY <1>4 DEF WithdrawalSucceeds, ForeignUse, MineAs, Debit, withdrawalVars
  <2>a. cash' \in [Accounts -> Int]
    BY <1>0, <2>1
  <2>b. chain' \in [Ops -> ChainState]
    BY <1>0, <2>1 DEF ChainState
  <2>2. foreign' \in [Withdrawals -> BOOLEAN]
    BY <1>0, <2>1
  <2> QED
    BY <1>0, <1>4, <2>a, <2>b, <2>2 DEF WithdrawalSucceeds, ForeignUse, MineAs, withdrawalVars
<1> QED
  BY <1>1, <1>2, <1>3, <1>4 DEF OperationStep

\* So does the task of a submission, whatever is reserved when it checks.
LEMMA TaskTypes ==
    ASSUME ControlIInv, NEW w \in Withdrawals, NEW n, TaskStep(w, n)
    PROVE  WithdrawalEngineTypeOK'
<1> USE DEF WithdrawalEngineTypeOK, ProcessTypeOK, SubmitterTypeOK, WithdrawalTypeOK, fundsVars,
            processVars, latchVars, SetStatus, OpStatus, sharedVars, requestVars, submitterVars,
            taskUnchanged, withdrawalVars, TaskPc, CallState
<1>0. WithdrawalEngineTypeOK /\ QueueOK /\ w \in Ops /\ Debited[w] \in Accounts
  BY OpsAndCallers DEF ControlIInv
<1>1. CASE TaskStart(w)
  BY <1>0, <1>1 DEF TaskStart, LockAccounts, Enqueue
<1>2. CASE PolicySnapshot(w) \/ PolicyHolds(w, n)
  <2>1. CASE PolicySnapshot(w)
    BY <1>0, <2>1 DEF PolicySnapshot
  <2>2. CASE PolicyHolds(w, n)
    BY <1>0, <2>2 DEF PolicyHolds
  <2> QED
    BY <1>2, <2>1, <2>2
<1>3. ASSUME Running(w) PROVE Tail(writeQueue) \in Seq(Ops)
  BY <1>0, <1>3, TailTyped
<1>4. wpc[w] \in InSection => Running(w)
  BY <1>0 DEF QueueOK
<1>5. CASE PreflightThrows(w) \/ TaskSubmitterStep(w) \/ TaskHashPersisted(w)
  <2>1. /\ writeQueue' = writeQueue \/ (Running(w) /\ writeQueue' = Tail(writeQueue))
        /\ \E x \in CallState : wpc' = [wpc EXCEPT ![w] = x]
    BY <1>4, <1>5
       DEF PreflightThrows, PreflightFails, TaskSubmitterStep, CallStep, Refuse, Begin, HandOver,
           HashReturns, SendFails, ReceiptArrives, ReceiptLost, LatchHash, TaskHashPersisted,
           HashAcknowledged, Return, InSection
  <2>2. writeQueue' \in Seq(Ops) /\ wpc' \in [Ops -> CallState]
    BY <1>0, <1>3, <2>1
  <2>3. /\ UNCHANGED <<expired, lockedBy, cash, phase, todo, crashes, opLate, claimedBy, task,
                       snapshot, call, target, sawExpired, foreign>>
        /\ \/ UNCHANGED <<chain, sends>>
           \/ /\ chain' = [chain EXCEPT ![w] = IF @ = "none" THEN "handed" ELSE @]
              /\ sends' = [sends EXCEPT ![w] = @ + 1]
        /\ latchTx' \in {latchTx, w} /\ unknown' \subseteq unknown \cup {LostBroadcast}
        /\ \/ UNCHANGED <<opStatus, opHash>>
           \/ /\ opStatus' = [opStatus EXCEPT ![w] = "submitted"]
              /\ opHash' = [opHash EXCEPT ![w] = TRUE]
    BY <1>5
       DEF PreflightThrows, PreflightFails, TaskSubmitterStep, CallStep, Refuse, Begin, HandOver,
           HashReturns, SendFails, ReceiptArrives, ReceiptLost, LatchHash, TaskHashPersisted,
           HashAcknowledged
  <2>4. chain' \in [Ops -> ChainState] /\ sends' \in [Ops -> Nat]
    <3>1. chain \in [Ops -> ChainState] /\ sends \in [Ops -> Nat] /\ w \in Ops
      BY <1>0
    <3>2. CASE UNCHANGED <<chain, sends>>
      BY <3>1, <3>2
    <3>3. CASE /\ chain' = [chain EXCEPT ![w] = IF @ = "none" THEN "handed" ELSE @]
               /\ sends' = [sends EXCEPT ![w] = @ + 1]
      <4>1. chain' \in [Ops -> ChainState]
        BY <3>1, <3>3, Zenon DEF ChainState
      <4>2. sends' \in [Ops -> Nat]
        BY <3>1, <3>3
      <4> QED BY <4>1, <4>2
    <3> QED
      BY <2>3, <3>2, <3>3
  <2>5. opStatus' \in [Withdrawals -> OpStatus] /\ opHash' \in [Withdrawals -> BOOLEAN]
    BY <1>0, <2>3
  <2> QED
    BY <1>0, <2>2, <2>3, <2>4, <2>5
<1>6. CASE TaskSettles(w) \/ TaskCaught(w)
  <2>1. /\ latchTx' \in {latchTx, w, NoTx} /\ unknown' \subseteq unknown \cup {w, ManyLost}
        /\ \E s \in {"confirmed", "reverted", "submitted", "rejected", "unknown"} : SetStatus(w, s)
    BY <1>6 DEF TaskSettles, TaskCaught, Clear, Arm, UnknownAfterArm, LatchAfterArm, ReceiptStatus
  <2>2. TaskEnds(w)
    BY <1>6 DEF TaskSettles, TaskCaught
  <2> QED
    BY <1>0, <2>1, <2>2 DEF TaskEnds, UnlockAccounts
<1> QED
  BY <1>1, <1>2, <1>5, <1>6 DEF TaskStep

\* So does the life of the process.
LEMMA ProcessTypes ==
    ASSUME ControlIInv,
           \/ WithdrawalCrash \/ WithdrawalServe \/ UNCHANGED wvars
           \/ \E records : RestartOver(records)
    PROVE  WithdrawalEngineTypeOK'
<1> USE DEF WithdrawalEngineTypeOK, ProcessTypeOK, SubmitterTypeOK, WithdrawalTypeOK, fundsVars,
            processVars, sharedVars, submitterVars, wvars, withdrawalVars
<1>0. WithdrawalEngineTypeOK
  BY DEF ControlIInv
<1>1. CASE WithdrawalCrash
  BY <1>0, <1>1, ProcessAssumption
     DEF WithdrawalCrash, ProcessStops, SubmitterCrash, WithdrawalForgets, TaskPc, CallPc, CallState
<1>2. CASE \E records : RestartOver(records)
  BY <1>0, <1>2 DEF RestartOver, ProcessStarts
<1>3. CASE WithdrawalServe \/ UNCHANGED wvars
  BY <1>0, <1>3 DEF WithdrawalServe, StartServing
<1> QED
  BY <1>1, <1>2, <1>3

-----------------------------------------------------------------------------
(* Requests. *)

\* A request that goes on, or is answered: what is left to show.
LEMMA CallerStepKeeps ==
    ASSUME ControlIInv, NEW c \in Callers, CallerStep(c), NEW w \in Withdrawals,
           UNCHANGED <<chain, expired, sends, wpc, writeQueue, phase, todo>>,
           \A v \in Withdrawals : v # w => opStatus'[v] = opStatus[v] /\ task'[v] = task[v],
           \A d \in Callers : d # c => /\ call'[d] = call[d] /\ target'[d] = target[d]
                                       /\ sawExpired'[d] = sawExpired[d],
           \A v \in Withdrawals, d \in Callers : d # c /\ claimedBy[v] = d => claimedBy'[v] = d,
           target[c] \in {Nobody, w}, target'[c] \in {Nobody, w},
           TaskOK(w)', OpRecordOK(w)', CallerOK(c)',
           \A d \in Callers : d # c /\ target[d] = w => CallerOK(d)',
           task'[w] = "none" \/ phase = "serving",
           call'[c] = "idle" \/ Allowed(c)
    PROVE  ControlIInv'
<1>1. QueueOK'
  BY SameQueue DEF ControlIInv
<1>2. WithdrawalEngineTypeOK'
  BY CallerTypes
<1> QED
  BY <1>1, <1>2, LocalStep

\* A request begins: a submit claims a prepared operation, a lookup reads one
\* that was submitted.
LEMMA BeginsKeeps ==
    ASSUME ControlIInv, NEW c \in Callers, NEW w \in Withdrawals, SubmitStart(c, w) \/ Get(c, w)
    PROVE  ControlIInv'
<1>0. /\ TaskOK(w) /\ OpRecordOK(w) /\ WithdrawalTypeOK /\ w # Nobody /\ w \in Ops
      /\ \A d \in Callers : CallerOK(d)
  BY OpsAndCallers, ControlTypes DEF ControlIInv
<1>1. /\ UNCHANGED <<chain, expired, sends, wpc, writeQueue, phase, todo, opStatus, task, sawExpired>>
      /\ c \in Clients /\ phase = "serving" /\ call[c] = "idle"
      /\ target' = [target EXCEPT ![c] = w]
      /\ \E x \in CallPc : call' = [call EXCEPT ![c] = x]
  BY DEF SubmitStart, Get, LookUp, Ask, Serving, lookupUnchanged, processVars, CallPc
<1>2. /\ target'[c] = w /\ target[c] = Nobody /\ ~sawExpired[c]
      /\ \A d \in Callers : d # c => /\ call'[d] = call[d] /\ target'[d] = target[d]
                                    /\ sawExpired'[d] = sawExpired[d]
  BY <1>0, <1>1 DEF WithdrawalTypeOK, CallerOK
<1>3. CASE SubmitStart(c, w)
  <2>1. /\ claimedBy[w] = Nobody /\ opStatus[w] = "prepared" /\ call'[c] = "checking"
        /\ claimedBy' = [claimedBy EXCEPT ![w] = c]
    BY <1>0, <1>1, <1>3 DEF SubmitStart, Ask, WithdrawalTypeOK
  <2>2. claimedBy'[w] = c /\ \A v \in Withdrawals : v # w => claimedBy'[v] = claimedBy[v]
    BY <1>0, <2>1 DEF WithdrawalTypeOK
  <2>3. \A d \in Callers : target[d] # w
    BY <1>0, <2>1, OpsAndCallers DEF OpRecordOK, CallerOK
  <2>4. TaskOK(w)' /\ OpRecordOK(w)'
    BY <1>0, <1>1, <1>2, <2>1, <2>3 DEF TaskOK, OpRecordOK, OutcomeOK, Fresh, Resolved
  <2>5. CallerOK(c)'
    BY <1>0, <1>1, <1>2, <2>1, <2>2, <2>3 DEF CallerOK, OpRecordOK
  <2>6. CallerStep(c)
    BY <1>3 DEF CallerStep, SubmitStep
  <2> QED
    BY <1>0, <1>1, <1>2, <2>1, <2>2, <2>3, <2>4, <2>5, <2>6, OpsAndCallers, CallerStepKeeps
       DEF Allowed
<1>4. CASE Get(c, w)
  <2>1. /\ call'[c] \in {"receipt", "latest"} /\ claimedBy' = claimedBy
        /\ opStatus[w] \in {"submitted", "submitting", "unknown"}
        /\ opStatus[w] = "submitting" => task[w] = "none"
    BY <1>0, <1>1, <1>4 DEF Get, LookUp, Submitted, Unsettled, Ask, WithdrawalTypeOK
  <2>2. TaskOK(w)' /\ OpRecordOK(w)'
    BY <1>0, <1>1, <1>2, <2>1 DEF TaskOK, OpRecordOK, OutcomeOK, Fresh, Resolved, Unasked
  <2>3. \A d \in Callers : target[d] = w => call[d] # "checking"
    BY <1>0, <2>1 DEF CallerOK
  <2>4. CallerOK(c)'
    BY <1>0, <1>1, <1>2, <2>1 DEF CallerOK
  <2>5. ASSUME NEW d \in Callers, d # c, target[d] = w PROVE CallerOK(d)'
    BY <1>0, <1>1, <1>2, <2>1, <2>3, <2>5 DEF CallerOK
  <2>6. CallerStep(c)
    BY <1>4 DEF CallerStep
  <2> QED
    BY <1>0, <1>1, <1>2, <2>1, <2>2, <2>4, <2>5, <2>6, OpsAndCallers, CallerStepKeeps DEF Allowed
<1> QED
  BY <1>3, <1>4

\* A request is answered, perhaps with a new status of the operation.
LEMMA AnswerKeeps ==
    ASSUME ControlIInv, NEW c \in Callers, CallerStep(c), call[c] # "idle", Answer(c),
           NEW w \in Withdrawals, w = target[c],
           UNCHANGED <<chain, expired, sends, wpc, writeQueue, phase, todo, task>>,
           \/ opStatus' = opStatus
           \/ \E s \in OpStatus \ {"none", "prepared"} : SetStatus(w, s),
           OutcomeOK(w)'
    PROVE  ControlIInv'
<1>0. /\ TaskOK(w) /\ OpRecordOK(w) /\ WithdrawalTypeOK /\ w # Nobody /\ w \in Ops
      /\ \A d \in Callers : CallerOK(d)
  BY OpsAndCallers, ControlTypes DEF ControlIInv
<1>2. /\ call'[c] = "idle" /\ target'[c] = Nobody /\ sawExpired'[c] = FALSE
      /\ \A d \in Callers : d # c => /\ call'[d] = call[d] /\ target'[d] = target[d]
                                    /\ sawExpired'[d] = sawExpired[d]
      /\ \A v \in Withdrawals, d \in Callers : d # c /\ claimedBy[v] = d => claimedBy'[v] = d
  BY <1>0 DEF Answer, WithdrawalTypeOK
<1>3. \A v \in Withdrawals : v # w => opStatus'[v] = opStatus[v] /\ task'[v] = task[v]
  BY <1>0 DEF SetStatus, WithdrawalTypeOK
<1>4. \/ opStatus'[w] = opStatus[w]
      \/ opStatus'[w] \notin {"none", "prepared"}
  BY <1>0 DEF SetStatus, WithdrawalTypeOK
<1>5. TaskOK(w)'
  BY <1>0 DEF TaskOK, Fresh, Unasked, Resolved
<1>6. OpRecordOK(w)'
  BY <1>0, <1>2, <1>4 DEF OpRecordOK
<1>7. CallerOK(c)'
  BY <1>2 DEF CallerOK
<1>8. ASSUME NEW d \in Callers, d # c, target[d] = w PROVE CallerOK(d)'
  <2>1. call[d] # "checking"
    BY <1>0, <1>8 DEF CallerOK
  <2> QED
    BY <1>0, <1>2, <1>8, <2>1 DEF CallerOK
<1>9. task'[w] = "none" \/ phase = "serving"
  BY TaskRuns
<1> QED
  BY <1>2, <1>3, <1>5, <1>6, <1>7, <1>8, <1>9, CallerStepKeeps

\* The requests that are answered, or that throw.
LEMMA AnswersKeep ==
    ASSUME ControlIInv, NEW c \in Callers, CallerStep(c),
           \/ SubmitRefused(c) \/ LookUpFails(c) \/ NoReceiptApplied(c)
           \/ SubmitUnattributed(c) \/ UseNotFound(c) \/ UnusedUnknown(c)
           \/ ReceiptFound(c) \/ UnusedExpired(c)
    PROVE  ControlIInv'
<1>1. call[c] # "idle" /\ Answer(c)
  BY DEF SubmitRefused, LookUpFails, NoReceiptApplied, SubmitUnattributed, UseNotFound,
         UnusedUnknown, MarkUnknown, ReceiptFound, UnusedExpired
<1>2. PICK w \in Withdrawals : w = target[c]
  BY <1>1, CallerRuns
<1>0. /\ TaskOK(w) /\ OpRecordOK(w) /\ OutcomeOK(w) /\ WithdrawalTypeOK /\ w \in Ops /\ CallerOK(c)
  BY OpsAndCallers, ControlTypes DEF ControlIInv, OpRecordOK
<1>3. UNCHANGED <<chain, expired, sends, wpc, writeQueue, phase, todo, task>>
  BY DEF SubmitRefused, LookUpFails, NoReceiptApplied, SubmitUnattributed, UseNotFound,
         UnusedUnknown, MarkUnknown, ReceiptFound, UnusedExpired, lookupUnchanged, processVars
<1>4. /\ \/ opStatus' = opStatus
         \/ \E s \in OpStatus \ {"none", "prepared"} : SetStatus(w, s)
      /\ OutcomeOK(w)'
  <2>1. CASE SubmitRefused(c) \/ LookUpFails(c) \/ NoReceiptApplied(c)
    <3>1. opStatus' = opStatus
      BY <2>1 DEF SubmitRefused, LookUpFails, NoReceiptApplied
    <3> QED
      BY <1>0, <1>3, <3>1 DEF OutcomeOK
  <2>2. CASE SubmitUnattributed(c) \/ UseNotFound(c) \/ UnusedUnknown(c)
    <3>1. SetStatus(w, "unknown")
      BY <1>2, <2>2 DEF SubmitUnattributed, UseNotFound, UnusedUnknown, MarkUnknown
    <3>2. opStatus'[w] = "unknown"
      BY <1>0, <3>1 DEF SetStatus, WithdrawalTypeOK
    <3> QED
      BY <3>1, <3>2 DEF OutcomeOK, OpStatus
  <2>3. CASE ReceiptFound(c)
    <3>1. SetStatus(w, ReceiptStatus(w)) /\ Resolved(w)
      BY <1>2, <2>3 DEF ReceiptFound
    <3>2. opStatus'[w] = ReceiptStatus(w)
      BY <1>0, <3>1 DEF SetStatus, WithdrawalTypeOK
    <3> QED
      BY <1>3, <3>1, <3>2 DEF OutcomeOK, OpStatus, ReceiptStatus, Resolved
  <2>4. CASE UnusedExpired(c)
    <3>1. SetStatus(w, "expired") /\ call[c] = "unused" /\ sawExpired[c]
      BY <1>2, <2>4 DEF UnusedExpired
    <3>2. opStatus'[w] = "expired" /\ expired[w] /\ chain[w] # "success"
      BY <1>0, <1>2, <3>1 DEF SetStatus, WithdrawalTypeOK, CallerOK
    <3> QED
      BY <1>3, <3>1, <3>2 DEF OutcomeOK, OpStatus
  <2> QED
    BY <2>1, <2>2, <2>3, <2>4
<1> QED
  BY <1>1, <1>2, <1>3, <1>4, AnswerKeeps

\* The requests that go on: a submit whose nonce was used by the executor, and
\* the reads of a lookup.
LEMMA GoesOnKeeps ==
    ASSUME ControlIInv, NEW c \in Callers, CallerStep(c),
           \/ SubmitAttributed(c) \/ UseFound(c)
           \/ ReceiptMissing(c) \/ ReadLatest(c) \/ ReadNonce(c)
    PROVE  ControlIInv'
<1>1. call[c] # "idle"
  BY DEF SubmitAttributed, UseFound, ReceiptMissing, ReadLatest, ReadNonce
<1>2. PICK w \in Withdrawals : w = target[c]
  BY <1>1, CallerRuns
<1>0. /\ TaskOK(w) /\ OpRecordOK(w) /\ OutcomeOK(w) /\ WithdrawalTypeOK /\ w \in Ops
      /\ \A d \in Callers : CallerOK(d)
  BY OpsAndCallers, ControlTypes DEF ControlIInv, OpRecordOK
<1>3. UNCHANGED <<chain, expired, sends, wpc, writeQueue, phase, todo, task, target, claimedBy>>
  BY DEF SubmitAttributed, UseFound, Attributed, Proceed, ReceiptMissing, ReadLatest, ReadNonce,
         lookupUnchanged, processVars
<1>4. /\ call' = [call EXCEPT ![c] = call'[c]] /\ call'[c] \notin {"idle", "checking"}
      /\ call'[c] = "unused" => call[c] = "used" /\ ~NonceUsed(w)
      /\ sawExpired' = [sawExpired EXCEPT ![c] = sawExpired'[c]]
      /\ sawExpired'[c] => sawExpired[c] \/ expired[w]
  BY <1>0, <1>2
     DEF WithdrawalTypeOK, SubmitAttributed, UseFound, Attributed, Proceed, ReceiptMissing,
         ReadLatest, ReadNonce
<1>5. /\ \A d \in Callers : d # c => call'[d] = call[d] /\ sawExpired'[d] = sawExpired[d]
      /\ \/ opStatus' = opStatus /\ call[c] # "checking"
         \/ SetStatus(w, "submitted") /\ opStatus'[w] = "submitted"
  BY <1>0, <1>2, <1>4
     DEF WithdrawalTypeOK, SubmitAttributed, UseFound, Attributed, Proceed, ReceiptMissing,
         ReadLatest, ReadNonce, SetStatus
<1>6. \A v \in Withdrawals : v # w => opStatus'[v] = opStatus[v]
  BY <1>0, <1>5 DEF SetStatus, WithdrawalTypeOK
<1>7. TaskOK(w)'
  BY <1>0, <1>2, <1>3 DEF TaskOK, Fresh, Unasked, Resolved
<1>8. OpRecordOK(w)'
  BY <1>0, <1>2, <1>3, <1>5 DEF OpRecordOK, OutcomeOK
<1>9. CallerOK(c)'
  BY <1>0, <1>2, <1>3, <1>4 DEF CallerOK, NonceUsed
<1>10. ASSUME NEW d \in Callers, d # c, target[d] = w PROVE CallerOK(d)'
  <2>1. call[d] # "checking"
    BY <1>0, <1>2, <1>10 DEF CallerOK
  <2> QED
    BY <1>0, <1>3, <1>5, <1>10, <2>1 DEF CallerOK
<1>11. Allowed(c) /\ (task'[w] = "none" \/ phase = "serving")
  BY <1>1, <1>3, CallerRuns, TaskRuns
<1> QED
  BY <1>2, <1>3, <1>5, <1>6, <1>7, <1>8, <1>9, <1>10, <1>11, CallerStepKeeps

\* The record says submitting, and the background task exists.
LEMMA ClaimsKeep ==
    ASSUME ControlIInv, NEW c \in Callers, SubmitClaims(c)
    PROVE  ControlIInv'
<1>1. call[c] = "checking"
  BY DEF SubmitClaims
<1>2. PICK w \in Withdrawals : w = target[c]
  BY <1>1, CallerRuns
<1>0. /\ TaskOK(w) /\ OpRecordOK(w) /\ WithdrawalTypeOK /\ w # Nobody /\ w \in Ops
      /\ CallerOK(c) /\ phase = "serving"
  BY <1>1, CallerRuns, OpsAndCallers, ControlTypes DEF ControlIInv, CallerOK, Allowed
<1>3. /\ UNCHANGED <<chain, expired, sends, wpc, writeQueue, phase, todo>>
      /\ opStatus' = [opStatus EXCEPT ![w] = "submitting"]
      /\ task' = [task EXCEPT ![w] = "scheduled"]
      /\ Answer(c)
  BY <1>2 DEF SubmitClaims, SetStatus, sharedVars, submitterVars, processVars
<1>4. /\ opStatus'[w] = "submitting" /\ task'[w] = "scheduled"
      /\ \A v \in Withdrawals : v # w => opStatus'[v] = opStatus[v] /\ task'[v] = task[v]
      /\ call'[c] = "idle" /\ target'[c] = Nobody /\ sawExpired'[c] = FALSE
      /\ \A d \in Callers : d # c => /\ call'[d] = call[d] /\ target'[d] = target[d]
                                    /\ sawExpired'[d] = sawExpired[d]
      /\ \A v \in Withdrawals, d \in Callers : d # c /\ claimedBy[v] = d => claimedBy'[v] = d
  BY <1>0, <1>3 DEF Answer, WithdrawalTypeOK
<1>5. task[w] = "none" /\ sends[w] = 0 /\ \A d \in Callers : target[d] = w => d = c
  BY <1>0, <1>1, <1>2 DEF CallerOK
<1>6. TaskOK(w)' /\ OpRecordOK(w)' /\ CallerOK(c)'
  BY <1>0, <1>3, <1>4, <1>5 DEF TaskOK, Fresh, Unasked, Resolved, OpRecordOK, OutcomeOK, CallerOK
<1> QED
  BY <1>0, <1>2, <1>3, <1>4, <1>5, <1>6, CallerStepKeeps DEF CallerStep, SubmitStep

\* Every step of a request.
LEMMA CallerKeeps ==
    ASSUME ControlIInv, NEW c \in Callers, CallerStep(c)
    PROVE  ControlIInv'
BY BeginsKeeps, AnswersKeep, GoesOnKeeps, ClaimsKeep DEF CallerStep, SubmitStep, LookUpStep

-----------------------------------------------------------------------------
(* Operations, the clock and the chain. *)

\* A step of an operation alone: what is left to show.
LEMMA AloneKeeps ==
    ASSUME ControlIInv, WithdrawalEngineTypeOK', QueueOK', NEW w \in Withdrawals,
           UNCHANGED <<call, target, sawExpired, claimedBy, phase>>,
           todo' = todo \/ phase = "recovering",
           \A o \in Ops : o # w => /\ wpc'[o] = wpc[o] /\ chain'[o] = chain[o]
                                   /\ sends'[o] = sends[o] /\ expired'[o] = expired[o],
           \A v \in Withdrawals : v # w => opStatus'[v] = opStatus[v] /\ task'[v] = task[v],
           TaskOK(w)', OpRecordOK(w)',
           \A d \in Callers : target[d] = w => CallerOK(d)',
           task'[w] = "none" \/ phase = "serving"
    PROVE  ControlIInv'
<1>1. Recoverer \in Callers
  BY OpsAndCallers
<1>2. call[Recoverer] = "idle" \/ Allowed(Recoverer)
  BY <1>1, CallerRuns
<1>3. CASE target[Recoverer] = w
  BY <1>1, <1>2, <1>3, LocalStep
<1>4. CASE target[Recoverer] # w
  <2>1. CallerOK(Recoverer)'
    <3>1. CallerOK(Recoverer) /\ \A x \in Withdrawals : x \in Ops
      BY <1>1, OpsAndCallers DEF ControlIInv
    <3>2. call[Recoverer] # "checking"
      BY <3>1, OpsAndCallers DEF CallerOK
    <3> QED
      BY <1>4, <3>1, <3>2 DEF CallerOK
  <2> QED
    BY <1>1, <1>2, <1>4, <2>1, LocalStep
<1> QED
  BY <1>3, <1>4

\* An operation is prepared; or its time is up before it was submitted.
LEMMA RecordKeeps ==
    ASSUME ControlIInv, NEW w \in Withdrawals,
           Prepare(w) \/ Expires(w) \/ RecoverPrepared(w) \/ OpTimePasses(w)
    PROVE  ControlIInv'
<1>0. /\ TaskOK(w) /\ OpRecordOK(w) /\ OutcomeOK(w) /\ WithdrawalTypeOK /\ w \in Ops
      /\ \A d \in Callers : CallerOK(d)
  BY OpsAndCallers, ControlTypes DEF ControlIInv, OpRecordOK
<1>1. /\ UNCHANGED <<chain, expired, sends, wpc, writeQueue, phase, task>>
      /\ UNCHANGED <<call, target, sawExpired, claimedBy>>
      /\ todo' = todo \/ phase = "recovering"
  BY DEF Prepare, Expires, RecoverPrepared, RecoverTurnOf, TakeTurn, OpTimePasses,
         lookupUnchanged, processVars, sharedVars, submitterVars, requestVars
<1>2. WithdrawalEngineTypeOK' /\ QueueOK'
  BY <1>1, OperationTypes, SameQueue DEF OperationStep, ControlIInv
<1>3. \/ opStatus' = opStatus
      \/ opStatus[w] = "none" /\ SetStatus(w, "prepared")
      \/ opStatus[w] = "prepared" /\ SetStatus(w, "expired")
  BY DEF Prepare, Expires, RecoverPrepared, ExpirePrepared, OpTimePasses
<1>4. /\ \/ opStatus'[w] = opStatus[w]
         \/ opStatus[w] = "none" /\ opStatus'[w] = "prepared"
         \/ opStatus[w] = "prepared" /\ opStatus'[w] = "expired"
      /\ \A v \in Withdrawals : v # w => opStatus'[v] = opStatus[v]
  BY <1>0, <1>3 DEF SetStatus, WithdrawalTypeOK
<1>5. TaskOK(w)'
  BY <1>0, <1>1, <1>4 DEF TaskOK, OpRecordOK, Fresh, Unasked, Resolved
<1>6. OpRecordOK(w)'
  BY <1>0, <1>1, <1>4 DEF OpRecordOK, OutcomeOK
<1>7. ASSUME NEW d \in Callers, target[d] = w PROVE CallerOK(d)'
  BY <1>0, <1>1, <1>4, <1>7 DEF CallerOK
<1>8. task'[w] = "none" \/ phase = "serving"
  BY <1>1, TaskRuns
<1> QED
  BY <1>1, <1>2, <1>4, <1>5, <1>6, <1>7, <1>8, AloneKeeps

\* recover() takes the turn of an operation that was submitted.
LEMMA RecoverSentKeeps ==
    ASSUME ControlIInv, NEW w \in Withdrawals, RecoverSent(w)
    PROVE  ControlIInv'
<1> DEFINE c == Recoverer
<1>0. /\ TaskOK(w) /\ OpRecordOK(w) /\ OutcomeOK(w) /\ WithdrawalTypeOK /\ w \in Ops /\ w # Nobody
      /\ c \in Callers /\ \A d \in Callers : CallerOK(d)
  BY OpsAndCallers, ControlTypes DEF ControlIInv, OpRecordOK
<1>1. /\ UNCHANGED <<chain, expired, sends, wpc, writeQueue, phase, opStatus, task, sawExpired,
                     claimedBy>>
      /\ phase = "recovering" /\ call[c] = "idle"
      /\ target' = [target EXCEPT ![c] = w]
      /\ \E x \in {"receipt", "latest"} : call' = [call EXCEPT ![c] = x]
      /\ opStatus[w] \in {"submitted", "submitting", "unknown"}
  BY DEF RecoverSent, RecoverTurnOf, TakeTurn, LookUp, Submitted, Unsettled, Ask, submitterVars
<1>2. /\ target'[c] = w /\ target[c] = Nobody /\ ~sawExpired[c] /\ call'[c] \in {"receipt", "latest"}
      /\ \A d \in Callers : d # c => call'[d] = call[d] /\ target'[d] = target[d]
  BY <1>0, <1>1 DEF WithdrawalTypeOK, CallerOK
<1>3. WithdrawalEngineTypeOK' /\ QueueOK'
  BY <1>1, OperationTypes, SameQueue DEF OperationStep, ControlIInv
<1>4. task[w] = "none"
  BY <1>1, TaskRuns
<1>5. TaskOK(w)' /\ OpRecordOK(w)'
  BY <1>0, <1>1, <1>2, <1>4 DEF TaskOK, OpRecordOK, OutcomeOK, Fresh, Resolved, Unasked
<1>6. CallerOK(c)'
  BY <1>0, <1>1, <1>2 DEF CallerOK
<1>7. ASSUME NEW d \in Callers, d # c, target[d] = w PROVE CallerOK(d)'
  BY <1>0, <1>1, <1>2, <1>7 DEF CallerOK
<1> QED
  BY <1>0, <1>1, <1>2, <1>3, <1>4, <1>5, <1>6, <1>7, LocalStep DEF Allowed

\* The chain.
LEMMA OpChainKeeps ==
    ASSUME ControlIInv, NEW w \in Withdrawals,
           \/ OpActionExpires(w) \/ WithdrawalSucceeds(w) \/ WithdrawalReverts(w)
           \/ WithdrawalPropagates(w) \/ ForeignUse(w)
    PROVE  ControlIInv'
<1>0. /\ TaskOK(w) /\ OpRecordOK(w) /\ OutcomeOK(w) /\ SubmitterTypeOK /\ w \in Ops
      /\ \A d \in Callers : CallerOK(d)
  BY OpsAndCallers, ControlTypes DEF ControlIInv, OpRecordOK
<1>1. /\ UNCHANGED <<sends, wpc, writeQueue, phase, todo, task, opStatus>>
      /\ UNCHANGED <<call, target, sawExpired, claimedBy>>
  BY DEF OpActionExpires, Expire, WithdrawalSucceeds, MineAs, WithdrawalReverts,
         WithdrawalPropagates, NodeAccepts, ForeignUse, withdrawalVars, processVars, requestVars
<1>2. WithdrawalEngineTypeOK' /\ QueueOK'
  BY <1>1, OperationTypes, SameQueue DEF OperationStep, ControlIInv
<1>3. /\ \A o \in Ops : o # w => chain'[o] = chain[o] /\ expired'[o] = expired[o]
      /\ expired[w] => expired'[w]
      /\ \/ chain'[w] = chain[w]
         \/ chain[w] \in {"none", "pending"} /\ ~expired[w] /\ chain'[w] = "success"
         \/ chain[w] = "pending" /\ chain'[w] = "reverted"
         \/ chain[w] = "handed" /\ chain'[w] = "pending"
  BY <1>0 DEF SubmitterTypeOK, OpActionExpires, Expire, WithdrawalSucceeds, MineAs,
              WithdrawalReverts, WithdrawalPropagates, NodeAccepts, ForeignUse
<1>4. TaskOK(w)'
  BY <1>0, <1>1, <1>3 DEF TaskOK, Fresh, Unasked, Resolved
<1>5. OpRecordOK(w)'
  BY <1>0, <1>1, <1>3 DEF OpRecordOK, OutcomeOK
<1>6. ASSUME NEW d \in Callers, target[d] = w PROVE CallerOK(d)'
  BY <1>0, <1>1, <1>3, <1>6 DEF CallerOK
<1>7. task'[w] = "none" \/ phase = "serving"
  BY <1>1, TaskRuns
<1> QED
  BY <1>1, <1>2, <1>3, <1>4, <1>5, <1>6, <1>7, AloneKeeps

\* Every step of an operation.
LEMMA OperationKeeps ==
    ASSUME ControlIInv, NEW w \in Withdrawals, OperationStep(w)
    PROVE  ControlIInv'
BY RecordKeeps, RecoverSentKeeps, OpChainKeeps DEF OperationStep

-----------------------------------------------------------------------------
(* The task of a submission. *)

\* The queue of the executor.
LEMMA TaskQueue ==
    ASSUME ControlIInv, NEW w \in Withdrawals, NEW n, TaskStep(w, n)
    PROVE  QueueOK'
<1>0. QueueOK /\ SubmitterTypeOK /\ w \in Ops
  BY ControlTypes, OpsAndCallers DEF ControlIInv
<1>1. wpc[w] \in InSection => Running(w) /\ wpc[w] \in InQueue
  BY <1>0 DEF QueueOK, InQueue
<1>2. CASE TaskStart(w)
  BY <1>0, <1>2, EnqueueKeepsQueue DEF TaskStart, Enqueue
<1>3. CASE PolicySnapshot(w) \/ PolicyHolds(w, n)
  BY <1>0, <1>3, SameQueue DEF PolicySnapshot, PolicyHolds, sharedVars, submitterVars
<1>4. CASE \E s \in Returned : Return(w, s) /\ Running(w) /\ wpc[w] \in InQueue
  BY <1>0, <1>4, ReturnKeepsQueue
<1>5. CASE \E s \in InSection : /\ Running(w) /\ wpc[w] \in InQueue
                               /\ wpc' = [wpc EXCEPT ![w] = s] /\ UNCHANGED writeQueue
  BY <1>0, <1>5, AdvanceKeepsQueue
<1>6. CASE PreflightThrows(w) \/ TaskSubmitterStep(w) \/ TaskHashPersisted(w)
  BY <1>1, <1>4, <1>5, <1>6
     DEF PreflightThrows, PreflightFails, TaskSubmitterStep, CallStep, Refuse, Begin, HandOver,
         HashReturns, SendFails, ReceiptArrives, ReceiptLost, LatchHash, TaskHashPersisted,
         HashAcknowledged, Returned, InSection, InQueue
<1>7. CASE TaskSettles(w) \/ TaskCaught(w)
  BY <1>0, <1>7, HandledKeepsQueue DEF TaskSettles, TaskCaught, TaskEnds, Returned
<1> QED
  BY <1>2, <1>3, <1>6, <1>7 DEF TaskStep

\* The call of the submission, as the submitter moves it.
LEMMA TaskCallKeeps ==
    ASSUME ControlIInv, NEW w \in Withdrawals,
           PreflightThrows(w) \/ TaskSubmitterStep(w) \/ TaskHashPersisted(w)
    PROVE  ControlIInv'
<1>0. /\ TaskOK(w) /\ OpRecordOK(w) /\ OutcomeOK(w) /\ WithdrawalTypeOK /\ SubmitterTypeOK
      /\ w \in Ops /\ \A d \in Callers : CallerOK(d)
  BY OpsAndCallers, ControlTypes DEF ControlIInv, OpRecordOK
<1>1. UNCHANGED <<expired, phase, todo, task, call, target, sawExpired, claimedBy>>
  BY DEF PreflightThrows, PreflightFails, TaskSubmitterStep, CallStep, Refuse, Begin, HandOver,
         HashReturns, SendFails, ReceiptArrives, ReceiptLost, LatchHash, TaskHashPersisted,
         HashAcknowledged, withdrawalVars, processVars, taskUnchanged, requestVars
<1>2. WithdrawalEngineTypeOK' /\ QueueOK'
  <2>1. TaskStep(w, 0)
    BY DEF TaskStep
  <2> QED
    BY <2>1, TaskTypes, TaskQueue
<1>3. \A o \in Ops : o # w => wpc'[o] = wpc[o] /\ chain'[o] = chain[o] /\ sends'[o] = sends[o]
  BY <1>0
     DEF SubmitterTypeOK, PreflightThrows, PreflightFails, TaskSubmitterStep, CallStep, Refuse,
         Begin, HandOver, HashReturns, SendFails, ReceiptArrives, ReceiptLost, LatchHash,
         TaskHashPersisted, HashAcknowledged, Return
<1>4. /\ wpc[w] # "idle" /\ wpc'[w] # "idle" /\ wpc'[w] # "queued"
      /\ wpc'[w] \in {"writing", "unsent", "refused"} => wpc[w] \in {"queued", "writing"}
      /\ wpc'[w] \in {"sending", "hash", "waiting", "mined"} =>
           task[w] = "cleared" \/ wpc[w] \in {"sending", "hash", "waiting", "mined"}
      /\ wpc'[w] = "mined" => Resolved(w)
  BY <1>0
     DEF SubmitterTypeOK, PreflightThrows, PreflightFails, TaskSubmitterStep, CallStep, Refuse,
         Begin, HandOver, HashReturns, SendFails, ReceiptArrives, ReceiptLost, LatchHash,
         TaskHashPersisted, HashAcknowledged, Return, Resolved
<1>5. \/ wpc'[w] # "sending" /\ chain'[w] = chain[w] /\ sends'[w] = sends[w]
      \/ /\ wpc'[w] = "sending" /\ wpc[w] = "writing" /\ sends'[w] = sends[w] + 1
         /\ chain'[w] = IF chain[w] = "none" THEN "handed" ELSE chain[w]
  BY <1>0
     DEF SubmitterTypeOK, PreflightThrows, PreflightFails, TaskSubmitterStep, CallStep, Refuse,
         Begin, HandOver, HashReturns, SendFails, ReceiptArrives, ReceiptLost, LatchHash,
         TaskHashPersisted, HashAcknowledged, Return
<1>6. \/ opStatus' = opStatus
      \/ wpc[w] = "hash" /\ wpc'[w] = "waiting" /\ opStatus' = [opStatus EXCEPT ![w] = "submitted"]
  BY <1>0
     DEF SubmitterTypeOK, PreflightThrows, TaskSubmitterStep, TaskHashPersisted, HashAcknowledged,
         SetStatus, withdrawalVars
<1>7. /\ \A v \in Withdrawals : v # w => opStatus'[v] = opStatus[v]
      /\ \/ opStatus'[w] = opStatus[w]
         \/ wpc[w] = "hash" /\ wpc'[w] = "waiting" /\ opStatus'[w] = "submitted"
  BY <1>0, <1>6 DEF WithdrawalTypeOK
<1>8. TaskOK(w)'
  BY <1>0, <1>1, <1>4, <1>5, <1>7 DEF TaskOK, Fresh, Unasked, Resolved
<1>9. OpRecordOK(w)'
  BY <1>0, <1>1, <1>4, <1>5, <1>7 DEF TaskOK, Fresh, OpRecordOK, OutcomeOK
<1>10. ASSUME NEW d \in Callers, target[d] = w PROVE CallerOK(d)'
  BY <1>0, <1>1, <1>4, <1>5, <1>7, <1>10 DEF CallerOK, TaskOK, Fresh, Unasked
<1>11. phase = "serving"
  BY <1>4, TaskRuns
<1> QED
  BY <1>1, <1>2, <1>3, <1>7, <1>8, <1>9, <1>10, <1>11, AloneKeeps

\* The handler's own steps: it joins the queue, checks the policy, and ends.
LEMMA TaskHandlerKeeps ==
    ASSUME ControlIInv, NEW w \in Withdrawals, NEW n,
           \/ TaskStart(w) \/ PolicySnapshot(w) \/ PolicyHolds(w, n)
           \/ TaskSettles(w) \/ TaskCaught(w)
    PROVE  ControlIInv'
<1>0. /\ TaskOK(w) /\ OpRecordOK(w) /\ OutcomeOK(w) /\ WithdrawalTypeOK /\ SubmitterTypeOK
      /\ w \in Ops /\ \A d \in Callers : CallerOK(d)
  BY OpsAndCallers, ControlTypes DEF ControlIInv, OpRecordOK
<1>1. /\ UNCHANGED <<chain, expired, sends, phase, todo, call, target, sawExpired, claimedBy>>
  BY DEF TaskStart, Enqueue, PolicySnapshot, PolicyHolds, TaskSettles, TaskCaught, TaskEnds,
         processVars, taskUnchanged, requestVars, sharedVars, submitterVars
<1>2. WithdrawalEngineTypeOK' /\ QueueOK'
  <2>1. TaskStep(w, n)
    BY DEF TaskStep
  <2> QED
    BY <2>1, TaskTypes, TaskQueue
<1>3. /\ \/ UNCHANGED wpc
         \/ \E x \in {"idle", "queued"} : wpc' = [wpc EXCEPT ![w] = x]
      /\ \E x \in TaskPc : task' = [task EXCEPT ![w] = x]
      /\ \/ UNCHANGED opStatus
         \/ \E s \in OpStatus : opStatus' = [opStatus EXCEPT ![w] = s]
  BY DEF TaskStart, Enqueue, PolicySnapshot, PolicyHolds, TaskSettles, TaskCaught, TaskEnds,
         SetStatus, sharedVars, submitterVars, ReceiptStatus, OpStatus, TaskPc
<1>4. /\ \A o \in Ops : o # w => wpc'[o] = wpc[o]
      /\ \A v \in Withdrawals : v # w => opStatus'[v] = opStatus[v] /\ task'[v] = task[v]
  BY <1>0, <1>3 DEF WithdrawalTypeOK, SubmitterTypeOK
<1>5. \/ /\ task[w] = "scheduled" /\ task'[w] = "queued" /\ wpc'[w] = "queued"
         /\ opStatus'[w] = opStatus[w]
      \/ /\ task[w] = "queued" /\ task'[w] = "snapped" /\ wpc'[w] = wpc[w]
         /\ opStatus'[w] = opStatus[w]
      \/ /\ task[w] = "snapped" /\ task'[w] = "cleared" /\ wpc'[w] = wpc[w]
         /\ opStatus'[w] = opStatus[w]
      \/ /\ wpc[w] = "mined" /\ task'[w] = "none" /\ wpc'[w] = "idle"
         /\ opStatus'[w] = ReceiptStatus(w)
      \/ /\ wpc[w] \in {"lost", "refused", "unsent"} /\ task'[w] = "none" /\ wpc'[w] = "idle"
         /\ \/ opStatus'[w] \in {"submitted", "unknown"}
            \/ wpc[w] = "unsent" /\ opStatus'[w] = "rejected"
  <2>1. CASE TaskStart(w) \/ PolicySnapshot(w) \/ PolicyHolds(w, n)
    BY <1>0, <2>1
       DEF WithdrawalTypeOK, SubmitterTypeOK, TaskStart, Enqueue, PolicySnapshot, PolicyHolds,
           sharedVars, submitterVars
  <2>2. CASE TaskSettles(w)
    BY <1>0, <2>2 DEF WithdrawalTypeOK, SubmitterTypeOK, TaskSettles, TaskEnds, SetStatus
  <2>3. CASE TaskCaught(w)
    BY <1>0, <2>3 DEF WithdrawalTypeOK, SubmitterTypeOK, TaskCaught, TaskEnds, SetStatus
  <2> QED
    BY <2>1, <2>2, <2>3
<1>6. TaskOK(w)'
  BY <1>0, <1>1, <1>5 DEF TaskOK, Fresh, Unasked, Resolved
<1>7. OpRecordOK(w)'
  BY <1>0, <1>1, <1>5 DEF TaskOK, Fresh, OpRecordOK, OutcomeOK, Resolved, ReceiptStatus
<1>8. task[w] # "none"
  BY <1>0, <1>5 DEF TaskOK
<1>9. ASSUME NEW d \in Callers, target[d] = w PROVE CallerOK(d)'
  <2>1. call[d] # "checking"
    BY <1>0, <1>8, <1>9 DEF CallerOK
  <2> QED
    BY <1>0, <1>1, <1>9, <2>1 DEF CallerOK
<1>10. phase = "serving"
  BY <1>8, TaskRuns
<1> QED
  BY <1>1, <1>2, <1>4, <1>6, <1>7, <1>9, <1>10, AloneKeeps

\* Every step of a task.
LEMMA TaskKeeps ==
    ASSUME ControlIInv, NEW w \in Withdrawals, NEW n, TaskStep(w, n)
    PROVE  ControlIInv'
BY TaskCallKeeps, TaskHandlerKeeps DEF TaskStep

-----------------------------------------------------------------------------
(* The process, and the first invariant. *)

\* A crash, a restart, the first request, or nothing.
LEMMA ProcessKeeps ==
    ASSUME ControlIInv,
           \/ WithdrawalCrash \/ WithdrawalServe \/ UNCHANGED wvars
           \/ \E records : RestartOver(records)
    PROVE  ControlIInv'
<1>0. WithdrawalEngineTypeOK' /\ WithdrawalTypeOK
  BY ProcessTypes, ControlTypes
<1>1. UNCHANGED <<chain, expired, sends, opStatus>>
  BY DEF WithdrawalCrash, ProcessStops, SubmitterCrash, WithdrawalForgets, RestartOver,
         ProcessStarts, WithdrawalServe, StartServing, wvars, withdrawalVars, sharedVars,
         submitterVars
<1>2. CASE WithdrawalCrash
  <2>1. /\ phase' = "down" /\ todo' = {} /\ \A o \in Ops : wpc'[o] = "idle"
        /\ writeQueue' = <<>>
        /\ \A w \in Withdrawals : task'[w] = "none" /\ claimedBy'[w] = Nobody
        /\ \A c \in Callers : call'[c] = "idle" /\ target'[c] = Nobody /\ sawExpired'[c] = FALSE
    BY <1>2 DEF WithdrawalCrash, ProcessStops, SubmitterCrash, WithdrawalForgets
  <2>2. QueueOK' /\ OpPhaseOK'
    BY <1>1, <2>1, OpsAndCallers
       DEF ControlIInv, QueueOK, OpPhaseOK, Chained, InQueue, InSection, Running
  <2>3. ASSUME NEW w \in Withdrawals PROVE TaskOK(w)' /\ OpRecordOK(w)'
    <3>1. TaskOK(w) /\ OpRecordOK(w) /\ w \in Ops /\ w # Nobody
      BY OpsAndCallers DEF ControlIInv
    <3> QED
      BY <1>1, <2>1, <3>1 DEF TaskOK, Fresh, Unasked, Resolved, OpRecordOK, OutcomeOK
  <2>4. ASSUME NEW c \in Callers PROVE CallerOK(c)'
    BY <2>1 DEF CallerOK
  <2> QED
    BY <1>0, <2>2, <2>3, <2>4 DEF ControlIInv
<1>3. CASE \/ WithdrawalServe \/ UNCHANGED wvars
           \/ \E records : RestartOver(records)
  <2>1. /\ UNCHANGED <<wpc, writeQueue, task, call, target, sawExpired, claimedBy>>
        /\ \/ UNCHANGED <<phase, todo>>
           \/ phase = "down" /\ phase' = "recovering"
           \/ /\ phase = "recovering" /\ todo' = {} /\ call[Recoverer] = "idle"
              /\ phase' = "serving"
    BY <1>3 DEF RestartOver, ProcessStarts, WithdrawalServe, StartServing, wvars,
                withdrawalVars, sharedVars, submitterVars, processVars
  <2>2. QueueOK' /\ OpPhaseOK'
    BY <1>1, <2>1, SameQueue DEF ControlIInv, OpPhaseOK
  <2>3. ASSUME NEW w \in Withdrawals PROVE TaskOK(w)' /\ OpRecordOK(w)'
    BY <1>1, <2>1 DEF ControlIInv, TaskOK, Fresh, Unasked, Resolved, OpRecordOK, OutcomeOK
  <2>4. ASSUME NEW c \in Callers PROVE CallerOK(c)'
    BY <1>1, <2>1 DEF ControlIInv, CallerOK
  <2> QED
    BY <1>0, <2>2, <2>3, <2>4 DEF ControlIInv
<1> QED
  BY <1>2, <1>3

\* The first state.
LEMMA ControlInitial == WithdrawalEngineInit => ControlIInv
<1> SUFFICES ASSUME WithdrawalEngineInit PROVE ControlIInv
  OBVIOUS
<1> USE DEF WithdrawalEngineInit, ProcessInit, SubmitterInit, WithdrawalInit
<1>1. WithdrawalEngineTypeOK
  BY ProcessAssumption
     DEF WithdrawalEngineTypeOK, ProcessTypeOK, SubmitterTypeOK, WithdrawalTypeOK, CallState,
         ChainState, OpStatus, CallPc, TaskPc
<1>2. QueueOK /\ OpPhaseOK
  BY OpsAndCallers DEF QueueOK, OpPhaseOK, Chained, InQueue, InSection, Running
<1>3. ASSUME NEW w \in Withdrawals PROVE TaskOK(w) /\ OpRecordOK(w)
  BY <1>3, OpsAndCallers DEF TaskOK, Fresh, Unasked, Resolved, OpRecordOK, OutcomeOK
<1>4. ASSUME NEW c \in Callers PROVE CallerOK(c)
  BY <1>4 DEF CallerOK
<1> QED
  BY <1>1, <1>2, <1>3, <1>4 DEF ControlIInv

\* Alone, the engine starts recover() over its own records.
LEMMA RestartIsOver == WithdrawalRestart => \E records : RestartOver(records)
<1>1. UnfinishedOps \in SUBSET Ops
  BY OpsAndCallers DEF UnfinishedOps
<1> QED
  BY <1>1 DEF WithdrawalRestart, RestartOver

\* Every step of the withdrawal engine.
LEMMA ControlStepKeeps == ControlIInv /\ [WithdrawalNext]_wvars => ControlIInv'
BY RestartIsOver, CallerKeeps, OperationKeeps, TaskKeeps, ProcessKeeps
   DEF WithdrawalNext, OpsQuiescent

\* Requests, tasks and records agree in every state of the withdrawal engine.
THEOREM ControlInvariant == WithdrawalSpec => []ControlIInv
BY ControlInitial, ControlStepKeeps, PTL DEF WithdrawalSpec

\* Every variable of the withdrawal engine keeps its type.
THEOREM WithdrawalTypes == WithdrawalSpec => []WithdrawalEngineTypeOK
<1>1. ControlIInv => WithdrawalEngineTypeOK
  BY DEF ControlIInv
<1> QED
  BY <1>1, ControlInvariant, PTL

\* A recorded outcome of a withdrawal agrees with the chain, whatever lookups,
\* retries and crashes overlap with its task.
THEOREM OpOutcomesAreTrue == WithdrawalSpec => []OpOutcomeIsTrue
<1>1. ControlIInv => OpOutcomeIsTrue
  BY DEF ControlIInv, OpRecordOK, OutcomeOK, OpOutcomeIsTrue
<1> QED
  BY <1>1, ControlInvariant, PTL

-----------------------------------------------------------------------------
(* The executor. *)

\* No new live transaction and no new call in the section: it is enough that
\* what guards a live transaction stays.
LEMMA GuardsStay ==
    ASSUME WithdrawalIInv, \A o \in Ops : Live(o)' => Live(o),
           \A o \in Ops : wpc'[o] \in InSection => wpc[o] \in InSection,
           \A o \in Ops : o \in Withdrawals /\ Live(o) /\ Live(o)' /\ OpGuarded(o)
                         => OpGuarded(o)'
    PROVE  OpsGuarded' /\ SectionAlone' /\ OneLiveTx'
BY OpsAndCallers DEF WithdrawalIInv, OpsGuarded, SectionAlone, OneLiveTx

\* Requests: a latch is only cleared when its operation is settled, or while
\* no call waits for its handler.
LEMMA CallerGuards ==
    ASSUME WithdrawalIInv, NEW c \in Callers, CallerStep(c)
    PROVE  OpsGuarded' /\ SectionAlone' /\ OneLiveTx'
<1>0. /\ ControlIInv /\ SubmitterTypeOK /\ WithdrawalTypeOK /\ Recoverer \in Callers
      /\ CallerOK(c)
  BY OpsAndCallers, ControlTypes DEF WithdrawalIInv, ControlIInv
<1>1. UNCHANGED <<chain, expired, wpc, phase, todo>>
  BY DEF CallerStep, SubmitStep, LookUpStep, SubmitStart, SubmitRefused, SubmitClaims,
         SubmitAttributed, SubmitUnattributed, Attributed, MarkUnknown, Get, ReceiptFound,
         ReceiptMissing, NoReceiptApplied, ReadLatest, ReadNonce, UseFound, UseNotFound,
         UnusedExpired, UnusedUnknown, LookUpFails, lookupUnchanged, sharedVars, submitterVars,
         processVars
<1>2. \/ UNCHANGED <<latchTx, unknown, target>>
      \/ c \in Clients /\ UNCHANGED <<latchTx, unknown>>
      \/ Drained /\ chain[target[c]] = "success" /\ latchTx' = latchTx /\ target' = target
         /\ unknown' = unknown \ {LostBroadcast}
      \/ unknown' = unknown \cup {target[c]} /\ latchTx' = latchTx
      \/ Arm(target[c], TRUE)
      \/ Drained /\ Resolved(target[c]) /\ Clear(target[c], TRUE, FALSE)
      \/ /\ Drained /\ call[c] = "unused" /\ sawExpired[c]
         /\ Clear(target[c], FALSE, TRUE)
  <2>1. c \in Clients => \/ ~SubmitStep(c) \/ SubmitAttributed(c) \/ SubmitUnattributed(c)
                         \/ UNCHANGED <<latchTx, unknown>>
    BY DEF SubmitStep, SubmitStart, SubmitRefused, SubmitClaims, latchVars, sharedVars,
           submitterVars
  <2>2. SubmitStep(c) => c \in Clients
    BY <1>0 DEF SubmitStep, SubmitStart, SubmitRefused, SubmitClaims, SubmitAttributed,
                SubmitUnattributed, CallerOK
  <2>3. CASE SubmitAttributed(c) \/ UseFound(c)
    BY <2>3 DEF SubmitAttributed, UseFound, Attributed, Proceed
  <2>4. CASE SubmitUnattributed(c) \/ UseNotFound(c) \/ UnusedUnknown(c)
    BY <2>4 DEF SubmitUnattributed, UseNotFound, UnusedUnknown, MarkUnknown, Arm,
                UnknownAfterArm, LatchAfterArm
  <2>5. CASE NoReceiptApplied(c)
    BY <2>5 DEF NoReceiptApplied
  <2>6. CASE ReceiptFound(c)
    BY <2>6 DEF ReceiptFound
  <2>7. CASE UnusedExpired(c)
    BY <2>7 DEF UnusedExpired
  <2>8. CASE ReceiptMissing(c) \/ ReadLatest(c) \/ ReadNonce(c)
    BY <2>8 DEF ReceiptMissing, ReadLatest, ReadNonce, Proceed, latchVars
  <2>9. CASE LookUpFails(c) \/ \E w \in Withdrawals : Get(c, w)
    BY <2>9 DEF LookUpFails, Get, latchVars
  <2> QED
    BY <2>1, <2>2, <2>3, <2>4, <2>5, <2>6, <2>7, <2>8, <2>9 DEF CallerStep, LookUpStep
<1>3. c \in Clients => target'[Recoverer] = target[Recoverer]
  BY <1>0, OpsAndCallers
     DEF WithdrawalTypeOK, CallerStep, SubmitStep, LookUpStep, SubmitStart, SubmitRefused,
         SubmitClaims, SubmitAttributed, SubmitUnattributed, Attributed, MarkUnknown, Get, LookUp,
         ReceiptFound, ReceiptMissing, NoReceiptApplied, ReadLatest, ReadNonce, UseFound,
         UseNotFound, UnusedExpired, UnusedUnknown, LookUpFails, Ask, Answer, Proceed
<1>4. ASSUME NEW o \in Ops, o \in Withdrawals, Live(o), OpGuarded(o) PROVE OpGuarded(o)'
  <2>1. Drained => wpc[o] # "lost"
    BY DEF Drained, Returned
  <2>2. CASE UNCHANGED <<latchTx, unknown, target>>
    BY <1>1, <1>4, <2>2 DEF OpGuarded
  <2>3. CASE c \in Clients /\ UNCHANGED <<latchTx, unknown>>
    BY <1>1, <1>3, <1>4, <2>3 DEF OpGuarded
  <2>4. CASE /\ Drained /\ chain[target[c]] = "success" /\ latchTx' = latchTx /\ target' = target
             /\ unknown' = unknown \ {LostBroadcast}
    BY <1>1, <1>4, <2>1, <2>4, SubmitterAssumption DEF OpGuarded
  <2>5. c = Recoverer \/ target'[Recoverer] = target[Recoverer]
    BY <1>3, OpsAndCallers
  <2>6. CASE unknown' = unknown \cup {target[c]} /\ latchTx' = latchTx
    BY <1>1, <1>4, <2>5, <2>6 DEF OpGuarded
  <2>7. CASE Arm(target[c], TRUE)
    <3>1. unknown \cup {target[c]} \subseteq unknown' /\ (latchTx' = latchTx \/ latchTx = NoTx)
      BY <2>7 DEF Arm, UnknownAfterArm, LatchAfterArm
    <3> QED
      BY <1>1, <1>4, <2>5, <3>1, SubmitterAssumption DEF OpGuarded
  <2>8. CASE Drained /\ Resolved(target[c]) /\ Clear(target[c], TRUE, FALSE)
    <3>1. o # target[c] /\ unknown' = unknown \ {target[c]}
      BY <1>4, <2>8 DEF Resolved, Live, Clear
    <3> QED
      BY <1>1, <1>4, <2>1, <2>5, <2>8, <3>1 DEF OpGuarded
  <2>9. CASE /\ Drained /\ call[c] = "unused" /\ sawExpired[c]
             /\ Clear(target[c], FALSE, TRUE)
    <3>1. o # target[c] /\ unknown' = unknown \ {target[c], LostBroadcast}
      BY <1>0, <1>4, <2>9 DEF CallerOK, Live, Clear
    <3> QED
      BY <1>1, <1>4, <2>1, <2>5, <2>9, <3>1, SubmitterAssumption DEF OpGuarded
  <2> QED
    BY <1>2, <2>2, <2>3, <2>4, <2>6, <2>7, <2>8, <2>9
<1> QED
  BY <1>1, <1>4, GuardsStay DEF Live

\* Operations and the chain: no step of them makes a transaction live that was
\* not handed over.
LEMMA OperationGuards ==
    ASSUME WithdrawalIInv, NEW w \in Withdrawals, OperationStep(w)
    PROVE  OpsGuarded' /\ SectionAlone' /\ OneLiveTx'
<1>0. /\ ControlIInv /\ SubmitterTypeOK /\ WithdrawalTypeOK /\ Recoverer \in Callers /\ w \in Ops
      /\ OpRecordOK(w) /\ TaskOK(w)
  BY OpsAndCallers, ControlTypes DEF WithdrawalIInv, ControlIInv
<1>1. UNCHANGED <<wpc, latchTx, unknown, phase>>
  BY DEF OperationStep, Prepare, Expires, ExpirePrepared, RecoverPrepared, RecoverSent, RecoverTurnOf,
         TakeTurn, OpTimePasses, OpActionExpires, Expire, WithdrawalSucceeds, WithdrawalReverts,
         MineAs, WithdrawalPropagates, NodeAccepts, ForeignUse, lookupUnchanged, latchVars,
         sharedVars, submitterVars, processVars
<1>2. ASSUME NEW o \in Ops, Live(o)' PROVE Live(o)
  BY <1>0, <1>2
     DEF SubmitterTypeOK, Live, OperationStep, Prepare, Expires, ExpirePrepared, RecoverPrepared,
         RecoverSent, RecoverTurnOf, TakeTurn, OpTimePasses, OpActionExpires, Expire,
         WithdrawalSucceeds, WithdrawalReverts, MineAs, WithdrawalPropagates, NodeAccepts, ForeignUse,
         lookupUnchanged, sharedVars, submitterVars
<1>3. \/ UNCHANGED <<todo, target>>
      \/ opStatus[w] = "prepared" /\ todo' = todo \ {w} /\ target' = target
      \/ /\ call[Recoverer] = "idle" /\ todo' = todo \ {w}
         /\ target' = [target EXCEPT ![Recoverer] = w]
  BY DEF OperationStep, Prepare, Expires, ExpirePrepared, RecoverPrepared, RecoverSent, RecoverTurnOf,
         TakeTurn, LookUp, Ask, OpTimePasses, OpActionExpires, WithdrawalSucceeds, WithdrawalReverts,
         WithdrawalPropagates, ForeignUse, lookupUnchanged, sharedVars, processVars, withdrawalVars,
         requestVars
<1>4. ASSUME NEW o \in Ops, o \in Withdrawals, Live(o), OpGuarded(o) PROVE OpGuarded(o)'
  <2>1. CASE UNCHANGED <<todo, target>>
    BY <1>1, <1>4, <2>1 DEF OpGuarded
  <2>2. CASE opStatus[w] = "prepared" /\ todo' = todo \ {w} /\ target' = target
    <3>1. o # w
      BY <1>0, <1>4, <2>2 DEF OpRecordOK, TaskOK, Live
    <3> QED
      BY <1>1, <1>4, <2>2, <3>1 DEF OpGuarded
  <2>3. CASE /\ call[Recoverer] = "idle" /\ todo' = todo \ {w}
             /\ target' = [target EXCEPT ![Recoverer] = w]
    <3>1. target[Recoverer] = Nobody /\ o # Nobody
      BY <1>0, <2>3, ProcessAssumption DEF ControlIInv, CallerOK
    <3>2. target'[Recoverer] = w
      BY <1>0, <2>3 DEF WithdrawalTypeOK
    <3> QED
      BY <1>1, <1>4, <2>3, <3>1, <3>2 DEF OpGuarded
  <2> QED
    BY <1>3, <2>1, <2>2, <2>3
<1> QED
  BY <1>1, <1>2, <1>4, GuardsStay

\* The call that enters the section finds nothing latched, so nothing is live.
LEMMA BeginGuards ==
    ASSUME WithdrawalIInv, NEW w \in Withdrawals, TaskSubmitterStep(w), Begin(w), ClearFor(w)
    PROVE  OpsGuarded' /\ SectionAlone' /\ OneLiveTx'
<1>0. ControlIInv /\ SubmitterTypeOK /\ w \in Ops /\ Running(w) /\ wpc[w] = "queued" /\ ~Latched
  BY OpsAndCallers, ControlTypes DEF WithdrawalIInv, Begin
<1>1. phase = "serving" /\ todo = {} /\ target[Recoverer] = Nobody
  BY <1>0, TaskRuns
<1>2. \A o \in Ops : ~Live(o)
  <2> SUFFICES ASSUME NEW o \in Ops, Live(o) PROVE FALSE
    OBVIOUS
  <2>1. o \in Withdrawals /\ OpGuarded(o) /\ o # Nobody
    BY ProcessAssumption DEF WithdrawalIInv, OpsGuarded, ClearFor
  <2>2. wpc[o] \in InSection
    BY <1>0, <1>1, <2>1, SubmitterAssumption DEF OpGuarded, Latched, InSection
  <2>3. Running(o)
    BY <1>0, <2>2 DEF ControlIInv, QueueOK
  <2> QED
    BY <1>0, <2>2, <2>3 DEF Running, InSection
<1>3. UNCHANGED <<chain, expired>>
  BY DEF Begin
<1> QED
  BY <1>2, <1>3, OpsAndCallers DEF OpsGuarded, SectionAlone, OneLiveTx, Live

\* The node is given the transaction.
LEMMA HandOverGuards ==
    ASSUME WithdrawalIInv, NEW w \in Withdrawals, TaskSubmitterStep(w), HandOver(w)
    PROVE  OpsGuarded' /\ SectionAlone' /\ OneLiveTx'
<1>0. ControlIInv /\ SubmitterTypeOK /\ QueueOK /\ w \in Ops /\ wpc[w] = "writing"
  BY OpsAndCallers, ControlTypes DEF WithdrawalIInv, ControlIInv, HandOver
<1>1. /\ wpc'[w] = "sending" /\ \A o \in Ops : o # w => wpc'[o] = wpc[o] /\ chain'[o] = chain[o]
      /\ expired' = expired
  BY <1>0 DEF HandOver, SubmitterTypeOK
<1>2. \A o \in Ops : Live(o)' => o = w
  BY <1>0, <1>1 DEF WithdrawalIInv, SectionAlone, Live, InSection
<1>3. \A o \in Ops : wpc'[o] \in InSection => o = w
  BY <1>0, <1>1, OneInSection DEF InSection
<1> QED
  BY <1>1, <1>2, <1>3, OpsAndCallers DEF OpsGuarded, OpGuarded, SectionAlone, OneLiveTx

\* The other steps of a task: whatever is not settled is latched before the
\* account key and the place in the queue are given back.
LEMMA TaskGuards ==
    ASSUME WithdrawalIInv, NEW w \in Withdrawals, NEW n, TaskStep(w, n), ClearFor(w)
    PROVE  OpsGuarded' /\ SectionAlone' /\ OneLiveTx'
<1>0. /\ ControlIInv /\ SubmitterTypeOK /\ w \in Ops /\ TaskOK(w)
  BY OpsAndCallers, ControlTypes DEF WithdrawalIInv, ControlIInv
<1>1. CASE TaskSubmitterStep(w) /\ (Begin(w) \/ HandOver(w))
  BY <1>1, BeginGuards, HandOverGuards
<1>2. CASE ~(TaskSubmitterStep(w) /\ (Begin(w) \/ HandOver(w)))
  <2>1. UNCHANGED <<chain, expired, phase, todo, target>>
    BY <1>2
       DEF TaskStep, TaskStart, Enqueue, PolicySnapshot, PolicyHolds, PreflightThrows, PreflightFails,
           TaskSubmitterStep, CallStep, Refuse, HashReturns, SendFails, ReceiptArrives, ReceiptLost,
           LatchHash, TaskHashPersisted, HashAcknowledged, TaskSettles, TaskCaught, TaskEnds,
           withdrawalVars, processVars, taskUnchanged, requestVars, sharedVars, submitterVars
  <2>2. \A o \in Ops : o # w => wpc'[o] = wpc[o]
    BY <1>0, <1>2
       DEF SubmitterTypeOK, TaskStep, TaskStart, Enqueue, PolicySnapshot, PolicyHolds, PreflightThrows,
           PreflightFails, TaskSubmitterStep, CallStep, Refuse, HashReturns, SendFails,
           ReceiptArrives, ReceiptLost, LatchHash, TaskHashPersisted, HashAcknowledged, TaskSettles,
           TaskCaught, TaskEnds, Return, sharedVars, submitterVars
  <2>3. \/ wpc'[w] = wpc[w] /\ UNCHANGED <<latchTx, unknown>>
        \/ wpc[w] \in InSection /\ wpc'[w] \in {"hash", "waiting"} /\ UNCHANGED <<latchTx, unknown>>
        \/ /\ wpc[w] \in {"idle", "queued", "writing"} /\ wpc'[w] \in {"queued", "refused", "unsent"}
           /\ UNCHANGED <<latchTx, unknown>>
        \/ wpc[w] = "waiting" /\ wpc'[w] = "mined" /\ Resolved(w) /\ UNCHANGED <<latchTx, unknown>>
        \/ wpc'[w] = "lost" /\ unknown' = unknown \cup {LostBroadcast} /\ latchTx' = latchTx
        \/ wpc'[w] = "lost" /\ wpc[w] \in InSection /\ latchTx' = w /\ unknown' = unknown
        \/ wpc[w] = "mined" /\ wpc'[w] = "idle" /\ Clear(w, TRUE, FALSE)
        \/ wpc[w] = "unsent" /\ wpc'[w] = "idle" /\ UNCHANGED <<latchTx, unknown>>
        \/ wpc[w] \in Returned /\ wpc'[w] = "idle" /\ \E h \in BOOLEAN : Arm(w, h)
    <3>1. CASE TaskStart(w) \/ PolicySnapshot(w) \/ PolicyHolds(w, n) \/ PreflightThrows(w)
      BY <1>0, <3>1
         DEF SubmitterTypeOK, TaskStart, Enqueue, PolicySnapshot, PolicyHolds, PreflightThrows,
             PreflightFails, Return, sharedVars, submitterVars
    <3>2. CASE TaskSubmitterStep(w) \/ TaskHashPersisted(w)
      BY <1>0, <1>2, <3>2
         DEF SubmitterTypeOK, TaskSubmitterStep, CallStep, Refuse, HashReturns, SendFails,
             ReceiptArrives, ReceiptLost, LatchHash, TaskHashPersisted, HashAcknowledged, Return,
             Resolved, InSection
    <3>3. CASE TaskSettles(w) \/ TaskCaught(w)
      BY <1>0, <3>3
         DEF SubmitterTypeOK, TaskSettles, TaskCaught, TaskEnds, Returned, latchVars
    <3> QED
      BY <3>1, <3>2, <3>3 DEF TaskStep
  <2>4. /\ wpc'[w] \in InSection => wpc[w] \in InSection
        /\ Live(w) => wpc[w] \notin {"queued", "writing", "unsent", "refused", "mined"}
    BY <1>0, <2>3 DEF InSection, TaskOK, Fresh, Resolved, Live
  <2>5. ASSUME NEW o \in Ops, o \in Withdrawals, Live(o), OpGuarded(o) PROVE OpGuarded(o)'
    <3>1. CASE o = w
      BY <1>0, <1>2, <2>1, <2>3, <2>4, <2>5, <3>1
         DEF OpGuarded, InSection, Resolved, Live, TaskOK, Fresh, Clear, Arm, UnknownAfterArm, Returned
    <3>2. CASE o # w
      <4>1. CASE UNCHANGED <<latchTx, unknown>>
        BY <2>1, <2>2, <2>5, <3>2, <4>1 DEF OpGuarded
      <4>2. CASE unknown' = unknown \cup {LostBroadcast} /\ latchTx' = latchTx
        BY <2>1, <2>2, <2>5, <3>2, <4>2 DEF OpGuarded
      <4>3. CASE wpc[w] \in InSection /\ latchTx' = w /\ unknown' = unknown
        BY <1>0, <2>5, <3>2, <4>3 DEF WithdrawalIInv, SectionAlone
      <4>4. CASE Clear(w, TRUE, FALSE)
        BY <1>0, <2>1, <2>2, <2>5, <3>2, <4>4, SubmitterAssumption DEF OpGuarded, Clear
      <4>5. ASSUME NEW h \in BOOLEAN, Arm(w, h) PROVE OpGuarded(o)'
        <5>1. unknown \subseteq unknown' /\ (latchTx' = latchTx \/ latchTx = NoTx)
          BY <4>5 DEF Arm, UnknownAfterArm, LatchAfterArm
        <5> QED
          BY <2>1, <2>2, <2>5, <3>2, <5>1, SubmitterAssumption DEF OpGuarded
      <4> QED
        BY <2>3, <4>1, <4>2, <4>3, <4>4, <4>5
    <3> QED
      BY <3>1, <3>2
  <2> QED
    BY <2>1, <2>2, <2>4, <2>5, GuardsStay DEF Live
<1> QED
  BY <1>1, <1>2

\* Crash, restart and serving: what a restart has to look at again is what
\* may still be live.
LEMMA ProcessGuards ==
    ASSUME WithdrawalIInv,
           \/ WithdrawalCrash \/ WithdrawalServe \/ UNCHANGED wvars
           \/ \E records : RestartOver(records)
    PROVE  OpsGuarded' /\ SectionAlone' /\ OneLiveTx'
<1>0. ControlIInv /\ SubmitterTypeOK /\ OpPhaseOK
  BY ControlTypes DEF WithdrawalIInv, ControlIInv
<1>1. CASE WithdrawalCrash
  <2>1. phase' = "down" /\ wpc' = [o \in Ops |-> "idle"] /\ UNCHANGED <<chain, expired>>
    BY <1>1 DEF WithdrawalCrash, ProcessStops, SubmitterCrash
  <2> QED
    BY <2>1, GuardsStay DEF Live, OpGuarded, InSection
<1>2. CASE \E records : RestartOver(records)
  <2>1. /\ UnfinishedOps \subseteq todo' /\ phase = "down"
        /\ UNCHANGED <<wpc, chain, expired, latchTx, unknown, target>>
    BY <1>2 DEF RestartOver, ProcessStarts, withdrawalVars, submitterVars
  <2>2. ASSUME NEW w \in Withdrawals, Live(w) PROVE w \in UnfinishedOps
    <3>1. TaskOK(w) /\ OpRecordOK(w) /\ task[w] = "none" /\ opStatus[w] \in OpStatus
      BY <1>0, <2>1, ControlTypes DEF ControlIInv, OpPhaseOK, WithdrawalTypeOK
    <3> QED
      BY <2>2, <3>1 DEF UnfinishedOps, TaskOK, OpRecordOK, OutcomeOK, OpStatus, Live
  <2> QED
    BY <2>1, <2>2, GuardsStay DEF Live, OpGuarded
<1>3. CASE WithdrawalServe \/ UNCHANGED wvars
  <2>1. /\ UNCHANGED <<wpc, chain, expired, latchTx, unknown, target>>
        /\ UNCHANGED <<phase, todo>> \/ (todo = {} /\ phase = "recovering")
    BY <1>3 DEF WithdrawalServe, StartServing, wvars, withdrawalVars, sharedVars, submitterVars,
                processVars
  <2> QED
    BY <2>1, GuardsStay DEF Live, OpGuarded
<1> QED
  BY <1>1, <1>2, <1>3

\* Every step of the engine that concerns a request or an operation.
LEMMA WithdrawalStepKeeps ==
    ASSUME WithdrawalIInv, \A w \in Withdrawals : ClearFor(w),
           \/ \E c \in Callers : CallerStep(c)
           \/ \E w \in Withdrawals : OperationStep(w) \/ \E n : TaskStep(w, n)
    PROVE  WithdrawalIInv'
<1>1. ControlIInv'
  BY CallerKeeps, OperationKeeps, TaskKeeps DEF WithdrawalIInv
<1>2. OpsGuarded' /\ SectionAlone' /\ OneLiveTx'
  BY CallerGuards, OperationGuards, TaskGuards
<1> QED
  BY <1>1, <1>2 DEF WithdrawalIInv

\* And the life of the process.
LEMMA WithdrawalProcessKeeps ==
    ASSUME WithdrawalIInv,
           \/ WithdrawalCrash \/ WithdrawalServe \/ UNCHANGED wvars
           \/ \E records : RestartOver(records)
    PROVE  WithdrawalIInv'
BY ProcessKeeps, ProcessGuards DEF WithdrawalIInv

\* A request settles, or latches, the operation it is about.
LEMMA CallerIsApart ==
    ASSUME ControlIInv, NEW c \in Callers, CallerStep(c)
    PROVE  \E w \in Withdrawals : OthersKept(w)
<1>1. UNCHANGED <<wpc, chain, sends, expired>>
  BY DEF CallerStep, SubmitStep, LookUpStep, SubmitStart, SubmitRefused, SubmitClaims,
         SubmitAttributed, SubmitUnattributed, Attributed, MarkUnknown, Get, ReceiptFound,
         ReceiptMissing, NoReceiptApplied, ReadLatest, ReadNonce, UseFound, UseNotFound,
         UnusedExpired, UnusedUnknown, LookUpFails, lookupUnchanged, sharedVars, submitterVars
<1>2. CASE \E w \in Withdrawals : SubmitStart(c, w) \/ Get(c, w)
  BY <1>1, <1>2 DEF SubmitStart, Get, latchVars, OthersKept
<1>3. CASE ~\E w \in Withdrawals : SubmitStart(c, w) \/ Get(c, w)
  <2>1. call[c] # "idle"
    BY <1>3 DEF CallerStep, SubmitStep, LookUpStep, SubmitRefused, SubmitClaims,
         SubmitAttributed, SubmitUnattributed, ReceiptFound,
         ReceiptMissing, NoReceiptApplied, ReadLatest, ReadNonce, UseFound, UseNotFound,
         UnusedExpired, UnusedUnknown, LookUpFails
  <2>2. PICK w \in Withdrawals : w = target[c]
    BY <2>1, CallerRuns
  <2>3. \/ UNCHANGED <<latchTx, unknown>>
        \/ Drained /\ latchTx' = latchTx /\ unknown' = unknown \ {LostBroadcast}
        \/ \E h \in BOOLEAN : Arm(w, h)
        \/ Clear(w, TRUE, FALSE)
        \/ Drained /\ Clear(w, FALSE, TRUE)
    BY <1>3, <2>2
       DEF CallerStep, SubmitStep, LookUpStep, SubmitRefused, SubmitClaims,
         SubmitAttributed, SubmitUnattributed, Attributed, MarkUnknown, ReceiptFound,
         ReceiptMissing, NoReceiptApplied, ReadLatest, ReadNonce, UseFound, UseNotFound,
         UnusedExpired, UnusedUnknown, LookUpFails, latchVars, sharedVars, submitterVars
  <2>4. w \in Ops
    BY OpsAndCallers
  <2>5. ASSUME NEW p \in Ops \ {w}
        PROVE  /\ p \in unknown => p \in unknown'
               /\ latchTx = p => latchTx' = p
               /\ wpc[p] = "lost" /\ LostBroadcast \in unknown => LostBroadcast \in unknown'
    <3>1. p # LostBroadcast /\ p # NoTx /\ w # LostBroadcast /\ (Drained => wpc[p] # "lost")
      BY <2>4, SubmitterAssumption DEF Drained, Returned
    <3> QED
      BY <2>3, <3>1 DEF Arm, UnknownAfterArm, LatchAfterArm, Clear
  <2>6. OthersKept(w)
    BY <1>1, <2>5 DEF OthersKept
  <2> QED
    BY <2>6
<1> QED
  BY <1>2, <1>3

\* So do the task of an operation, and what else happens to it.
LEMMA OperationIsApart ==
    ASSUME SubmitterTypeOK, NEW w \in Withdrawals, NEW n, OperationStep(w) \/ TaskStep(w, n)
    PROVE  OthersKept(w)
<1> USE OpsAndCallers, SubmitterAssumption DEF SubmitterTypeOK, OthersKept, InSection
<1>1. CASE \/ Prepare(w) \/ Expires(w) \/ RecoverPrepared(w) \/ RecoverSent(w) \/ OpTimePasses(w)
           \/ PolicySnapshot(w) \/ PolicyHolds(w, n)
  <2>1. UNCHANGED submitterVars
    BY <1>1 DEF Prepare, Expires, RecoverPrepared, RecoverSent, OpTimePasses, PolicySnapshot,
                PolicyHolds, lookupUnchanged, latchVars, sharedVars, submitterVars
  <2> QED
    BY <2>1 DEF submitterVars
<1>2. CASE \/ OpActionExpires(w) \/ WithdrawalSucceeds(w) \/ WithdrawalReverts(w)
           \/ WithdrawalPropagates(w) \/ ForeignUse(w)
  BY <1>2 DEF OpActionExpires, Expire, WithdrawalSucceeds, WithdrawalReverts, MineAs,
              WithdrawalPropagates, NodeAccepts, ForeignUse, latchVars
<1>3. CASE TaskStart(w) \/ PreflightThrows(w) \/ TaskSubmitterStep(w) \/ TaskHashPersisted(w)
  BY <1>3 DEF TaskStart, Enqueue, PreflightThrows, PreflightFails, TaskSubmitterStep, CallStep,
              Refuse, Begin, HandOver, HashReturns, SendFails, ReceiptArrives, ReceiptLost,
              LatchHash, TaskHashPersisted, HashAcknowledged, Return, Latched
<1>4. CASE TaskSettles(w) \/ TaskCaught(w)
  BY <1>4 DEF TaskSettles, TaskCaught, TaskEnds, Clear, Arm, UnknownAfterArm, LatchAfterArm,
              latchVars
<1> QED
  BY <1>1, <1>2, <1>3, <1>4 DEF OperationStep, TaskStep

\* The first state.
LEMMA WithdrawalsInitial == WithdrawalEngineInit => AloneIInv
<1> SUFFICES ASSUME WithdrawalEngineInit PROVE AloneIInv
  OBVIOUS
<1>1. \A o \in Ops : wpc[o] = "idle" /\ chain[o] = "none" /\ sends[o] = 0 /\ ~Live(o)
  BY DEF WithdrawalEngineInit, ProcessInit, SubmitterInit, Live
<1> QED
  BY <1>1, ControlInitial, OpsAndCallers
     DEF AloneIInv, WithdrawalsAlone, WithdrawalIInv, OpsGuarded, SectionAlone, OneLiveTx, InSection

\* Every step of the withdrawal engine.
LEMMA AloneStepKeeps == AloneIInv /\ [WithdrawalNext]_wvars => AloneIInv'
<1> SUFFICES ASSUME AloneIInv, [WithdrawalNext]_wvars PROVE AloneIInv'
  OBVIOUS
<1>0. WithdrawalIInv /\ ControlIInv /\ SubmitterTypeOK /\ \A w \in Withdrawals : ClearFor(w)
  BY ControlTypes DEF AloneIInv, WithdrawalIInv, WithdrawalsAlone, ClearFor, Live
<1>1. CASE \/ \E c \in Callers : CallerStep(c)
           \/ \E w \in Withdrawals : OperationStep(w) \/ TaskStep(w, 0)
  <2>1. \E w \in Withdrawals : OthersKept(w)
    BY <1>0, <1>1, CallerIsApart, OperationIsApart
  <2>2. WithdrawalsAlone'
    BY <2>1 DEF AloneIInv, WithdrawalsAlone, OthersKept
  <2> QED
    BY <1>0, <1>1, <2>2, WithdrawalStepKeeps DEF AloneIInv
<1>2. CASE WithdrawalCrash \/ WithdrawalRestart \/ WithdrawalServe \/ UNCHANGED wvars
  <2>1. WithdrawalsAlone'
    BY <1>2 DEF AloneIInv, WithdrawalsAlone, WithdrawalCrash, ProcessStops, SubmitterCrash,
                WithdrawalRestart, ProcessStarts, WithdrawalServe, StartServing, wvars, sharedVars,
                submitterVars
  <2> QED
    BY <1>0, <1>2, <2>1, RestartIsOver, WithdrawalProcessKeeps DEF AloneIInv
<1> QED
  BY <1>1, <1>2 DEF WithdrawalNext, OpsQuiescent

\* The executor's invariant holds in every state of the withdrawal engine.
THEOREM WithdrawalExecutorInvariant == WithdrawalSpec => []AloneIInv
BY WithdrawalsInitial, AloneStepKeeps, PTL DEF WithdrawalSpec

\* A withdrawal's transaction is broadcast at most once.
THEOREM WithdrawalsAreSentOnce == WithdrawalSpec => []AtMostOneBroadcast
<1>1. AloneIInv => AtMostOneBroadcast
  <2> SUFFICES ASSUME AloneIInv, NEW o \in Ops PROVE sends[o] <= 1
    BY DEF AtMostOneBroadcast
  <2>1. CASE o \in Withdrawals
    BY <2>1 DEF AloneIInv, WithdrawalIInv, ControlIInv, TaskOK
  <2>2. CASE o \notin Withdrawals
    BY <2>2 DEF AloneIInv, WithdrawalsAlone
  <2> QED
    BY <2>1, <2>2
<1> QED
  BY <1>1, WithdrawalExecutorInvariant, PTL

\* Of the withdrawals' transactions at most one can still be mined: a second
\* one is refused until the first is settled, over lookups, failures of the
\* node and restarts.
THEOREM WithdrawalsShareTheExecutor == WithdrawalSpec => []OneLiveTx
<1>1. AloneIInv => OneLiveTx
  BY DEF AloneIInv, WithdrawalIInv
<1> QED
  BY <1>1, WithdrawalExecutorInvariant, PTL

-----------------------------------------------------------------------------
(* The cash. *)

\* The types, spelled out.
LEMMA FundsTypes ==
    ASSUME OpFundsIInv
    PROVE  /\ ControlIInv /\ SubmitterTypeOK /\ WithdrawalTypeOK
           /\ cash \in [Accounts -> Int] /\ snapshot \in [Withdrawals -> Int]
           /\ \A w \in Withdrawals : /\ Debited[w] \in Accounts /\ Amount[w] \in Nat /\ w \in Ops
                                   /\ cash[Debited[w]] \in Int /\ snapshot[w] \in Int
BY ControlTypes, OpsAndCallers
   DEF OpFundsIInv, AloneIInv, WithdrawalIInv, ControlIInv, WithdrawalEngineTypeOK, ProcessTypeOK, WithdrawalTypeOK

\* A step without cash, and without a policy check that goes on.
LEMMA FundsStay ==
    ASSUME OpFundsIInv, AloneIInv', UNCHANGED <<cash, sends>>,
           \A x \in Withdrawals : /\ (chain'[x] = "success" <=> chain[x] = "success")
                               /\ (chain'[x] = "none" <=> chain[x] = "none")
                               /\ (Live(x)' => Live(x)),
           \A x \in Withdrawals :
               /\ wpc'[x] = "queued" => task'[x] = "queued"
               /\ wpc'[x] = "writing" /\ task'[x] = "snapped" =>
                    wpc[x] = "writing" /\ task[x] = "snapped" /\ snapshot'[x] = snapshot[x]
               /\ wpc'[x] = "writing" /\ task'[x] = "cleared" =>
                    wpc[x] = "writing" /\ task[x] = "cleared"
    PROVE  OpFundsIInv'
<1>1. \A x \in Withdrawals : Stolen(x)' <=> Stolen(x)
  BY DEF Stolen
<1>2. \A x \in Withdrawals : Honest(x)' <=> Honest(x)
  BY <1>1 DEF Honest
<1>3. ASSUME NEW x \in Withdrawals PROVE FundsOK(x)' /\ Untried(x)'
  <2>1. FundsOK(x) /\ Untried(x)
    BY DEF OpFundsIInv
  <2> QED
    BY <1>1, <1>2, <2>1 DEF FundsOK, Untried
<1>4. ASSUME NEW a \in Accounts PROVE SoundOK(a)'
  BY <1>1 DEF OpFundsIInv, SoundOK
<1> QED
  BY <1>3, <1>4 DEF OpFundsIInv

\* Requests have no hand in the cash.
LEMMA CallerFunds ==
    ASSUME OpFundsIInv, AloneIInv', NEW c \in Callers, CallerStep(c)
    PROVE  OpFundsIInv'
<1>0. ControlIInv /\ CallerOK(c) /\ WithdrawalTypeOK
  BY FundsTypes DEF ControlIInv
<1>1. UNCHANGED <<chain, expired, wpc, sends, cash, snapshot>>
  BY DEF CallerStep, SubmitStep, LookUpStep, SubmitStart, SubmitRefused, SubmitClaims,
         SubmitAttributed, SubmitUnattributed, Attributed, MarkUnknown, Get, ReceiptFound,
         ReceiptMissing, NoReceiptApplied, ReadLatest, ReadNonce, UseFound, UseNotFound,
         UnusedExpired, UnusedUnknown, LookUpFails, lookupUnchanged, sharedVars, submitterVars,
         fundsVars
<1>2. \/ task' = task
      \/ call[c] = "checking" /\ task' = [task EXCEPT ![target[c]] = "scheduled"]
  BY DEF CallerStep, SubmitStep, LookUpStep, SubmitStart, SubmitRefused, SubmitClaims,
         SubmitAttributed, SubmitUnattributed, Attributed, MarkUnknown, Get, ReceiptFound,
         ReceiptMissing, NoReceiptApplied, ReadLatest, ReadNonce, UseFound, UseNotFound,
         UnusedExpired, UnusedUnknown, LookUpFails, lookupUnchanged
<1>3. \A x \in Withdrawals : task'[x] = task[x] \/ wpc[x] = "idle"
  <2>1. call[c] = "checking" => target[c] \in Withdrawals /\ task[target[c]] = "none"
    BY <1>0 DEF CallerOK
  <2>2. \A x \in Withdrawals : TaskOK(x)
    BY <1>0 DEF ControlIInv
  <2> QED
    BY <1>0, <1>2, <2>1, <2>2 DEF TaskOK, WithdrawalTypeOK
<1>4. \A x \in Withdrawals : Untried(x)
  BY DEF OpFundsIInv
<1> QED
  BY <1>1, <1>3, <1>4, FundsStay DEF Live, Untried

\* The one place where cash leaves an account on behalf of this process: the
\* transaction is the only live one, and no policy check is under way.
LEMMA SuccessFunds ==
    ASSUME OpFundsIInv, AloneIInv', NEW w \in Withdrawals, WithdrawalSucceeds(w)
    PROVE  OpFundsIInv'
<1>0. /\ ControlIInv /\ SubmitterTypeOK /\ TaskOK(w) /\ cash \in [Accounts -> Int]
      /\ Debited[w] \in Accounts /\ Amount[w] \in Nat /\ w \in Ops
  BY FundsTypes DEF ControlIInv
<1>1. /\ chain[w] = "pending" /\ ~expired[w] /\ Live(w)
      /\ chain' = [chain EXCEPT ![w] = "success"]
      /\ cash' = [cash EXCEPT ![Debited[w]] = @ - Amount[w]]
      /\ UNCHANGED <<expired, sends, wpc, task, snapshot>>
  BY DEF WithdrawalSucceeds, MineAs, Debit, Live, withdrawalVars
<1>2. /\ chain'[w] = "success" /\ \A o \in Ops : o # w => chain'[o] = chain[o]
      /\ cash'[Debited[w]] = cash[Debited[w]] - Amount[w]
      /\ \A a \in Accounts : a # Debited[w] => cash'[a] = cash[a]
  BY <1>0, <1>1 DEF SubmitterTypeOK
<1>3. sends[w] # 0 /\ wpc[w] # "writing"
  BY <1>0, <1>1 DEF TaskOK, Fresh
<1>4. \A x \in Withdrawals : /\ (Stolen(x)' <=> Stolen(x))
                            /\ wpc[x] # "writing" /\ ~Live(x)'
                            /\ x \in Ops
  <2> SUFFICES ASSUME NEW x \in Withdrawals
               PROVE  (Stolen(x)' <=> Stolen(x)) /\ wpc[x] # "writing" /\ ~Live(x)' /\ x \in Ops
    OBVIOUS
  <2>1. x \in Ops
    BY OpsAndCallers
  <2>2. wpc[x] \in InSection \/ Live(x) => x = w
    BY <1>0, <1>1, <2>1 DEF OpFundsIInv, AloneIInv, WithdrawalIInv, SectionAlone, OneLiveTx
  <2> QED
    BY <1>1, <1>2, <1>3, <2>1, <2>2 DEF Stolen, Live, InSection
<1>5. ASSUME NEW x \in Withdrawals PROVE FundsOK(x)' /\ Untried(x)'
  <2>1. FundsOK(x)'
    BY <1>1, <1>4 DEF FundsOK
  <2>2. Untried(x)'
    BY <1>1, <1>2, <1>4 DEF OpFundsIInv, Untried
  <2> QED
    BY <2>1, <2>2
<1>6. ASSUME NEW a \in Accounts PROVE SoundOK(a)'
  <2>1. SoundOK(a) /\ FundsOK(w)
    BY DEF OpFundsIInv
  <2>2. CASE a # Debited[w]
    BY <1>2, <1>4, <2>1, <2>2 DEF SoundOK
  <2>3. CASE a = Debited[w]
    <3> SUFFICES ASSUME \A x \in Withdrawals : Stolen(x) => Debited[x] # a
                 PROVE  cash'[a] >= 0
      BY <1>4 DEF SoundOK
    <3>1. Honest(w)
      BY <2>3 DEF Honest
    <3> QED
      BY <1>0, <1>1, <1>2, <2>1, <2>3, <3>1 DEF FundsOK
  <2> QED
    BY <2>2, <2>3
<1> QED
  BY <1>5, <1>6 DEF OpFundsIInv

\* The action is sent from outside this process: from here on, the account
\* is one whose cash this process does not answer for.
LEMMA ForeignFunds ==
    ASSUME OpFundsIInv, AloneIInv', NEW w \in Withdrawals, ForeignUse(w)
    PROVE  OpFundsIInv'
<1>0. /\ ControlIInv /\ SubmitterTypeOK /\ TaskOK(w) /\ cash \in [Accounts -> Int]
      /\ Debited[w] \in Accounts /\ Amount[w] \in Nat /\ w \in Ops
      /\ \A x \in Withdrawals : cash[Debited[x]] \in Int /\ snapshot[x] \in Int /\ Amount[x] \in Nat
  BY FundsTypes DEF ControlIInv
<1>1. UNCHANGED <<expired, sends, wpc, task, snapshot>>
  BY DEF ForeignUse
<1>2. CASE UNCHANGED <<chain, cash>>
  BY <1>1, <1>2, FundsStay DEF Live, OpFundsIInv, Untried
<1>3. CASE /\ chain[w] = "none" /\ chain' = [chain EXCEPT ![w] = "success"]
           /\ cash' = [cash EXCEPT ![Debited[w]] = @ - Amount[w]]
  <2>1. /\ chain'[w] = "success" /\ \A o \in Ops : o # w => chain'[o] = chain[o]
        /\ cash'[Debited[w]] = cash[Debited[w]] - Amount[w]
        /\ \A a \in Accounts : a # Debited[w] => cash'[a] = cash[a]
    BY <1>0, <1>3 DEF SubmitterTypeOK
  <2>2. sends[w] = 0 /\ Stolen(w)' /\ ~Stolen(w)
    BY <1>1, <1>3, <2>1 DEF OpFundsIInv, Untried, Stolen
  <2>3. \A x \in Withdrawals : x # w => (Stolen(x)' <=> Stolen(x)) /\ (Live(x)' => Live(x))
    BY <1>1, <2>1, OpsAndCallers DEF Stolen, Live
  <2>4. ASSUME NEW x \in Withdrawals PROVE FundsOK(x)' /\ Untried(x)'
    <3>1. FundsOK(x) /\ Untried(x) /\ x \in Ops /\ Debited[x] \in Accounts
      BY FundsTypes DEF OpFundsIInv
    <3>2. Untried(x)'
      BY <1>1, <2>1, <3>1 DEF Untried
    <3>3. SUFFICES ASSUME Honest(x)' PROVE FundsOK(x)'
      BY <3>2 DEF FundsOK
    <3>4. Honest(x)
      BY <2>2, <2>3, <3>3 DEF Honest
    <3>5. CASE x = w
      BY <1>0, <1>1, <2>1, <2>2, <3>1, <3>4, <3>5 DEF FundsOK, Live
    <3>6. CASE x # w
      <4>1. Debited[x] # Debited[w]
        BY <2>2, <3>3, <3>6 DEF Honest
      <4> QED
        BY <1>1, <2>1, <2>3, <3>1, <3>4, <3>6, <4>1 DEF FundsOK
    <3> QED
      BY <3>5, <3>6
  <2>5. ASSUME NEW a \in Accounts PROVE SoundOK(a)'
    <3>1. CASE a = Debited[w]
      BY <2>2, <3>1 DEF SoundOK
    <3>2. CASE a # Debited[w]
      BY <2>1, <2>2, <2>3, <3>2 DEF OpFundsIInv, SoundOK
    <3> QED
      BY <3>1, <3>2
  <2> QED
    BY <2>4, <2>5 DEF OpFundsIInv
<1> QED
  BY <1>2, <1>3 DEF ForeignUse, Debit

\* The other steps of operations and of the chain.
LEMMA OperationFunds ==
    ASSUME OpFundsIInv, AloneIInv', NEW w \in Withdrawals, OperationStep(w)
    PROVE  OpFundsIInv'
<1>1. CASE WithdrawalSucceeds(w) \/ ForeignUse(w)
  BY <1>1, SuccessFunds, ForeignFunds
<1>2. CASE OperationStep(w) /\ ~WithdrawalSucceeds(w) /\ ~ForeignUse(w)
  <2>0. SubmitterTypeOK /\ w \in Ops
    BY FundsTypes
  <2>1. UNCHANGED <<cash, sends, wpc, task, snapshot>>
    BY <1>2
       DEF OperationStep, Prepare, Expires, RecoverPrepared, RecoverSent, OpTimePasses,
           OpActionExpires, Expire, WithdrawalReverts, MineAs, WithdrawalPropagates, NodeAccepts,
           lookupUnchanged, withdrawalVars, sharedVars, submitterVars, fundsVars
  <2>2. /\ \A o \in Ops : o # w => chain'[o] = chain[o] /\ expired'[o] = expired[o]
        /\ \/ chain'[w] = chain[w] /\ (expired'[w] = expired[w] \/ expired'[w])
           \/ chain[w] = "handed" /\ chain'[w] = "pending" /\ expired' = expired
           \/ chain[w] = "pending" /\ chain'[w] = "reverted"
    BY <1>2, <2>0
       DEF SubmitterTypeOK, OperationStep, Prepare, Expires, RecoverPrepared, RecoverSent,
           OpTimePasses, OpActionExpires, Expire, WithdrawalReverts, MineAs, WithdrawalPropagates,
           NodeAccepts, lookupUnchanged, withdrawalVars, sharedVars, submitterVars
  <2>3. \A x \in Withdrawals : x \in Ops /\ Untried(x)
    BY OpsAndCallers DEF OpFundsIInv
  <2>4. \A x \in Withdrawals : /\ (chain'[x] = "success" <=> chain[x] = "success")
                            /\ (chain'[x] = "none" <=> chain[x] = "none")
                            /\ (Live(x)' => Live(x))
    BY <2>2, <2>3 DEF Live
  <2> QED
    BY <2>1, <2>3, <2>4, FundsStay DEF Untried
<1> QED
  BY <1>1, <1>2

\* The final policy check reads the cash; from here to the end of the
\* section nothing of this process can take it.
LEMMA SnapshotFunds ==
    ASSUME OpFundsIInv, AloneIInv', NEW w \in Withdrawals, PolicySnapshot(w)
    PROVE  OpFundsIInv'
<1>0. /\ ControlIInv /\ WithdrawalTypeOK /\ cash[Debited[w]] \in Int /\ Amount[w] \in Nat
      /\ FundsOK(w) /\ Untried(w)
  BY FundsTypes DEF OpFundsIInv
<1>1. /\ UNCHANGED <<chain, expired, sends, wpc, cash>> /\ wpc[w] = "writing"
      /\ task'[w] = "snapped" /\ snapshot'[w] = cash[Debited[w]]
      /\ \A x \in Withdrawals : x # w => task'[x] = task[x] /\ snapshot'[x] = snapshot[x]
  BY <1>0 DEF PolicySnapshot, WithdrawalTypeOK, sharedVars, submitterVars, fundsVars
<1>2. \A x \in Withdrawals : (Stolen(x)' <=> Stolen(x)) /\ (Live(x)' <=> Live(x))
  BY <1>1 DEF Stolen, Live
<1>3. \A x \in Withdrawals : Honest(x)' <=> Honest(x)
  BY <1>2 DEF Honest
<1>4. FundsOK(w)' /\ Untried(w)'
  BY <1>0, <1>1, <1>2, <1>3 DEF FundsOK, Untried
<1>5. ASSUME NEW x \in Withdrawals, x # w PROVE FundsOK(x)' /\ Untried(x)'
  <2>1. FundsOK(x) /\ Untried(x)
    BY DEF OpFundsIInv
  <2> QED
    BY <1>1, <1>2, <1>3, <1>5, <2>1 DEF FundsOK, Untried
<1>6. ASSUME NEW a \in Accounts PROVE SoundOK(a)'
  BY <1>1, <1>2 DEF OpFundsIInv, SoundOK
<1> QED
  BY <1>4, <1>5, <1>6 DEF OpFundsIInv

\* The check passes: what it has read covers the amount, and is still there.
LEMMA PolicyFunds ==
    ASSUME OpFundsIInv, AloneIInv', NEW w \in Withdrawals, PolicyHolds(w, 0)
    PROVE  OpFundsIInv'
<1>0. /\ ControlIInv /\ WithdrawalTypeOK /\ FundsOK(w) /\ Untried(w)
      /\ cash[Debited[w]] \in Int /\ Amount[w] \in Nat /\ snapshot[w] \in Int
  BY FundsTypes DEF OpFundsIInv
<1>1. /\ UNCHANGED <<chain, expired, sends, wpc, cash, snapshot>>
      /\ task[w] = "snapped" /\ snapshot[w] >= Amount[w] /\ task'[w] = "cleared"
      /\ \A x \in Withdrawals : x # w => task'[x] = task[x]
  BY <1>0 DEF PolicyHolds, WithdrawalTypeOK, sharedVars, submitterVars, fundsVars
<1>2. \A x \in Withdrawals : (Stolen(x)' <=> Stolen(x)) /\ (Live(x)' <=> Live(x))
  BY <1>1 DEF Stolen, Live
<1>3. \A x \in Withdrawals : Honest(x)' <=> Honest(x)
  BY <1>2 DEF Honest
<1>4. FundsOK(w)' /\ Untried(w)'
  BY <1>0, <1>1, <1>2, <1>3 DEF FundsOK, Untried
<1>5. ASSUME NEW x \in Withdrawals, x # w PROVE FundsOK(x)' /\ Untried(x)'
  <2>1. FundsOK(x) /\ Untried(x)
    BY DEF OpFundsIInv
  <2> QED
    BY <1>1, <1>2, <1>3, <1>5, <2>1 DEF FundsOK, Untried
<1>6. ASSUME NEW a \in Accounts PROVE SoundOK(a)'
  BY <1>1, <1>2 DEF OpFundsIInv, SoundOK
<1> QED
  BY <1>4, <1>5, <1>6 DEF OpFundsIInv

\* The transaction is given to the node: it is covered, and the account
\* answers for it again if somebody else had sent it first.
LEMMA HandOverFunds ==
    ASSUME OpFundsIInv, AloneIInv', NEW w \in Withdrawals, TaskSubmitterStep(w), HandOver(w)
    PROVE  OpFundsIInv'
<1>0. /\ ControlIInv /\ SubmitterTypeOK /\ TaskOK(w) /\ FundsOK(w) /\ Untried(w)
      /\ w \in Ops /\ Debited[w] \in Accounts /\ Amount[w] \in Nat
      /\ cash[Debited[w]] \in Int
  BY FundsTypes DEF OpFundsIInv, ControlIInv
<1>1. /\ wpc[w] = "writing" /\ task[w] = "cleared" /\ sends[w] = 0
      /\ wpc'[w] = "sending" /\ sends'[w] = 1
      /\ chain'[w] = IF chain[w] = "none" THEN "handed" ELSE chain[w]
      /\ \A o \in Ops : o # w => /\ wpc'[o] = wpc[o] /\ chain'[o] = chain[o]
                              /\ sends'[o] = sends[o]
      /\ UNCHANGED <<expired, cash, task, snapshot>>
  BY <1>0 DEF TaskSubmitterStep, HandOver, TaskOK, Fresh, SubmitterTypeOK, withdrawalVars, fundsVars
<1>2. ~Stolen(w)' /\ (Live(w)' => ~Stolen(w)) /\ wpc[w] \in InSection
  BY <1>1 DEF Stolen, Live, InSection
<1>3. ASSUME NEW x \in Withdrawals, x # w
      PROVE  /\ (Stolen(x)' <=> Stolen(x)) /\ ~Live(x)'
             /\ wpc[x] # "writing" /\ (Untried(x) <=> Untried(x)')
             /\ wpc'[x] # "writing"
  <2>1. x \in Ops /\ ~Live(x) /\ wpc[x] # "writing"
    BY <1>0, <1>1, <1>2, <1>3, OpsAndCallers, OneInSection
       DEF OpFundsIInv, AloneIInv, WithdrawalIInv, ControlIInv, SectionAlone, InSection
  <2> QED
    BY <1>1, <1>3, <2>1 DEF Stolen, Live, Untried
<1>4. ASSUME NEW x \in Withdrawals PROVE FundsOK(x)' /\ Untried(x)'
  <2>1. CASE x = w
    <3>1. Untried(x)'
      BY <1>1, <2>1 DEF Untried
    <3>2. Live(w)' => Live(w) \/ (~Stolen(w))
      BY <1>2
    <3>3. Honest(w)' /\ ~Stolen(w) => Honest(w)
      BY <1>2, <1>3 DEF Honest
    <3> QED
      BY <1>0, <1>1, <1>2, <2>1, <3>1, <3>3 DEF FundsOK
  <2>2. CASE x # w
    BY <1>3, <2>2 DEF OpFundsIInv, FundsOK
  <2> QED
    BY <2>1, <2>2
<1>5. ASSUME NEW a \in Accounts PROVE SoundOK(a)'
  <2>1. SUFFICES ASSUME \A x \in Withdrawals : Stolen(x)' => Debited[x] # a PROVE cash[a] >= 0
    BY <1>1 DEF SoundOK
  <2>2. CASE Stolen(w) /\ Debited[w] = a
    <3>1. Honest(w)
      BY <1>3, <2>1, <2>2 DEF Honest
    <3> QED
      BY <1>0, <1>1, <2>2, <3>1 DEF FundsOK
  <2>3. CASE ~(Stolen(w) /\ Debited[w] = a)
    BY <1>3, <2>1, <2>3 DEF OpFundsIInv, SoundOK
  <2> QED
    BY <2>2, <2>3
<1> QED
  BY <1>4, <1>5 DEF OpFundsIInv

\* The task of a withdrawal.
LEMMA TaskFunds ==
    ASSUME OpFundsIInv, AloneIInv', NEW w \in Withdrawals, TaskStep(w, 0)
    PROVE  OpFundsIInv'
<1>1. CASE PolicySnapshot(w) \/ PolicyHolds(w, 0) \/ (TaskSubmitterStep(w) /\ HandOver(w))
  BY <1>1, SnapshotFunds, PolicyFunds, HandOverFunds
<1>2. CASE /\ TaskStep(w, 0) /\ ~PolicySnapshot(w) /\ ~PolicyHolds(w, 0)
           /\ ~(TaskSubmitterStep(w) /\ HandOver(w))
  <2>0. /\ ControlIInv /\ SubmitterTypeOK /\ WithdrawalTypeOK /\ w \in Ops /\ TaskOK(w) /\ Untried(w)
    BY FundsTypes DEF ControlIInv, OpFundsIInv
  <2>1. UNCHANGED <<chain, expired, sends, cash>>
    BY <1>2
       DEF TaskStep, TaskStart, Enqueue, PreflightThrows, PreflightFails, TaskSubmitterStep, CallStep,
           Refuse, Begin, HashReturns, SendFails, ReceiptArrives, ReceiptLost, LatchHash,
           TaskHashPersisted, HashAcknowledged, TaskSettles, TaskCaught, TaskEnds, fundsVars
  <2>2. \A x \in Withdrawals : x # w => /\ wpc'[x] = wpc[x] /\ task'[x] = task[x]
                                    /\ snapshot'[x] = snapshot[x]
    BY <1>2, <2>0, OpsAndCallers
       DEF SubmitterTypeOK, WithdrawalTypeOK, TaskStep, TaskStart, Enqueue, PreflightThrows,
           PreflightFails, TaskSubmitterStep, CallStep, Refuse, Begin, HashReturns, SendFails,
           ReceiptArrives, ReceiptLost, LatchHash, TaskHashPersisted, HashAcknowledged, TaskSettles,
           TaskCaught, TaskEnds, Return, withdrawalVars
  <2>3. \/ task'[w] = "queued" /\ wpc'[w] = "queued"
        \/ task'[w] = task[w] /\ wpc[w] = "queued" /\ wpc'[w] \in {"refused", "writing"}
        \/ wpc'[w] \notin {"queued", "writing"}
    <3>1. CASE TaskStart(w) \/ PreflightThrows(w)
      BY <2>0, <3>1
         DEF SubmitterTypeOK, WithdrawalTypeOK, TaskStart, Enqueue, PreflightThrows, PreflightFails,
             Return
    <3>2. CASE TaskSubmitterStep(w) \/ TaskHashPersisted(w)
      BY <1>2, <2>0, <3>2
         DEF SubmitterTypeOK, TaskSubmitterStep, CallStep, Refuse, Begin, HashReturns, SendFails,
             ReceiptArrives, ReceiptLost, LatchHash, TaskHashPersisted, HashAcknowledged, Return,
             withdrawalVars
    <3>3. CASE TaskSettles(w) \/ TaskCaught(w)
      BY <2>0, <3>3 DEF SubmitterTypeOK, TaskSettles, TaskCaught, TaskEnds
    <3> QED
      BY <1>2, <3>1, <3>2, <3>3 DEF TaskStep
  <2>4. \A x \in Withdrawals : Untried(x)
    BY DEF OpFundsIInv
  <2> QED
    BY <2>0, <2>1, <2>2, <2>3, <2>4, FundsStay DEF Live, Untried
<1> QED
  BY <1>1, <1>2

\* Crash, restart and serving.
LEMMA OpProcessFunds ==
    ASSUME OpFundsIInv, AloneIInv',
           WithdrawalCrash \/ WithdrawalRestart \/ WithdrawalServe \/ UNCHANGED wvars
    PROVE  OpFundsIInv'
<1>1. CASE WithdrawalCrash
  <2>1. /\ UNCHANGED <<chain, expired, sends, cash>>
        /\ wpc' = [o \in Ops |-> "idle"]
    BY <1>1 DEF WithdrawalCrash, ProcessStops, SubmitterCrash
  <2>2. \A x \in Withdrawals : wpc'[x] = "idle"
    BY <2>1, OpsAndCallers
  <2> QED
    BY <2>1, <2>2, FundsStay DEF Live
<1>2. CASE WithdrawalRestart \/ WithdrawalServe \/ UNCHANGED wvars
  <2>1. UNCHANGED <<chain, expired, sends, cash, wpc, task, snapshot>>
    BY <1>2 DEF WithdrawalRestart, ProcessStarts, WithdrawalServe, StartServing, wvars,
                withdrawalVars, sharedVars, submitterVars, fundsVars
  <2>2. \A x \in Withdrawals : Untried(x)
    BY DEF OpFundsIInv
  <2> QED
    BY <2>1, <2>2, FundsStay DEF Live, Untried
<1> QED
  BY <1>1, <1>2

\* The first state, where no account is in debt.
LEMMA OpFundsInitial ==
    ASSUME \A a \in Accounts : InitialCash[a] >= 0
    PROVE  WithdrawalEngineInit => OpFundsIInv
<1> SUFFICES ASSUME WithdrawalEngineInit PROVE OpFundsIInv
  OBVIOUS
<1>1. /\ \A w \in Withdrawals : w \in Ops /\ wpc[w] = "idle" /\ sends[w] = 0 /\ ~Live(w)
      /\ cash = InitialCash
  BY OpsAndCallers DEF WithdrawalEngineInit, ProcessInit, SubmitterInit, Live
<1> QED
  BY <1>1, WithdrawalsInitial DEF OpFundsIInv, FundsOK, Untried, SoundOK

\* Every step of the withdrawal engine.
LEMMA OpFundsStepKeeps == OpFundsIInv /\ [WithdrawalNext]_wvars => OpFundsIInv'
<1> SUFFICES ASSUME OpFundsIInv, [WithdrawalNext]_wvars PROVE OpFundsIInv'
  OBVIOUS
<1>1. AloneIInv'
  BY AloneStepKeeps DEF OpFundsIInv
<1> QED
  BY <1>1, CallerFunds, OperationFunds, TaskFunds, OpProcessFunds DEF WithdrawalNext, OpsQuiescent

\* As long as every withdrawal that succeeds was sent by this process, no
\* account that starts without a debt gets one: what the final policy check
\* has read is still there when the withdrawal is mined.
THEOREM WithdrawalsNeverOverdraw ==
    ASSUME \A a \in Accounts : InitialCash[a] >= 0
    PROVE  WithdrawalSpec => []NeverOverdrawn
<1>1. WithdrawalEngineInit => OpFundsIInv
  BY OpFundsInitial
<1>2. OpFundsIInv => NeverOverdrawn
  <2> SUFFICES ASSUME OpFundsIInv, \A w \in Withdrawals : chain[w] = "success" => sends[w] > 0,
                      NEW a \in Accounts
               PROVE  cash[a] >= 0
    BY DEF NeverOverdrawn
  <2>1. \A w \in Withdrawals : ~Stolen(w)
    BY DEF Stolen
  <2> QED
    BY <2>1 DEF OpFundsIInv, SoundOK
<1> QED
  BY <1>1, <1>2, OpFundsStepKeeps, PTL DEF WithdrawalSpec
=============================================================================
