-------------------------- MODULE WithdrawalEngine --------------------------
(***************************************************************************)
(* The withdrawal operations of withdrawal.ts in the process of            *)
(* EngineProcess.  A client prepares an operation, submits it signed, and  *)
(* asks for its status; a background task runs the submission under the    *)
(* account key and the executor's queue.  Status lookups take no lock:     *)
(* they read the chain, and apply what they read when the answer arrives.  *)
(***************************************************************************)
EXTENDS EngineProcess

CONSTANTS
    Withdrawals,   \* operations that may be prepared
    Clients,       \* HTTP requests in flight
    Recoverer,     \* the recover() call, as a caller of the lookups
    Debited,       \* Debited[w]: the subaccount w takes cash from
    Amount,        \* Amount[w]: how much
    UsedElsewhere  \* pairs <<w, who>>: nonces others may use, see ForeignUse

ASSUME WithdrawalAssumption ==
    /\ Withdrawals \subseteq Ops
    /\ Recoverer \notin Clients
    /\ Nobody \notin Clients \cup {Recoverer}
    /\ Debited \in [Withdrawals -> Accounts]
    /\ Amount \in [Withdrawals -> Nat]
    /\ UsedElsewhere \subseteq Withdrawals \X {"executor", "stranger"}

Callers == Clients \cup {Recoverer}

VARIABLES
    \* the journal and its in-memory index
    opStatus,   \* opStatus[w]
    opHash,     \* opHash[w]: txHash is set
    \* time
    opLate,     \* opLate[w]: now >= expiresAt
    \* process memory
    claimedBy,  \* claimedBy[w]: the request that has w in submitClaims
    task,       \* task[w]: the background submission of w
    snapshot,   \* snapshot[w]: the cash its final policy check has read
    call,       \* call[c]: how far the request of c has come
    target,     \* target[c]: the operation it is about
    sawExpired, \* sawExpired[c]: the latest block it read was past the expiry
    \* chain
    foreign     \* foreign[w]: a transaction of another sender used the nonce

withdrawalVars == <<opStatus, opHash, opLate, claimedBy, task, snapshot, call, target,
                    sawExpired, foreign>>
wvars == <<withdrawalVars, sharedVars>>

OpStatus == {"none", "prepared", "submitting", "submitted", "unknown",
             "confirmed", "reverted", "rejected", "expired"}
OpTerminal == {"confirmed", "reverted", "rejected", "expired"}

CallPc == {"idle",
           "checking",        \* submit: signature, then nonce
           "receipt",         \* reconcileSubmitted, before the receipt's answer
           "noReceipt",       \* the answer is null
           "latest", "used",  \* reconcileUnknown: the latest block, the nonce
           "find",            \* nonce used: looking for the transaction
           "unused"}          \* nonce not used

TaskPc == {"none",
           "scheduled",   \* setImmediate, or waiting for the account key
           "queued",      \* executeSubmission has called the submitter
           "snapped",     \* the final policy check has read the cash
           "cleared"}     \* policy and signed simulation passed

WithdrawalTypeOK ==
    /\ opStatus \in [Withdrawals -> OpStatus]
    /\ opHash \in [Withdrawals -> BOOLEAN]
    /\ opLate \in [Withdrawals -> BOOLEAN]
    /\ claimedBy \in [Withdrawals -> Callers \cup {Nobody}]
    /\ task \in [Withdrawals -> TaskPc]
    /\ snapshot \in [Withdrawals -> Int]
    /\ call \in [Callers -> CallPc]
    /\ target \in [Callers -> Withdrawals \cup {Nobody}]
    /\ sawExpired \in [Callers -> BOOLEAN]
    /\ foreign \in [Withdrawals -> BOOLEAN]

WithdrawalInit ==
    /\ opStatus = [w \in Withdrawals |-> "none"]
    /\ opHash = [w \in Withdrawals |-> FALSE]
    /\ opLate = [w \in Withdrawals |-> FALSE]
    /\ claimedBy = [w \in Withdrawals |-> Nobody]
    /\ task = [w \in Withdrawals |-> "none"]
    /\ snapshot = [w \in Withdrawals |-> 0]
    /\ call = [c \in Callers |-> "idle"]
    /\ target = [c \in Callers |-> Nobody]
    /\ sawExpired = [c \in Callers |-> FALSE]
    /\ foreign = [w \in Withdrawals |-> FALSE]

-----------------------------------------------------------------------------
(* Helpers.                                                                *)
NonceUsed(w) == chain[w] = "success" \/ foreign[w]
Resolved(w) == chain[w] \in {"success", "reverted"}
\* Mutant: the receipt's own word for its status.
ReceiptStatusRaw(w) == chain[w]

ReceiptStatus(w) == IF chain[w] = "success" THEN "confirmed" ELSE "reverted"

SetStatus(w, s) == opStatus' = [opStatus EXCEPT ![w] = s]

\* A request goes to its next await, or begins.
Proceed(c, pc) == /\ call' = [call EXCEPT ![c] = pc]
                  /\ UNCHANGED <<target, sawExpired, claimedBy>>

Ask(c, w, pc) == /\ call[c] = "idle"
                 /\ call' = [call EXCEPT ![c] = pc]
                 /\ target' = [target EXCEPT ![c] = w]
                 /\ UNCHANGED sawExpired

\* The request is answered, or throws; a submit gives its claim back.
Answer(c) ==
    /\ call' = [call EXCEPT ![c] = "idle"]
    /\ target' = [target EXCEPT ![c] = Nobody]
    /\ sawExpired' = [sawExpired EXCEPT ![c] = FALSE]
    /\ claimedBy' = [w \in Withdrawals |->
                       IF claimedBy[w] = c THEN Nobody ELSE claimedBy[w]]

\* What the lookups leave alone.
lookupUnchanged == <<opLate, task, snapshot, foreign, chain, expired, sends, wpc,
                     writeQueue, fundsVars, processVars>>
latchVars == <<latchTx, unknown>>

-----------------------------------------------------------------------------
(* prepare: the record of a new operation.                                 *)
Prepare(w) ==
    /\ Serving
    /\ opStatus[w] = "none"
    /\ SetStatus(w, "prepared")
    /\ UNCHANGED <<opHash, opLate, claimedBy, task, snapshot, call, target, sawExpired,
                   foreign, sharedVars>>

\* Mutant: a second submit of the same operation is let in.
SubmitStartUnclaimed(c, w) ==
    /\ Serving /\ c \in Clients
    /\ opStatus[w] = "prepared" /\ ~opLate[w]
    /\ Ask(c, w, "checking")
    /\ claimedBy' = [claimedBy EXCEPT ![w] = c]
    /\ UNCHANGED <<opStatus, opHash, latchVars, lookupUnchanged>>

(* submit. *)
SubmitStart(c, w) ==
    /\ Serving /\ c \in Clients
    /\ claimedBy[w] = Nobody
    /\ opStatus[w] = "prepared" /\ ~opLate[w]
    /\ Ask(c, w, "checking")
    /\ claimedBy' = [claimedBy EXCEPT ![w] = c]
    /\ UNCHANGED <<opStatus, opHash, latchVars, lookupUnchanged>>

\* The signature is not the signer's, or a read throws.
SubmitRefused(c) ==
    /\ call[c] = "checking"
    /\ Answer(c)
    /\ UNCHANGED <<opStatus, opHash, latchVars, lookupUnchanged>>

\* The record says submitting before the background task exists.
SubmitClaims(c) ==
    LET w == target[c] IN
    /\ call[c] = "checking"
    /\ ~NonceUsed(w)
    /\ SetStatus(w, "submitting")
    /\ task' = [task EXCEPT ![w] = "scheduled"]
    /\ Answer(c)
    /\ UNCHANGED <<opHash, opLate, snapshot, foreign, sharedVars>>

\* The nonce is used, by a transaction of this executor or by another.
Attributed(c) ==
    LET w == target[c] IN
    /\ Drained
    /\ chain[w] = "success"
    /\ SetStatus(w, "submitted")
    /\ opHash' = [opHash EXCEPT ![w] = TRUE]
    /\ unknown' = unknown \ {LostBroadcast}
    /\ Proceed(c, "receipt")
    /\ UNCHANGED <<latchTx, lookupUnchanged>>

MarkUnknown(c) ==
    LET w == target[c] IN
    /\ SetStatus(w, "unknown")
    /\ Arm(w, FALSE)
    /\ Answer(c)
    /\ UNCHANGED <<opHash, lookupUnchanged>>

SubmitAttributed(c) == call[c] = "checking" /\ Attributed(c)

SubmitUnattributed(c) ==
    /\ call[c] = "checking"
    /\ foreign[target[c]] /\ chain[target[c]] # "success"
    /\ MarkUnknown(c)

-----------------------------------------------------------------------------
(* get, and recover(), which looks every unfinished record up in turn.     *)

\* submit, get and recover() close out a prepared operation whose time is up.
ExpirePrepared(w) ==
    /\ opStatus[w] = "prepared" /\ opLate[w]
    /\ SetStatus(w, "expired")

Expires(w) ==
    /\ Serving
    /\ ExpirePrepared(w)
    /\ UNCHANGED <<opHash, claimedBy, call, target, sawExpired, latchVars, lookupUnchanged>>

Submitted(w) == opStatus[w] = "submitted" /\ opHash[w]

\* activeSubmissions shields a submission whose background task is alive.
Unsettled(w) == \/ opStatus[w] = "submitting" /\ task[w] = "none"
                \/ opStatus[w] = "unknown"

LookUp(c, w) == \/ Submitted(w) /\ Ask(c, w, "receipt")
                \/ Unsettled(w) /\ Ask(c, w, "latest")

Get(c, w) ==
    /\ Serving /\ c \in Clients
    /\ LookUp(c, w)
    /\ UNCHANGED <<opStatus, opHash, claimedBy, latchVars, lookupUnchanged>>

(* reconcileSubmitted. *)
ReceiptFound(c) ==
    LET w == target[c] IN
    /\ Drained
    /\ call[c] = "receipt"
    /\ Resolved(w)
    /\ SetStatus(w, ReceiptStatus(w))
    /\ Clear(w, TRUE, FALSE)
    /\ Answer(c)
    /\ UNCHANGED <<opHash, lookupUnchanged>>

\* The node answers that there is no receipt; the answer is on its way.
ReceiptMissing(c) ==
    /\ call[c] = "receipt"
    /\ ~Resolved(target[c])
    /\ Proceed(c, "noReceipt")
    /\ UNCHANGED <<opStatus, opHash, latchVars, lookupUnchanged>>

\* The null answer is applied, to whatever the operation has become.
NoReceiptApplied(c) ==
    /\ call[c] = "noReceipt"
    /\ Arm(target[c], TRUE)
    /\ Answer(c)
    /\ UNCHANGED <<opStatus, opHash, lookupUnchanged>>

(* reconcileUnknown: the latest block first, then the nonce. *)
ReadLatest(c) ==
    /\ call[c] = "latest"
    /\ call' = [call EXCEPT ![c] = "used"]
    /\ sawExpired' = [sawExpired EXCEPT ![c] = expired[target[c]]]
    /\ UNCHANGED <<target, claimedBy, opStatus, opHash, latchVars, lookupUnchanged>>

ReadNonce(c) ==
    /\ call[c] = "used"
    /\ Proceed(c, IF NonceUsed(target[c]) THEN "find" ELSE "unused")
    /\ UNCHANGED <<opStatus, opHash, latchVars, lookupUnchanged>>

UseFound(c) == call[c] = "find" /\ Attributed(c)

UseNotFound(c) ==
    /\ call[c] = "find"
    /\ chain[target[c]] # "success"
    /\ MarkUnknown(c)

\* Mutant: an unused nonce alone closes the operation out.
UnusedTaken(c) ==
    LET w == target[c] IN
    /\ Drained
    /\ call[c] = "unused"
    /\ SetStatus(w, "expired")
    /\ Clear(w, FALSE, TRUE)
    /\ Answer(c)
    /\ UNCHANGED <<opHash, lookupUnchanged>>

\* Unused at a block past the expiry: it cannot be used any more.
UnusedExpired(c) ==
    LET w == target[c] IN
    /\ Drained
    /\ call[c] = "unused" /\ sawExpired[c]
    /\ SetStatus(w, "expired")
    /\ Clear(w, FALSE, TRUE)
    /\ Answer(c)
    /\ UNCHANGED <<opHash, lookupUnchanged>>

\* Unused, and not past the expiry or not at a canonical block.
UnusedUnknown(c) == call[c] = "unused" /\ MarkUnknown(c)

\* A read throws: a client gets an error.
LookUpFails(c) ==
    /\ c \in Clients
    /\ call[c] \notin {"idle", "checking"}
    /\ Answer(c)
    /\ UNCHANGED <<opStatus, opHash, latchVars, lookupUnchanged>>

LookUpStep(c) ==
    \/ ReceiptFound(c) \/ ReceiptMissing(c) \/ NoReceiptApplied(c)
    \/ ReadLatest(c) \/ ReadNonce(c) \/ UseFound(c) \/ UseNotFound(c)
    \/ UnusedExpired(c) \/ UnusedUnknown(c)

-----------------------------------------------------------------------------
(* executeSubmission, under the account key and in the executor's queue.   *)
requestVars == <<claimedBy, call, target, sawExpired>>
taskUnchanged == <<opLate, requestVars, foreign>>

TaskStart(w) ==
    /\ task[w] = "scheduled"
    /\ AllFree({Debited[w]})
    /\ LockAccounts({Debited[w]}, w)
    /\ task' = [task EXCEPT ![w] = "queued"]
    /\ Enqueue(w)
    /\ UNCHANGED <<opStatus, opHash, snapshot, taskUnchanged, cash, processVars>>

\* Mutant: the balances are read before the executor's queue is reached.
PolicySnapshotQueued(w) ==
    /\ task[w] = "queued"
    /\ task' = [task EXCEPT ![w] = "snapped"]
    /\ snapshot' = [snapshot EXCEPT ![w] = cash[Debited[w]]]
    /\ UNCHANGED <<opStatus, opHash, taskUnchanged, sharedVars>>

\* assertFinalPolicy reads the balances at the latest block ...
PolicySnapshot(w) ==
    /\ task[w] = "queued" /\ wpc[w] = "writing"
    /\ task' = [task EXCEPT ![w] = "snapped"]
    /\ snapshot' = [snapshot EXCEPT ![w] = cash[Debited[w]]]
    /\ UNCHANGED <<opStatus, opHash, taskUnchanged, sharedVars>>

\* ... then sums what RFQs reserve, and the simulations pass.
PolicyHolds(w, reservedCash) ==
    /\ task[w] = "snapped"
    /\ snapshot[w] >= reservedCash + Amount[w]
    /\ task' = [task EXCEPT ![w] = "cleared"]
    /\ UNCHANGED <<opStatus, opHash, snapshot, taskUnchanged, sharedVars>>

\* The policy or a simulation fails, or a read throws.
PreflightThrows(w) ==
    /\ task[w] \in {"queued", "snapped"}
    /\ PreflightFails(w)
    /\ UNCHANGED <<withdrawalVars, fundsVars, processVars>>

\* The submitter's own steps; it writes once the preflight has passed.
TaskSubmitterStep(w) ==
    /\ CallStep(w)
    /\ wpc[w] = "writing" => task[w] = "cleared"
    /\ UNCHANGED <<withdrawalVars, fundsVars, processVars>>

TaskHashPersisted(w) ==
    /\ HashAcknowledged(w)
    /\ SetStatus(w, "submitted")
    /\ opHash' = [opHash EXCEPT ![w] = TRUE]
    /\ UNCHANGED <<task, snapshot, taskUnchanged, fundsVars, processVars>>

\* The account key and the place in activeSubmissions are given back.
TaskEnds(w) ==
    /\ task' = [task EXCEPT ![w] = "none"]
    /\ snapshot' = [snapshot EXCEPT ![w] = 0]
    /\ wpc' = [wpc EXCEPT ![w] = "idle"]
    /\ UnlockAccounts(w)
    /\ UNCHANGED <<opHash, taskUnchanged, chain, expired, sends, writeQueue, cash,
                   processVars>>

TaskSettles(w) ==
    /\ wpc[w] = "mined"
    /\ SetStatus(w, ReceiptStatus(w))
    /\ Clear(w, TRUE, FALSE)
    /\ TaskEnds(w)

\* The catch of executeSubmission: with a hash the operation is followed by
\* it; a rejected preflight is final; anything else is ambiguous, a refusal
\* by the executor's guard and a failed read of the preflight included.
TaskCaught(w) ==
    /\ wpc[w] \in {"lost", "refused", "unsent"}
    /\ \/ opHash[w] /\ SetStatus(w, "submitted") /\ Arm(w, TRUE)
       \/ ~opHash[w] /\ wpc[w] = "unsent" /\ SetStatus(w, "rejected") /\ UNCHANGED latchVars
       \/ ~opHash[w] /\ SetStatus(w, "unknown") /\ Arm(w, FALSE)
    /\ TaskEnds(w)

-----------------------------------------------------------------------------
(* Crash and recovery.                                                     *)
WithdrawalForgets ==
    /\ claimedBy' = [w \in Withdrawals |-> Nobody]
    /\ task' = [w \in Withdrawals |-> "none"]
    /\ snapshot' = [w \in Withdrawals |-> 0]
    /\ call' = [c \in Callers |-> "idle"]
    /\ target' = [c \in Callers |-> Nobody]
    /\ sawExpired' = [c \in Callers |-> FALSE]
    /\ UNCHANGED <<opStatus, opHash, opLate, foreign>>

WithdrawalCrash == ProcessStops /\ WithdrawalForgets

UnfinishedOps == {w \in Withdrawals : opStatus[w] \in {"prepared", "submitting",
                                                       "submitted", "unknown"}}

WithdrawalRestart == ProcessStarts(UnfinishedOps) /\ UNCHANGED withdrawalVars

RecoverTurnOf(w) == call[Recoverer] = "idle" /\ TakeTurn(w)

RecoverPrepared(w) ==
    /\ RecoverTurnOf(w)
    /\ \/ ExpirePrepared(w)
       \/ opStatus[w] = "prepared" /\ ~opLate[w] /\ UNCHANGED opStatus
    /\ UNCHANGED <<opHash, opLate, requestVars, task, snapshot, foreign, submitterVars,
                   fundsVars>>

RecoverSent(w) ==
    /\ RecoverTurnOf(w)
    /\ LookUp(Recoverer, w)
    /\ UNCHANGED <<opStatus, opHash, opLate, claimedBy, task, snapshot, foreign,
                   submitterVars, fundsVars>>

WithdrawalServe ==
    /\ StartServing
    /\ call[Recoverer] = "idle"
    /\ UNCHANGED withdrawalVars

-----------------------------------------------------------------------------
(* The clock and the chain.                                                *)
OpTimePasses(w) ==
    /\ opStatus[w] # "none" /\ ~opLate[w]
    /\ opLate' = [opLate EXCEPT ![w] = TRUE]
    /\ UNCHANGED <<opStatus, opHash, requestVars, task, snapshot, foreign, sharedVars>>

OpActionExpires(w) ==
    /\ opStatus[w] # "none"
    /\ Expire(w)
    /\ UNCHANGED <<withdrawalVars, fundsVars, processVars>>

WithdrawalSucceeds(w) ==
    /\ ~foreign[w]
    /\ MineAs(w, "success")
    /\ Debit(Debited[w], Amount[w])
    /\ UNCHANGED <<withdrawalVars, lockedBy, processVars>>

WithdrawalReverts(w) ==
    /\ MineAs(w, "reverted")
    /\ UNCHANGED <<withdrawalVars, fundsVars, processVars>>

WithdrawalPropagates(w) ==
    /\ NodeAccepts(w)
    /\ UNCHANGED <<withdrawalVars, fundsVars, processVars>>

\* The signed action reaches the chain without this process: another holder
\* of the executor key sends it, or a stranger's transaction uses its nonce.
ForeignUse(w) ==
    /\ opStatus[w] # "none"
    /\ ~NonceUsed(w) /\ ~expired[w]
    /\ \/ /\ <<w, "executor">> \in UsedElsewhere
          /\ chain[w] = "none"
          /\ chain' = [chain EXCEPT ![w] = "success"]
          /\ Debit(Debited[w], Amount[w])
          /\ UNCHANGED foreign
       \/ /\ <<w, "stranger">> \in UsedElsewhere
          /\ foreign' = [foreign EXCEPT ![w] = TRUE]
          /\ UNCHANGED <<chain, cash>>
    /\ UNCHANGED <<opStatus, opHash, opLate, requestVars, task, snapshot, expired, sends,
                   wpc, writeQueue, latchVars, lockedBy, processVars>>

-----------------------------------------------------------------------------
TaskStep(w, reservedCash) ==
    \/ TaskStart(w) \/ PolicySnapshot(w) \/ PolicyHolds(w, reservedCash)
    \/ PreflightThrows(w) \/ TaskSubmitterStep(w) \/ TaskHashPersisted(w)
    \/ TaskSettles(w) \/ TaskCaught(w)

SubmitStep(c) ==
    \/ \E w \in Withdrawals : SubmitStart(c, w)
    \/ SubmitRefused(c) \/ SubmitClaims(c) \/ SubmitAttributed(c) \/ SubmitUnattributed(c)

CallerStep(c) ==
    \/ SubmitStep(c) \/ LookUpStep(c) \/ LookUpFails(c)
    \/ \E w \in Withdrawals : Get(c, w)

OperationStep(w) ==
    \/ Prepare(w) \/ Expires(w) \/ RecoverPrepared(w) \/ RecoverSent(w)
    \/ OpTimePasses(w) \/ OpActionExpires(w)
    \/ WithdrawalSucceeds(w) \/ WithdrawalReverts(w) \/ WithdrawalPropagates(w)
    \/ ForeignUse(w)

\* Nothing is left to do once every operation has its outcome.
OpsQuiescent == (\A w \in Withdrawals : opStatus[w] \in OpTerminal) /\ UNCHANGED wvars

WithdrawalNext ==
    \/ \E c \in Callers : CallerStep(c)
    \/ \E w \in Withdrawals : OperationStep(w) \/ TaskStep(w, 0)
    \/ WithdrawalCrash \/ WithdrawalRestart \/ WithdrawalServe
    \/ OpsQuiescent

WithdrawalEngineInit == ProcessInit /\ WithdrawalInit

WithdrawalSpec == WithdrawalEngineInit /\ [][WithdrawalNext]_wvars

-----------------------------------------------------------------------------
(* Properties. *)

WithdrawalEngineTypeOK == ProcessTypeOK /\ WithdrawalTypeOK

\* Whatever lookups, retries and crashes overlap with the background task, a
\* recorded outcome is the chain's: a rejected operation was never sent, and
\* an expired one was not sent or can no longer succeed.
OpOutcomeIsTrue ==
    \A w \in Withdrawals :
        /\ opStatus[w] = "confirmed" => chain[w] = "success"
        /\ opStatus[w] = "reverted" => chain[w] = "reverted"
        /\ opStatus[w] = "rejected" => sends[w] = 0
        /\ opStatus[w] = "expired" => sends[w] = 0 \/ (expired[w] /\ chain[w] # "success")

\* The cash a final policy check has read is still there when its withdrawal
\* is mined: no other withdrawal from the account is in the air, because the
\* check runs inside the executor's queue (assertFinalPolicy).  A copy of the
\* service that shares the executor key is outside that queue.
NeverOverdrawn ==
    (\A w \in Withdrawals : chain[w] = "success" => sends[w] > 0)
        => \A a \in Accounts : cash[a] >= 0

\* A call that waits for an account key gets it: the task that holds the key
\* while it queues for the executor gives it back.
KeysComeBack ==
    \A w \in Withdrawals : (task[w] = "scheduled") ~> (task[w] = "none")

\* Once an operation is terminal, and neither its task nor a request about it
\* runs any more, it latches nothing: "Release that exact latch only after the
\* terminal result is durably stored.  Otherwise the shared executor remains
\* paused even though the background receipt waiter confirmed the transaction"
\* (withdrawal.ts).
Untouched(w) == /\ task[w] = "none"
                /\ \A c \in Callers : target[c] # w

NoLatchOutlivesItsOperation ==
    \A w \in Withdrawals :
        opStatus[w] \in OpTerminal /\ Untouched(w) => w \notin unknown /\ latchTx # w
=============================================================================
