---------------------------- MODULE TxSubmitter ----------------------------
(***************************************************************************)
(* ViemTxSubmitter of chain.ts: the one executor wallet that broadcasts    *)
(* Matching.verifyAndMatch for RFQs and withdrawals.  Calls queue on       *)
(* writeTail; a call's work runs only when nothing is unresolved; whatever *)
(* is not known to be settled leaves a latch that refuses later calls.     *)
(*                                                                         *)
(* An operation (an RFQ or a withdrawal) has one pair of signed actions,   *)
(* so its transaction is named by the operation.  The chain, the mempool   *)
(* and the RPC node are not under src/: they are modelled by what the      *)
(* submitter can observe of them.                                          *)
(***************************************************************************)
EXTENDS Integers, Sequences

CONSTANTS Ops,            \* operations that may be broadcast
          NoTx,           \* unresolvedTxHash === null
          LostBroadcast,  \* UNKNOWN_BROADCAST_OPERATION
          ManyLost        \* "executor-multiple-unresolved-transactions"

ASSUME SubmitterAssumption ==
    /\ NoTx \notin Ops
    /\ LostBroadcast \notin Ops
    /\ ManyLost \notin Ops
    /\ LostBroadcast # ManyLost

VARIABLES
    chain,       \* chain[o]: how far the transaction of o has come outside
    expired,     \* expired[o]: chain time has passed the expiry of o's actions
    sends,       \* history: how often o was given to the node
    wpc,         \* wpc[o]: how far o's submitVerifyAndMatch call has come
    writeQueue,  \* the calls chained on writeTail; the head is running
    latchTx,     \* unresolvedTxHash, by the operation the hash belongs to
    unknown      \* unknownOperationIds

submitterVars == <<chain, expired, sends, wpc, writeQueue, latchTx, unknown>>

ChainState == {"none",      \* never given to a node
               "handed",    \* on its way to a node, or lost on the way
               "pending",   \* in a mempool
               "success", "reverted"}

CallState == {"idle",
              "queued",     \* chained on writeTail
              "writing",    \* the guard passed: preflight, then writeContract
              "sending",    \* eth_sendRawTransaction is in flight
              "hash",       \* writeContract returned, onSubmitted runs
              "waiting",    \* waitForTransactionReceipt
              "mined",      \* returned a receipt
              "unsent",     \* threw in the preflight
              "refused",    \* threw Unresolved...Error from the guard
              "lost"}       \* threw after writeContract was called

Returned == {"mined", "unsent", "refused", "lost"}
InSection == {"writing", "sending", "hash", "waiting"}

SubmitterTypeOK ==
    /\ chain \in [Ops -> ChainState]
    /\ expired \in [Ops -> BOOLEAN]
    /\ sends \in [Ops -> Nat]
    /\ wpc \in [Ops -> CallState]
    /\ writeQueue \in Seq(Ops)
    /\ latchTx \in Ops \cup {NoTx}
    /\ unknown \subseteq Ops \cup {LostBroadcast, ManyLost}

SubmitterInit ==
    /\ chain = [o \in Ops |-> "none"]
    /\ expired = [o \in Ops |-> FALSE]
    /\ sends = [o \in Ops |-> 0]
    /\ wpc = [o \in Ops |-> "idle"]
    /\ writeQueue = <<>>
    /\ latchTx = NoTx
    /\ unknown = {}

-----------------------------------------------------------------------------
(* The call.                                                               *)

Latched == latchTx # NoTx \/ unknown # {}

Running(o) == writeQueue # <<>> /\ Head(writeQueue) = o

\* run.then(() => undefined, () => undefined): the next call may start.
Return(o, state) == /\ wpc' = [wpc EXCEPT ![o] = state]
                    /\ writeQueue' = Tail(writeQueue)

\* A call that has returned is handled in the same turn of the event loop:
\* no other RPC answer is processed between its return and its handler.
Drained == \A o \in Ops : wpc[o] \notin Returned

\* serializeWrite: chain the guarded work after the tail.
Enqueue(o) ==
    /\ wpc[o] = "idle"
    /\ wpc' = [wpc EXCEPT ![o] = "queued"]
    /\ writeQueue' = Append(writeQueue, o)
    /\ UNCHANGED <<chain, expired, sends, latchTx, unknown>>

\* reconcileUnresolvedTransaction always throws while a hash is latched, a
\* mined one included; so does the check of unknownOperationIds.
Refuse(o) ==
    /\ Running(o) /\ wpc[o] = "queued"
    /\ Latched
    /\ Return(o, "refused")
    /\ UNCHANGED <<chain, expired, sends, latchTx, unknown>>

Begin(o) ==
    /\ Running(o) /\ wpc[o] = "queued"
    /\ ~Latched
    /\ wpc' = [wpc EXCEPT ![o] = "writing"]
    /\ UNCHANGED <<chain, expired, sends, writeQueue, latchTx, unknown>>

\* beforeSimulation or simulateContract throws: nothing was broadcast.
PreflightFails(o) ==
    /\ wpc[o] = "writing"
    /\ Return(o, "unsent")
    /\ UNCHANGED <<chain, expired, sends, latchTx, unknown>>

\* writeContract signs and gives the raw transaction to the node.
HandOver(o) ==
    /\ wpc[o] = "writing"
    /\ wpc' = [wpc EXCEPT ![o] = "sending"]
    /\ chain' = [chain EXCEPT ![o] = IF @ = "none" THEN "handed" ELSE @]
    /\ sends' = [sends EXCEPT ![o] = @ + 1]
    /\ UNCHANGED <<expired, writeQueue, latchTx, unknown>>

HashReturns(o) ==
    /\ wpc[o] = "sending"
    /\ chain[o] # "handed"
    /\ wpc' = [wpc EXCEPT ![o] = "hash"]
    /\ UNCHANGED <<chain, expired, sends, writeQueue, latchTx, unknown>>

\* writeContract throws, before or after the node got the transaction.
SendFails(o) ==
    /\ wpc[o] \in {"writing", "sending"}
    /\ unknown' = unknown \cup {LostBroadcast}
    /\ Return(o, "lost")
    /\ UNCHANGED <<chain, expired, sends, latchTx>>

\* onSubmitted made the hash durable.
HashAcknowledged(o) ==
    /\ wpc[o] = "hash"
    /\ wpc' = [wpc EXCEPT ![o] = "waiting"]
    /\ UNCHANGED <<chain, expired, sends, writeQueue, latchTx, unknown>>

\* The catch after the broadcast: onSubmitted, the receipt wait or the check
\* that its block is canonical threw.
LatchHash(o) ==
    /\ wpc[o] \in {"hash", "waiting"}
    /\ latchTx' = o
    /\ Return(o, "lost")
    /\ UNCHANGED <<chain, expired, sends, unknown>>

ReceiptArrives(o) ==
    /\ wpc[o] = "waiting"
    /\ chain[o] \in {"success", "reverted"}
    /\ Return(o, "mined")
    /\ UNCHANGED <<chain, expired, sends, latchTx, unknown>>

ReceiptLost(o) == wpc[o] = "waiting" /\ LatchHash(o)

\* Steps of the call that touch nothing but the submitter.
CallStep(o) ==
    \/ Refuse(o) \/ Begin(o) \/ HandOver(o) \/ HashReturns(o) \/ SendFails(o)
    \/ ReceiptArrives(o) \/ ReceiptLost(o)

-----------------------------------------------------------------------------
(* Latches, set and cleared by the engines.                                *)

\* pauseForUnknownOperation, then adoptUnresolvedTransaction when a hash is
\* known: a second hash does not replace the first.
UnknownAfterArm(o, hash) ==
    unknown \cup {o}
            \cup (IF hash /\ latchTx \notin {NoTx, o} THEN {ManyLost} ELSE {})
LatchAfterArm(o, hash) == IF hash /\ latchTx = NoTx THEN o ELSE latchTx

Arm(o, hash) == /\ unknown' = UnknownAfterArm(o, hash)
                /\ latchTx' = LatchAfterArm(o, hash)

\* clearUnknownOperation and clearUnresolvedTransaction for the one hash.
Clear(o, hash, lostToo) ==
    /\ unknown' = unknown \ ({o} \cup (IF lostToo THEN {LostBroadcast} ELSE {}))
    /\ latchTx' = IF hash /\ latchTx = o THEN NoTx ELSE latchTx

-----------------------------------------------------------------------------
(* Outside the process.                                                    *)

NodeAccepts(o) ==
    /\ chain[o] = "handed"
    /\ chain' = [chain EXCEPT ![o] = "pending"]
    /\ UNCHANGED <<expired, sends, wpc, writeQueue, latchTx, unknown>>

\* ActionVerifier rejects an action after its expiry; any call may revert.
MineAs(o, outcome) ==
    /\ chain[o] = "pending"
    /\ outcome = "success" => ~expired[o]
    /\ chain' = [chain EXCEPT ![o] = outcome]
    /\ UNCHANGED <<expired, sends, wpc, writeQueue, latchTx, unknown>>

Expire(o) ==
    /\ ~expired[o]
    /\ expired' = [expired EXCEPT ![o] = TRUE]
    /\ UNCHANGED <<chain, sends, wpc, writeQueue, latchTx, unknown>>

\* The process stops: calls, queue and latches live in memory only.
SubmitterCrash ==
    /\ wpc' = [o \in Ops |-> "idle"]
    /\ writeQueue' = <<>>
    /\ latchTx' = NoTx
    /\ unknown' = {}
    /\ UNCHANGED <<chain, expired, sends>>

-----------------------------------------------------------------------------
\* A transaction that can still change the chain.
Live(o) == chain[o] \in {"handed", "pending"} /\ ~expired[o]

\* The executor never has two transactions in the air: every other call waits
\* on writeTail or is refused by a latch until the first one is settled
\* (chain.ts: "Reusing the wallet can create nonce ambiguity").
OneLiveTx == \A o, p \in Ops : (Live(o) /\ Live(p)) => o = p

\* One pair of signed actions is broadcast at most once: nothing resubmits.
AtMostOneBroadcast == \A o \in Ops : sends[o] <= 1
=============================================================================
