------------------------------ MODULE WebRepay ------------------------------
(***************************************************************************)
(* One page of the web application and its cash repayments                 *)
(* (useRepayCash.ts, gated by FundsModal.tsx): a deposit the wallet sends, *)
(* behind a record in the browser's storage that is written before the     *)
(* wallet is asked and cleared when the outcome and the balances are       *)
(* known.                                                                  *)
(*                                                                         *)
(* The wallet is external: it may send a deposit and never say so.         *)
(* Storage may refuse a write at any time, and the page may be reloaded    *)
(* between any two steps.                                                  *)
(***************************************************************************)
EXTENDS Integers

CONSTANTS
    Intents,         \* repayments, by intent id
    Clicks,          \* calls of repay that may be in progress together
    CheckButton,     \* the call of the "Check status" button
    NoRecord,
    MaxPageLoads     \* bound

ASSUME WebRepayAssumption ==
    /\ Clicks # {} /\ CheckButton \notin Clicks
    /\ MaxPageLoads \in Nat

VARIABLES
    record,          \* what the storage holds
    memoryPending,   \* what the hook holds
    repayPhase,
    repayCall,       \* each call's step and record
    deposits,        \* the wallet and the chain
    refreshed,       \* history: repayments whose balances have been read since
    overlapped,      \* history: two calls passed the check before either stored its record
    pageLoads

webRepayVars ==
    <<record, memoryPending, repayPhase, repayCall, deposits, refreshed, overlapped, pageLoads>>

-----------------------------------------------------------------------------
RepayRecord(i, hash, confirmed) == [intent |-> i, hash |-> hash, confirmed |-> confirmed]
Records == [intent : Intents, hash : BOOLEAN, confirmed : BOOLEAN]

ASSUME NoRecordAssumption == NoRecord \notin Records

NoCall == [at |-> "idle"]

\* The hook's own record comes before the stored one.
Pending == IF memoryPending # NoRecord THEN memoryPending ELSE record

EffectivePhase == IF Pending # NoRecord /\ repayPhase = "idle" THEN "unknown" ELSE repayPhase

\* Writes to storage, which may refuse them.
StoresRecord(r) == record' \in {r, record}

CallEnds(c, phase) ==
    /\ repayCall' = [repayCall EXCEPT ![c] = NoCall]
    /\ repayPhase' = phase

WebRepayInit ==
    /\ record = NoRecord /\ memoryPending = NoRecord
    /\ repayPhase = "idle"
    /\ repayCall = [c \in Clicks \cup {CheckButton} |-> NoCall]
    /\ deposits = [i \in Intents |-> "none"]
    /\ refreshed = {} /\ overlapped = FALSE
    /\ pageLoads = 0

-----------------------------------------------------------------------------
(* The wallet and the chain.                                               *)

WalletSends(i) ==
    /\ deposits[i] = "prompted"
    /\ \E outcome \in {"sent", "refused"} : deposits' = [deposits EXCEPT ![i] = outcome]
    /\ UNCHANGED <<record, memoryPending, repayPhase, repayCall, refreshed, overlapped, pageLoads>>

DepositMined(i) ==
    /\ deposits[i] = "sent"
    /\ \E outcome \in {"mined", "reverted"} : deposits' = [deposits EXCEPT ![i] = outcome]
    /\ UNCHANGED <<record, memoryPending, repayPhase, repayCall, refreshed, overlapped, pageLoads>>

-----------------------------------------------------------------------------
(* repay.                                                                  *)

BeforeRecord == {"allowance", "approving"}

\* The button, and the check that nothing is pending.  The phase stays until
\* the allowance is known, and with it the button.
StartRepay(c) ==
    /\ c # CheckButton /\ repayCall[c] = NoCall
    /\ EffectivePhase \in {"idle", "error"}
    /\ Pending = NoRecord
    /\ repayCall' = [repayCall EXCEPT ![c] = [at |-> "allowance"]]
    /\ overlapped' = (overlapped \/ \E d \in Clicks : repayCall[d].at \in BeforeRecord)
    /\ UNCHANGED <<record, memoryPending, repayPhase, deposits, refreshed, pageLoads>>

Approve(c) ==
    /\ repayCall[c].at = "allowance"
    /\ repayCall' = [repayCall EXCEPT ![c] = [at |-> "approving"]]
    /\ repayPhase' = "approving"
    /\ UNCHANGED <<record, memoryPending, deposits, refreshed, overlapped, pageLoads>>

\* Switching chain, the allowance or the approval fails, or the record cannot
\* be stored.
RepayFails(c) ==
    /\ repayCall[c].at \in BeforeRecord
    /\ CallEnds(c, "error")
    /\ UNCHANGED <<record, memoryPending, deposits, refreshed, overlapped, pageLoads>>

\* The record of a fresh intent is stored, and the wallet is asked.
AskWallet(c, i) ==
    /\ repayCall[c].at \in BeforeRecord
    /\ deposits[i] = "none"
    /\ record' = RepayRecord(i, FALSE, FALSE)
    /\ memoryPending' = record'
    /\ repayPhase' = "repaying"
    /\ deposits' = [deposits EXCEPT ![i] = "prompted"]
    /\ repayCall' = [repayCall EXCEPT ![c] = [at |-> "wallet", op |-> record']]
    /\ UNCHANGED <<refreshed, overlapped, pageLoads>>

HashReturned(c) ==
    /\ repayCall[c].at = "wallet"
    /\ deposits[repayCall[c].op.intent] \in {"sent", "mined", "reverted"}
    /\ LET op == [repayCall[c].op EXCEPT !.hash = TRUE]
       IN  /\ memoryPending' = op
           /\ StoresRecord(op)
           /\ repayCall' = [repayCall EXCEPT ![c] = [at |-> "receipt", op |-> op]]
    /\ repayPhase' = "confirming"
    /\ UNCHANGED <<deposits, refreshed, overlapped, pageLoads>>

\* isUserRejected: the record goes, if storage lets it.
RejectionReturned(c) ==
    /\ repayCall[c].at = "wallet"
    /\ deposits[repayCall[c].op.intent] = "refused"
    /\ \/ /\ record' = NoRecord /\ memoryPending' = NoRecord
          /\ CallEnds(c, "error")
       \/ CallEnds(c, "unknown") /\ UNCHANGED <<record, memoryPending>>
    /\ UNCHANGED <<deposits, refreshed, overlapped, pageLoads>>

\* Mutant: an error of the wallet counts as a refusal.
HashLostForgotten(c) ==
    /\ repayCall[c].at = "wallet"
    /\ record' = NoRecord /\ memoryPending' = NoRecord
    /\ CallEnds(c, "error")
    /\ UNCHANGED <<deposits, refreshed, overlapped, pageLoads>>

\* Any other error of the wallet says nothing of the deposit.
HashLost(c) ==
    /\ repayCall[c].at = "wallet"
    /\ CallEnds(c, "unknown")
    /\ UNCHANGED <<record, memoryPending, deposits, refreshed, overlapped, pageLoads>>

-----------------------------------------------------------------------------
(* confirmRepayment, for repay and for the button.                         *)

StartCheck ==
    /\ repayCall[CheckButton] = NoCall
    /\ EffectivePhase = "unknown"
    /\ Pending # NoRecord /\ Pending.hash
    /\ repayCall' = [repayCall EXCEPT ![CheckButton] =
            [at |-> IF Pending.confirmed THEN "refresh" ELSE "receipt", op |-> Pending]]
    /\ repayPhase' = "confirming"
    /\ UNCHANGED <<record, memoryPending, deposits, refreshed, overlapped, pageLoads>>

Receipt(c) ==
    /\ repayCall[c].at = "receipt"
    /\ LET op == repayCall[c].op
       IN  \/ /\ CallEnds(c, "unknown")                       \* no receipt
              /\ UNCHANGED <<record, memoryPending>>
           \/ /\ deposits[op.intent] = "reverted"
              /\ StoresRecord(NoRecord) /\ memoryPending' = NoRecord
              /\ CallEnds(c, "error")
           \/ /\ deposits[op.intent] = "mined"
              /\ memoryPending' = [op EXCEPT !.confirmed = TRUE]
              /\ StoresRecord(memoryPending')
              /\ repayCall' = [repayCall EXCEPT ![c] = [at |-> "refresh", op |-> memoryPending']]
              /\ UNCHANGED repayPhase
    /\ UNCHANGED <<deposits, refreshed, overlapped, pageLoads>>

\* The balances are read; then the record goes, if storage lets it.
RefreshBalances(c) ==
    /\ repayCall[c].at = "refresh"
    /\ LET op == repayCall[c].op
       IN  \/ /\ memoryPending' = op /\ StoresRecord(op)   \* they cannot be read
              /\ CallEnds(c, "unknown")
              /\ UNCHANGED refreshed
           \/ /\ refreshed' = refreshed \cup {op.intent}
              /\ \/ /\ record' = NoRecord /\ memoryPending' = NoRecord
                    /\ CallEnds(c, "done")
                 \/ /\ memoryPending' = op /\ UNCHANGED record
                    /\ CallEnds(c, "unknown")
    /\ UNCHANGED <<deposits, overlapped, pageLoads>>

-----------------------------------------------------------------------------
\* acknowledgeNoTransaction: the user has looked at the wallet, where nothing
\* is waiting, and at the account's debt.
Acknowledge ==
    /\ EffectivePhase = "unknown"
    /\ Pending # NoRecord /\ ~Pending.hash
    /\ deposits[Pending.intent] \notin {"prompted", "sent"}
    /\ \/ /\ record' = NoRecord /\ memoryPending' = NoRecord
          /\ repayPhase' = "idle"
          /\ refreshed' = refreshed \cup {Pending.intent}
       \/ repayPhase' = "unknown" /\ UNCHANGED <<record, memoryPending, refreshed>>
    /\ UNCHANGED <<repayCall, deposits, overlapped, pageLoads>>

\* reset, of the dialog
ResetRepay ==
    /\ EffectivePhase \in {"done", "error"}
    /\ repayPhase' = IF Pending # NoRecord THEN "unknown" ELSE "idle"
    /\ UNCHANGED <<record, memoryPending, repayCall, deposits, refreshed, overlapped, pageLoads>>

LoadPage ==
    /\ pageLoads < MaxPageLoads
    /\ pageLoads' = pageLoads + 1
    /\ memoryPending' = NoRecord
    /\ repayPhase' = "idle"
    /\ repayCall' = [c \in Clicks \cup {CheckButton} |-> NoCall]
    /\ UNCHANGED <<record, deposits, refreshed, overlapped>>

RepayCallStep(c) ==
    \/ StartRepay(c) \/ Approve(c) \/ RepayFails(c) \/ \E i \in Intents : AskWallet(c, i)
    \/ HashReturned(c) \/ RejectionReturned(c) \/ HashLost(c)
    \/ Receipt(c) \/ RefreshBalances(c)

WebRepayNext ==
    \/ \E i \in Intents : WalletSends(i) \/ DepositMined(i)
    \/ \E c \in Clicks \cup {CheckButton} : RepayCallStep(c)
    \/ StartCheck \/ Acknowledge \/ ResetRepay \/ LoadPage

WebRepaySpec == WebRepayInit /\ [][WebRepayNext]_webRepayVars

-----------------------------------------------------------------------------
\* The records, the phase and the deposits have their types.
WebRepayTypeOK ==
    /\ record \in Records \cup {NoRecord} /\ memoryPending \in Records \cup {NoRecord}
    /\ repayPhase \in {"idle", "approving", "repaying", "confirming", "done", "unknown", "error"}
    /\ \A c \in DOMAIN repayCall :
          repayCall[c].at \in {"wallet", "receipt", "refresh"} => repayCall[c].op \in Records
    /\ deposits \in [Intents -> {"none", "prompted", "sent", "refused", "mined", "reverted"}]
    /\ refreshed \subseteq Intents

\* "Persisted both hashed and hashless repayment ambiguity to prevent duplicate
\* deposits" (2026-08-19-build-funds-withdrawal-flow.md:74): no deposit is asked
\* of the wallet while another waits there or on the chain, or has been mined
\* and the balances have not been read since.
NoSecondDeposit ==
    \A i, j \in Intents :
        LET Open(k) == \/ deposits[k] \in {"prompted", "sent"}
                       \/ deposits[k] = "mined" /\ k \notin refreshed
        IN  Open(i) /\ Open(j) => i = j

\* A debt is not repaid twice, whatever the wallet forgets to say, storage
\* refuses or a reload interrupts (repay, confirmRepayment,
\* acknowledgeNoTransaction), unless the button is pressed again before the
\* first call has stored its record, which nothing in the page prevents.
RepaidOnceUnlessOverlapped == ~overlapped => NoSecondDeposit
=============================================================================
