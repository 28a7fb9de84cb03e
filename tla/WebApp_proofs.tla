--------------------------- MODULE WebApp_proofs ---------------------------
(***************************************************************************)
(* The web application, for any number of withdrawals, repayments, sales,  *)
(* wallets, subaccounts, calls and reloads: a withdrawal that may still be *)
(* executed is in storage, a debt is repaid once, what is signed is what   *)
(* was shown, and the subaccount traded with belongs to the wallet.        *)
(*                                                                         *)
(* The four parts share no variable, and each has an invariant of its own. *)
(* RepayIInv, SaleIInv and WithdrawIInv say what the call that is under    *)
(* way knows of storage and of the form, and that nothing else is under    *)
(* way which could change it.  AccountsIInv has no such lock: it says of   *)
(* every answer under way whose it is.                                     *)
(*                                                                         *)
(* The theorems assume nothing of the constants beyond the modules'        *)
(* assumptions.  What the code does not exclude, and what breaks the three *)
(* properties, is recorded as it happens by a history variable: two calls  *)
(* that pass the check before either stored its record (overlapped), a     *)
(* user who acts while a call is under way (crossed), and an answer that   *)
(* is applied when it no longer holds (overtaken).  Each property is       *)
(* claimed until then.                                                     *)
(***************************************************************************)
EXTENDS WebWithdraw, WebRepay, WebAccounts, WebSale, WellFoundedInduction, TLAPS

-----------------------------------------------------------------------------
(* Repayments. *)

\* The clicks on Repay, and the button that checks a repayment.
RepayCalls == Clicks \cup {CheckButton}

\* What a call remembers across its requests; only some steps hold a record.
CallValues == [at : {"idle", "allowance", "approving"}]
              \cup [at : {"wallet", "receipt", "refresh"}, op : Records]

\* The variables and their values.
RepayTypes ==
    /\ record \in Records \cup {NoRecord} /\ memoryPending \in Records \cup {NoRecord}
    /\ repayPhase \in {"idle", "approving", "repaying", "confirming", "done", "unknown", "error"}
    /\ repayCall \in [RepayCalls -> CallValues]
    /\ deposits \in [Intents -> {"none", "prompted", "sent", "refused", "mined", "reverted"}]
    /\ refreshed \subseteq Intents

\* The deposit of k may still be taken, or was and the balances are not known.
OpenDeposit(k) == \/ deposits[k] \in {"prompted", "sent"}
                  \/ deposits[k] = "mined" /\ k \notin refreshed

\* A record that says confirmed is right.
TruthfulRecord(r) == r # NoRecord /\ r.confirmed => deposits[r.intent] = "mined"

\* What c's call still knows of storage, memory, the page and the deposits
\* when its request is answered.
RepayCallOK(c) ==
    /\ repayCall[c].at \in {"allowance", "approving"} => Pending = NoRecord
    /\ repayCall[c].at \in {"allowance", "approving", "wallet"} => c # CheckButton
    /\ repayCall[c].at = "wallet" => /\ repayPhase = "repaying"
                                     /\ memoryPending = repayCall[c].op /\ record = repayCall[c].op
    /\ repayCall[c].at \in {"receipt", "refresh"} =>
         /\ repayPhase = "confirming"
         /\ record # NoRecord /\ record.intent = repayCall[c].op.intent
         /\ TruthfulRecord(repayCall[c].op)
    /\ repayCall[c].at = "refresh" => repayCall[c].op.confirmed

\* As long as calls have not overlapped: one call at a time; a deposit that may
\* still be taken, or was and the balances are not known, is the one in storage,
\* and no record says confirmed of a deposit that was not mined.
RepayIInv ==
    /\ RepayTypes
    /\ \A c, d \in RepayCalls : repayCall[c].at # "idle" /\ repayCall[d].at # "idle" => c = d
    /\ \A c \in RepayCalls : RepayCallOK(c)
    /\ \A k \in Intents : OpenDeposit(k) => record # NoRecord /\ record.intent = k
    /\ memoryPending # NoRecord => record # NoRecord /\ record.intent = memoryPending.intent
    /\ TruthfulRecord(record) /\ TruthfulRecord(memoryPending)

\* The types, spelled out.
LEMMA RepayTyped ==
    ASSUME RepayIInv, NEW c \in RepayCalls
    PROVE  /\ repayCall[c].at \in {"idle", "allowance", "approving", "wallet", "receipt", "refresh"}
           /\ repayCall[c].at \in {"wallet", "receipt", "refresh"} =>
                /\ repayCall[c].op \in Records /\ repayCall[c].op.intent \in Intents
                /\ repayCall[c].op # NoRecord
           /\ Pending \in Records \cup {NoRecord}
           /\ (Pending = NoRecord <=> record = NoRecord)
           /\ RepayCallOK(c)
<1>1. repayCall[c] \in CallValues
  BY DEF RepayIInv, RepayTypes
<1>2. /\ repayCall[c].at \in {"idle", "allowance", "approving", "wallet", "receipt", "refresh"}
      /\ repayCall[c].at \in {"wallet", "receipt", "refresh"} => repayCall[c].op \in Records
  BY <1>1 DEF CallValues
<1>3. \A r \in Records : r.intent \in Intents /\ r # NoRecord
  BY NoRecordAssumption DEF Records
<1> QED
  BY <1>2, <1>3 DEF RepayIInv, RepayTypes, Pending

\* A step of one call, when no other is under way, or of none.
LEMMA RepayStep ==
    ASSUME RepayIInv, RepayTypes', NEW c \in RepayCalls,
           \A d \in RepayCalls : d # c => repayCall'[d] = repayCall[d] /\ repayCall[d].at = "idle",
           RepayCallOK(c)',
           \A k \in Intents : OpenDeposit(k)' => record' # NoRecord /\ record'.intent = k,
           memoryPending' # NoRecord => record' # NoRecord /\ record'.intent = memoryPending'.intent,
           TruthfulRecord(record)', TruthfulRecord(memoryPending)'
    PROVE  RepayIInv'
<1>1. \A d \in RepayCalls : d # c => repayCall'[d].at = "idle"
  OBVIOUS
<1>2. \A d \in RepayCalls : RepayCallOK(d)'
  BY <1>1 DEF RepayCallOK
<1> QED
  BY <1>1, <1>2 DEF RepayIInv

\* The other calls, while c is in progress.
LEMMA OtherRepayCalls ==
    ASSUME RepayIInv, NEW c \in RepayCalls, repayCall[c].at # "idle",
           NEW v, repayCall' = [repayCall EXCEPT ![c] = v]
    PROVE  /\ repayCall'[c] = v
           /\ \A d \in RepayCalls : d # c => repayCall'[d] = repayCall[d] /\ repayCall[d].at = "idle"
           /\ v \in CallValues => repayCall' \in [RepayCalls -> CallValues]
<1>1. repayCall \in [RepayCalls -> CallValues]
  BY DEF RepayIInv, RepayTypes
<1>2. \A d \in RepayCalls : d # c => repayCall[d].at = "idle"
  BY RepayTyped DEF RepayIInv
<1> QED
  BY <1>1, <1>2

\* What a call is given to hold.
LEMMA CallValuesHold ==
    /\ NoCall \in CallValues /\ NoCall.at = "idle"
    /\ \A at \in {"idle", "allowance", "approving"} : [at |-> at] \in CallValues
    /\ \A at \in {"wallet", "receipt", "refresh"}, op \in Records :
           [at |-> at, op |-> op] \in CallValues
BY DEF CallValues, NoCall

\* A click begins when nothing is pending, and no other is on its way to a record.
LEMMA StartRepayKeeps ==
    ASSUME RepayIInv, NEW c \in RepayCalls, StartRepay(c), ~overlapped'
    PROVE  RepayIInv'
<1>0. RepayTypes /\ c \in Clicks /\ RepayCallOK(c)
      /\ TruthfulRecord(record) /\ TruthfulRecord(memoryPending)
  BY DEF RepayIInv, StartRepay, RepayCalls
<1>1. ASSUME NEW d \in RepayCalls, d # c PROVE repayCall[d].at = "idle"
  <2>1. d \in Clicks => repayCall[d].at \notin {"allowance", "approving"}
    BY DEF StartRepay, BeforeRecord
  <2>2. d \notin Clicks => repayCall[d].at \notin {"allowance", "approving"}
    BY RepayTyped DEF RepayCallOK, RepayCalls
  <2>3. repayPhase \notin {"repaying", "confirming"} /\ record = NoRecord
    BY RepayTyped DEF StartRepay, EffectivePhase
  <2> QED
    BY <2>1, <2>2, <2>3, RepayTyped DEF RepayCallOK
<1>2. /\ repayCall'[c] = [at |-> "allowance"]
      /\ \A d \in RepayCalls : d # c => repayCall'[d] = repayCall[d]
      /\ repayCall' \in [RepayCalls -> CallValues]
      /\ UNCHANGED <<record, memoryPending, repayPhase, deposits, refreshed>>
  BY <1>0, CallValuesHold DEF StartRepay, RepayTypes
<1>3. Pending = NoRecord /\ record = NoRecord /\ memoryPending = NoRecord
  BY RepayTyped DEF StartRepay, Pending
<1>4. RepayTypes'
  BY <1>0, <1>2 DEF RepayTypes
<1>5. RepayCallOK(c)'
  BY <1>0, <1>2, <1>3, WebRepayAssumption DEF RepayCallOK, Pending
<1> QED
  BY <1>0, <1>1, <1>2, <1>3, <1>4, <1>5, RepayStep DEF RepayIInv, OpenDeposit, TruthfulRecord

\* Up to the wallet.
LEMMA BeforeWalletKeeps ==
    ASSUME RepayIInv, NEW c \in RepayCalls, Approve(c) \/ RepayFails(c)
    PROVE  RepayIInv'
<1>0. RepayTypes /\ RepayCallOK(c) /\ TruthfulRecord(record) /\ TruthfulRecord(memoryPending)
  BY DEF RepayIInv
<1>1. /\ repayCall[c].at \in {"allowance", "approving"}
      /\ UNCHANGED <<record, memoryPending, deposits, refreshed>>
      /\ repayPhase' \in {"approving", "error"}
      /\ \E v \in {NoCall, [at |-> "approving"]} : repayCall' = [repayCall EXCEPT ![c] = v]
  BY DEF Approve, RepayFails, CallEnds, BeforeRecord
<1>2. PICK v \in {NoCall, [at |-> "approving"]} : repayCall' = [repayCall EXCEPT ![c] = v]
  BY <1>1
<1>3. v \in CallValues /\ v.at \in {"idle", "approving"}
  BY <1>2, CallValuesHold
<1>4. /\ repayCall'[c] = v
      /\ \A d \in RepayCalls : d # c => repayCall'[d] = repayCall[d] /\ repayCall[d].at = "idle"
      /\ repayCall' \in [RepayCalls -> CallValues]
  BY <1>1, <1>2, <1>3, OtherRepayCalls
<1>5. RepayTypes'
  BY <1>0, <1>1, <1>4 DEF RepayTypes
<1>6. RepayCallOK(c)'
  BY <1>0, <1>1, <1>3, <1>4 DEF RepayCallOK, Pending
<1> QED
  BY <1>0, <1>1, <1>4, <1>5, <1>6, RepayStep DEF RepayIInv, OpenDeposit, TruthfulRecord

\* The record is stored before the wallet is asked.
LEMMA AskWalletKeeps ==
    ASSUME RepayIInv, NEW c \in RepayCalls, NEW i \in Intents, AskWallet(c, i)
    PROVE  RepayIInv'
<1>0. RepayTypes /\ RepayCallOK(c)
  BY DEF RepayIInv
<1>1. PICK r \in Records : r = RepayRecord(i, FALSE, FALSE)
  BY DEF Records, RepayRecord
<1>2. /\ repayCall[c].at \in {"allowance", "approving"}
      /\ record' = r /\ memoryPending' = r /\ repayPhase' = "repaying"
      /\ deposits' = [deposits EXCEPT ![i] = "prompted"] /\ refreshed' = refreshed
      /\ repayCall' = [repayCall EXCEPT ![c] = [at |-> "wallet", op |-> r]]
  BY <1>1 DEF AskWallet, BeforeRecord
<1>3. r.intent = i /\ ~r.confirmed /\ r # NoRecord
  BY <1>1, NoRecordAssumption DEF RepayRecord
<1>4. /\ repayCall'[c] = [at |-> "wallet", op |-> r]
      /\ \A d \in RepayCalls : d # c => repayCall'[d] = repayCall[d] /\ repayCall[d].at = "idle"
      /\ repayCall' \in [RepayCalls -> CallValues]
  BY <1>2, CallValuesHold, OtherRepayCalls
<1>5. record = NoRecord
  BY <1>0, <1>2, RepayTyped DEF RepayCallOK
<1>6. \A k \in Intents : OpenDeposit(k)' => k = i
  BY <1>0, <1>2, <1>5 DEF RepayIInv, RepayTypes, OpenDeposit
<1>7. RepayTypes'
  BY <1>0, <1>2, <1>4 DEF RepayTypes
<1>8. RepayCallOK(c)'
  BY <1>0, <1>2, <1>4 DEF RepayCallOK
<1> QED
  BY <1>2, <1>3, <1>4, <1>6, <1>7, <1>8, RepayStep DEF TruthfulRecord

\* The wallet answers, or does not.
LEMMA WalletAnswersKeeps ==
    ASSUME RepayIInv, NEW c \in RepayCalls,
           HashReturned(c) \/ RejectionReturned(c) \/ HashLost(c)
    PROVE  RepayIInv'
<1>0. /\ RepayTypes /\ RepayCallOK(c) /\ TruthfulRecord(record) /\ repayCall[c].at = "wallet"
      /\ TruthfulRecord(memoryPending)
  BY DEF RepayIInv, HashReturned, RejectionReturned, HashLost
<1>1. PICK op \in Records : op = repayCall[c].op
  BY <1>0, RepayTyped
<1>2. op.intent \in Intents /\ op # NoRecord /\ record = op /\ memoryPending = op
  BY <1>0, <1>1, RepayTyped DEF RepayCallOK
<1>3. UNCHANGED <<deposits, refreshed>>
  BY DEF HashReturned, RejectionReturned, HashLost
<1>4. CASE HashReturned(c)
  <2>1. PICK r \in Records : r = [op EXCEPT !.hash = TRUE]
    BY DEF Records
  <2>2. /\ memoryPending' = r /\ record' \in {r, record} /\ repayPhase' = "confirming"
        /\ repayCall' = [repayCall EXCEPT ![c] = [at |-> "receipt", op |-> r]]
    BY <1>1, <1>4, <2>1 DEF HashReturned, StoresRecord
  <2>3. r.intent = op.intent /\ r.confirmed = op.confirmed /\ r # NoRecord
    BY <2>1, NoRecordAssumption DEF Records
  <2>4. /\ repayCall'[c] = [at |-> "receipt", op |-> r]
        /\ \A d \in RepayCalls : d # c => repayCall'[d] = repayCall[d] /\ repayCall[d].at = "idle"
        /\ repayCall' \in [RepayCalls -> CallValues]
    BY <1>0, <2>2, CallValuesHold, OtherRepayCalls
  <2>5. RepayTypes'
    BY <1>0, <1>3, <2>2, <2>4 DEF RepayTypes
  <2>6. /\ TruthfulRecord(record)' /\ TruthfulRecord(memoryPending)' /\ TruthfulRecord(r)'
        /\ record' # NoRecord /\ record'.intent = op.intent
    BY <1>0, <1>2, <1>3, <2>2, <2>3 DEF TruthfulRecord
  <2>7. RepayCallOK(c)'
    BY <2>2, <2>3, <2>4, <2>6 DEF RepayCallOK, TruthfulRecord
  <2> QED
    BY <1>2, <1>3, <2>2, <2>3, <2>4, <2>5, <2>6, <2>7, RepayStep DEF RepayIInv, OpenDeposit
<1>5. CASE RejectionReturned(c) \/ HashLost(c)
  <2>1. /\ repayCall' = [repayCall EXCEPT ![c] = NoCall] /\ repayPhase' \in {"error", "unknown"}
        /\ \/ UNCHANGED <<record, memoryPending>>
           \/ /\ record' = NoRecord /\ memoryPending' = NoRecord
              /\ deposits[op.intent] = "refused"
    BY <1>1, <1>5 DEF RejectionReturned, HashLost, CallEnds
  <2>2. /\ repayCall'[c] = NoCall
        /\ \A d \in RepayCalls : d # c => repayCall'[d] = repayCall[d] /\ repayCall[d].at = "idle"
        /\ repayCall' \in [RepayCalls -> CallValues]
    BY <1>0, <2>1, CallValuesHold, OtherRepayCalls
  <2>3. RepayTypes'
    BY <1>0, <1>3, <2>1, <2>2 DEF RepayTypes
  <2>4. RepayCallOK(c)'
    BY <2>2, CallValuesHold DEF RepayCallOK
  <2>5. \A k \in Intents : OpenDeposit(k)' => OpenDeposit(k) /\ record' = record
    BY <1>2, <1>3, <2>1 DEF RepayIInv, OpenDeposit
  <2> QED
    BY <1>0, <1>3, <2>1, <2>2, <2>3, <2>4, <2>5, RepayStep DEF RepayIInv, TruthfulRecord
<1> QED
  BY <1>4, <1>5

\* confirmRepayment: the receipt, and the balances after it.
LEMMA ConfirmKeeps ==
    ASSUME RepayIInv, NEW c \in RepayCalls, Receipt(c) \/ RefreshBalances(c)
    PROVE  RepayIInv'
<1>0. /\ RepayTypes /\ RepayCallOK(c) /\ TruthfulRecord(record) /\ TruthfulRecord(memoryPending)
      /\ repayCall[c].at \in {"receipt", "refresh"}
  BY DEF RepayIInv, Receipt, RefreshBalances
<1>1. PICK op \in Records : op = repayCall[c].op
  BY <1>0, RepayTyped
<1>2. /\ op.intent \in Intents /\ op # NoRecord /\ TruthfulRecord(op)
      /\ record # NoRecord /\ record.intent = op.intent
      /\ repayCall[c].at = "refresh" => op.confirmed
  BY <1>0, <1>1, RepayTyped DEF RepayCallOK
<1>3. \A k \in Intents : OpenDeposit(k) => k = op.intent
  BY <1>2 DEF RepayIInv
<1>4. PICK r \in Records : r = [op EXCEPT !.confirmed = TRUE]
  BY DEF Records
<1>5. r.intent = op.intent /\ r # NoRecord
  BY <1>4, NoRecordAssumption DEF Records
<1>6. CASE Receipt(c) /\ deposits[op.intent] = "mined"
           /\ repayCall' = [repayCall EXCEPT ![c] = [at |-> "refresh", op |-> r]]
           /\ memoryPending' = r /\ record' \in {r, record}
           /\ UNCHANGED <<repayPhase, deposits, refreshed>>
  <2>1. /\ repayCall'[c] = [at |-> "refresh", op |-> r]
        /\ \A d \in RepayCalls : d # c => repayCall'[d] = repayCall[d] /\ repayCall[d].at = "idle"
        /\ repayCall' \in [RepayCalls -> CallValues]
    BY <1>0, <1>6, CallValuesHold, OtherRepayCalls
  <2>2. RepayTypes'
    BY <1>0, <1>6, <2>1 DEF RepayTypes
  <2>3. /\ TruthfulRecord(record)' /\ TruthfulRecord(memoryPending)' /\ TruthfulRecord(r)'
        /\ record' # NoRecord /\ record'.intent = op.intent
    BY <1>0, <1>2, <1>5, <1>6 DEF TruthfulRecord
  <2>4. RepayCallOK(c)'
    BY <1>0, <1>4, <1>5, <1>6, <2>1, <2>3 DEF RepayCallOK, TruthfulRecord, Records
  <2> QED
    BY <1>3, <1>5, <1>6, <2>1, <2>2, <2>3, <2>4, RepayStep DEF OpenDeposit
<1>7. CASE /\ repayCall' = [repayCall EXCEPT ![c] = NoCall]
           /\ repayPhase' \in {"error", "unknown", "done"} /\ deposits' = deposits
           /\ \/ UNCHANGED <<record, memoryPending, refreshed>>
              \/ /\ deposits[op.intent] = "reverted" /\ record' \in {NoRecord, record}
                 /\ memoryPending' = NoRecord /\ refreshed' = refreshed
              \/ memoryPending' = op /\ record' \in {op, record} /\ refreshed' = refreshed
              \/ /\ repayCall[c].at = "refresh" /\ refreshed' = refreshed \cup {op.intent}
                 /\ \/ record' = NoRecord /\ memoryPending' = NoRecord
                    \/ memoryPending' = op /\ record' = record
  <2>1. /\ repayCall'[c] = NoCall
        /\ \A d \in RepayCalls : d # c => repayCall'[d] = repayCall[d] /\ repayCall[d].at = "idle"
        /\ repayCall' \in [RepayCalls -> CallValues]
    BY <1>0, <1>7, CallValuesHold, OtherRepayCalls
  <2>2. RepayTypes'
    BY <1>0, <1>2, <1>7, <2>1 DEF RepayTypes
  <2>3. RepayCallOK(c)'
    BY <2>1, CallValuesHold DEF RepayCallOK
  <2>4. TruthfulRecord(record)' /\ TruthfulRecord(memoryPending)'
    BY <1>0, <1>2, <1>7 DEF TruthfulRecord
  <2>5. memoryPending' # NoRecord => record' # NoRecord /\ record'.intent = memoryPending'.intent
    BY <1>2, <1>7 DEF RepayIInv
  <2>6. ASSUME NEW k \in Intents, OpenDeposit(k)' PROVE record' # NoRecord /\ record'.intent = k
    <3>1. OpenDeposit(k) /\ k = op.intent
      BY <1>3, <1>7, <2>6 DEF OpenDeposit
    <3>2. repayCall[c].at = "refresh" => k \notin refreshed'
      BY <1>2, <1>7, <2>6, <3>1 DEF OpenDeposit, TruthfulRecord
    <3> QED
      BY <1>2, <1>7, <3>1, <3>2 DEF OpenDeposit
  <2> QED
    BY <2>1, <2>2, <2>3, <2>4, <2>5, <2>6, RepayStep
<1>8. CASE Receipt(c)
  BY <1>1, <1>4, <1>6, <1>7, <1>8 DEF Receipt, CallEnds, StoresRecord
<1>9. CASE RefreshBalances(c)
  BY <1>1, <1>7, <1>9 DEF RefreshBalances, CallEnds, StoresRecord
<1> QED
  BY <1>8, <1>9

\* The wallet and the chain.
LEMMA DepositKeeps ==
    ASSUME RepayIInv, NEW i \in Intents, WalletSends(i) \/ DepositMined(i)
    PROVE  RepayIInv'
<1>1. /\ UNCHANGED <<record, memoryPending, repayPhase, repayCall, refreshed>>
      /\ \/ /\ deposits[i] = "prompted"
            /\ \E o \in {"sent", "refused"} : deposits' = [deposits EXCEPT ![i] = o]
         \/ /\ deposits[i] = "sent"
            /\ \E o \in {"mined", "reverted"} : deposits' = [deposits EXCEPT ![i] = o]
  BY DEF WalletSends, DepositMined
<1>2. RepayTypes'
  BY <1>1 DEF RepayIInv, RepayTypes
<1>3. \A k \in Intents : /\ OpenDeposit(k)' => OpenDeposit(k)
                         /\ deposits[k] = "mined" => deposits'[k] = "mined"
  BY <1>1 DEF RepayIInv, RepayTypes, OpenDeposit
<1>4. \A r \in Records : r.intent \in Intents
  BY DEF Records
<1>5. \A r \in Records \cup {NoRecord} : TruthfulRecord(r) => TruthfulRecord(r)'
  BY <1>3, <1>4 DEF TruthfulRecord
<1>6. TruthfulRecord(record)' /\ TruthfulRecord(memoryPending)'
  BY <1>1, <1>5 DEF RepayIInv, RepayTypes
<1>7. ASSUME NEW c \in RepayCalls PROVE RepayCallOK(c)'
  <2>1. PICK op : op = repayCall[c].op
    OBVIOUS
  <2>2. repayCall[c].at \in {"receipt", "refresh"} => op \in Records
    BY <2>1, RepayTyped
  <2>3. RepayCallOK(c)
    BY RepayTyped
  <2> QED
    BY <1>1, <1>5, <2>1, <2>2, <2>3 DEF RepayCallOK, Pending, TruthfulRecord
<1> QED
  BY <1>1, <1>2, <1>3, <1>6, <1>7 DEF RepayIInv

\* The button: nothing is in progress while the outcome is unknown.
LEMMA ButtonsKeep ==
    ASSUME RepayIInv, StartCheck \/ Acknowledge \/ ResetRepay
    PROVE  RepayIInv'
<1>0. RepayTypes /\ TruthfulRecord(record) /\ TruthfulRecord(memoryPending)
      /\ CheckButton \in RepayCalls
  BY DEF RepayIInv, RepayCalls
<1>1. CASE StartCheck
  <2>1. PICK op \in Records : op = Pending
    BY <1>0, <1>1, RepayTyped DEF StartCheck
  <2>2. op # NoRecord /\ op.intent \in Intents /\ record # NoRecord /\ record.intent = op.intent
        /\ TruthfulRecord(op)
    BY <1>0, <2>1, NoRecordAssumption DEF RepayIInv, Records, Pending
  <2>3. \A d \in RepayCalls : repayCall[d].at = "idle"
    <3> SUFFICES ASSUME NEW d \in RepayCalls PROVE repayCall[d].at = "idle"
      OBVIOUS
    <3>1. repayPhase \notin {"confirming", "repaying"} /\ Pending # NoRecord
      BY <1>1 DEF StartCheck, EffectivePhase
    <3> QED
      BY <3>1, RepayTyped DEF RepayCallOK
  <2>4. PICK at \in {"refresh", "receipt"} : at = IF op.confirmed THEN "refresh" ELSE "receipt"
    OBVIOUS
  <2>5. /\ repayCall' = [repayCall EXCEPT ![CheckButton] = [at |-> at, op |-> op]]
        /\ repayPhase' = "confirming"
        /\ UNCHANGED <<record, memoryPending, deposits, refreshed>>
    BY <1>1, <2>1, <2>4 DEF StartCheck
  <2>6. [at |-> at, op |-> op] \in CallValues
    BY CallValuesHold
  <2>7. /\ repayCall'[CheckButton] = [at |-> at, op |-> op]
        /\ \A d \in RepayCalls : d # CheckButton => repayCall'[d] = repayCall[d]
        /\ repayCall' \in [RepayCalls -> CallValues]
    BY <1>0, <2>5, <2>6 DEF RepayTypes
  <2>8. RepayTypes'
    BY <1>0, <2>5, <2>7 DEF RepayTypes
  <2>9. RepayCallOK(CheckButton)'
    BY <2>2, <2>4, <2>5, <2>7 DEF RepayCallOK, TruthfulRecord
  <2> QED
    BY <1>0, <2>3, <2>5, <2>7, <2>8, <2>9, RepayStep DEF RepayIInv, OpenDeposit, TruthfulRecord
<1>2. CASE Acknowledge
  <2>1. /\ repayPhase \notin {"confirming", "repaying"} /\ Pending # NoRecord
        /\ UNCHANGED <<repayCall, deposits>> /\ repayPhase' \in {"idle", "unknown"}
    BY <1>2 DEF Acknowledge, EffectivePhase
  <2>2. PICK op \in Records : op = Pending
    BY <1>0, <2>1, RepayTyped
  <2>3. op.intent \in Intents /\ record # NoRecord /\ record.intent = op.intent
    BY <1>0, <2>1, <2>2 DEF RepayIInv, Records, Pending
  <2>4. \/ UNCHANGED <<record, memoryPending, refreshed>>
        \/ /\ record' = NoRecord /\ memoryPending' = NoRecord
           /\ refreshed' = refreshed \cup {op.intent}
           /\ deposits[op.intent] \notin {"prompted", "sent"}
    BY <1>2, <2>2 DEF Acknowledge
  <2>5. \A d \in RepayCalls : repayCall[d].at = "idle"
    BY <2>1, RepayTyped DEF RepayCallOK
  <2>6. RepayTypes'
    BY <1>0, <2>1, <2>3, <2>4 DEF RepayTypes
  <2>7. \A d \in RepayCalls : RepayCallOK(d)'
    BY <2>1, <2>5 DEF RepayCallOK
  <2>8. ASSUME NEW k \in Intents, OpenDeposit(k)' PROVE record' # NoRecord /\ record'.intent = k
    BY <2>1, <2>3, <2>4, <2>8 DEF RepayIInv, OpenDeposit
  <2> QED
    BY <1>0, <2>1, <2>4, <2>5, <2>6, <2>7, <2>8 DEF RepayIInv, TruthfulRecord
<1>3. CASE ResetRepay
  <2>1. /\ repayPhase \notin {"confirming", "repaying"} /\ repayPhase' \in {"idle", "unknown"}
        /\ UNCHANGED <<record, memoryPending, repayCall, deposits, refreshed>>
    BY <1>3 DEF ResetRepay, EffectivePhase
  <2>2. RepayTypes'
    BY <1>0, <2>1 DEF RepayTypes
  <2>3. ASSUME NEW d \in RepayCalls PROVE RepayCallOK(d)'
    BY <2>1, RepayTyped DEF RepayCallOK, Pending
  <2> QED
    BY <1>0, <2>1, <2>2, <2>3 DEF RepayIInv, OpenDeposit, TruthfulRecord
<1> QED
  BY <1>1, <1>2, <1>3

\* The page is loaded anew: what protects a deposit is what the storage holds.
LEMMA LoadPageKeeps ==
    ASSUME RepayIInv, LoadPage \/ UNCHANGED webRepayVars
    PROVE  RepayIInv'
<1>1. CASE LoadPage
  <2>1. /\ memoryPending' = NoRecord /\ repayPhase' = "idle"
        /\ repayCall' = [c \in RepayCalls |-> NoCall]
        /\ UNCHANGED <<record, deposits, refreshed>>
    BY <1>1 DEF LoadPage, RepayCalls
  <2>2. RepayTypes' /\ \A c \in RepayCalls : repayCall'[c].at = "idle"
    BY <2>1, CallValuesHold DEF RepayIInv, RepayTypes
  <2>3. \A c \in RepayCalls : RepayCallOK(c)'
    BY <2>2 DEF RepayCallOK
  <2> QED
    BY <2>1, <2>2, <2>3 DEF RepayIInv, OpenDeposit, TruthfulRecord
<1>2. CASE UNCHANGED webRepayVars
  BY <1>2 DEF webRepayVars, RepayIInv, RepayTypes, RepayCallOK, Pending, OpenDeposit, TruthfulRecord
<1> QED
  BY <1>1, <1>2

\* A first load of the page, with no record.
LEMMA RepayInitial == WebRepayInit => RepayIInv
<1> SUFFICES ASSUME WebRepayInit PROVE RepayIInv
  OBVIOUS
<1>1. repayCall = [c \in RepayCalls |-> NoCall]
  BY DEF WebRepayInit, RepayCalls
<1>2. RepayTypes /\ \A c \in RepayCalls : repayCall[c].at = "idle"
  BY <1>1, CallValuesHold DEF WebRepayInit, RepayTypes
<1>3. \A c \in RepayCalls : RepayCallOK(c)
  BY <1>2 DEF RepayCallOK
<1> QED
  BY <1>2, <1>3 DEF WebRepayInit, RepayIInv, OpenDeposit, TruthfulRecord

\* A debt is repaid by one deposit at a time, whatever the wallet forgets to
\* say, storage refuses or a reload interrupts, for any number of repayments,
\* clicks and reloads, until two calls have passed the check before either
\* stored its record.
THEOREM DebtsAreRepaidOnce ==
    WebRepaySpec => []RepaidOnceUnlessOverlapped
<1> DEFINE Inv == ~overlapped => RepayIInv
<1>1. WebRepayInit => Inv
  BY RepayInitial
<1>2. Inv /\ [WebRepayNext]_webRepayVars => Inv'
  <2> SUFFICES ASSUME Inv, [WebRepayNext]_webRepayVars, ~overlapped' PROVE RepayIInv'
    OBVIOUS
  <2>1. ~overlapped
    BY DEF WebRepayNext, RepayCallStep, webRepayVars, WalletSends, DepositMined, StartRepay, Approve,
       RepayFails, AskWallet, HashReturned, RejectionReturned, HashLost, Receipt, RefreshBalances,
       StartCheck, Acknowledge, ResetRepay, LoadPage
  <2> QED
    BY <2>1, StartRepayKeeps, BeforeWalletKeeps, AskWalletKeeps, WalletAnswersKeeps, ConfirmKeeps,
       DepositKeeps, ButtonsKeep, LoadPageKeeps
       DEF WebRepayNext, RepayCallStep, RepayCalls
<1>3. Inv => RepaidOnceUnlessOverlapped
  BY DEF RepayIInv, RepaidOnceUnlessOverlapped, NoSecondDeposit, OpenDeposit
<1> QED
  BY <1>1, <1>2, <1>3, PTL DEF WebRepaySpec

-----------------------------------------------------------------------------
(* Sales. *)

\* Where the form is while a request or an acceptance is under way: its order
\* and its sale are those the form has kept.
SaleCallOK ==
    /\ \A c \in Requests :
         LET r == requests[c] IN
         /\ r.at \in {"idle", "health", "deposit", "create", "poll"}
         /\ r.at # "idle" => r.order \in SaleOrders /\ form.frozen = r.order /\ ~form.done
         /\ r.at = "health" => form.setup = "idle" /\ ~form.busy /\ form.phase = "idle"
         /\ r.at = "deposit" => form.setup = "deposit" /\ ~form.busy /\ form.phase = "idle"
         /\ r.at = "create" => form.setup = "idle" /\ form.busy /\ form.phase = "requesting"
         /\ r.at = "poll" =>
              /\ form.setup = "idle" /\ form.busy /\ form.phase = "auction"
              /\ r.sale \in Sales /\ auctions[r.sale].state # "none"
              /\ auctions[r.sale].order = r.order
    /\ \A a \in Acceptances :
         LET r == acceptances[a] IN
         /\ r.at \in {"idle", "signing", "executing"}
         /\ r.at # "idle" =>
              /\ r.sale \in Sales /\ auctions[r.sale].state # "none"
              /\ r.shown \in SaleOrders /\ auctions[r.sale].order = r.shown
              /\ form.setup = "idle" /\ form.busy /\ ~form.done
              /\ form.prepared = r.sale /\ form.frozen = r.shown
         /\ r.at = "signing" =>
              \/ form.phase = "signing" /\ form.timer \in {NoSale, r.sale}
              \/ form.phase = "expired" /\ r.sale \in overdue /\ form.timer = NoSale
         /\ r.at = "executing" => form.phase = "executing"

\* Nothing is under way.
AllIdle == /\ \A c \in Requests : requests[c].at = "idle"
           /\ \A a \in Acceptances : acceptances[a].at = "idle"

\* Of all the calls at most one is under way.
OneSaleCall ==
    /\ \A c, d \in Requests : requests[c].at # "idle" /\ requests[d].at # "idle" => c = d
    /\ \A a, b \in Acceptances : acceptances[a].at # "idle" /\ acceptances[b].at # "idle" => a = b
    /\ \A c \in Requests, a \in Acceptances : requests[c].at = "idle" \/ acceptances[a].at = "idle"
    /\ AllIdle => /\ form.setup = "idle" /\ ~form.busy
                  /\ form.phase \in {"idle", "quoted", "done", "expired", "error"}

\* A quote on the form is of the frozen order, for the sale prepared.
SaleFormOK ==
    /\ form.phase = "quoted" =>
         /\ form.frozen \in SaleOrders /\ form.prepared \in Sales
         /\ auctions[form.prepared].state # "none" /\ auctions[form.prepared].order = form.frozen
         /\ form.timer \in {NoSale, form.prepared} /\ ~form.done
    /\ form.done => AllIdle /\ form.phase = "done"
    /\ form.phase = "done" => form.done

\* What was traded is what was auctioned.
TradesOK == \A t \in trades : auctions[t.sale].order = t.order /\ auctions[t.sale].state # "none"

\* The form, and what a request and an acceptance remember.
Forms == [chosen : SaleOrders, frozen : SaleOrders \cup {NoOrder}, setup : {"idle", "deposit"},
          phase : {"idle", "requesting", "auction", "quoted", "signing", "executing",
                   "done", "expired", "error"},
          prepared : Sales \cup {NoSale}, busy : BOOLEAN,
          timer : Sales \cup {NoSale}, done : BOOLEAN]
RequestValues == [at : {"idle", "health", "deposit", "create", "poll"},
                  order : SaleOrders \cup {NoOrder}, sale : Sales \cup {NoSale}]
AcceptanceValues == [at : {"idle", "signing", "executing"}, sale : Sales \cup {NoSale},
                     shown : SaleOrders \cup {NoOrder}]

\* The variables and their values.
SaleTypes ==
    /\ auctions \in [Sales -> [order : SaleOrders \cup {NoOrder}, state : {"none", "open", "closed"}]]
    /\ overdue \subseteq Sales
    /\ form \in Forms
    /\ requests \in [Requests -> RequestValues]
    /\ acceptances \in [Acceptances -> AcceptanceValues]
    /\ trades \subseteq [sale : Sales, order : SaleOrders]

\* As long as the user has crossed no call: one at a time, whose order and sale
\* are the form's.
SaleIInv == SaleTypes /\ SaleCallOK /\ OneSaleCall /\ SaleFormOK /\ TradesOK

\* No call is under way.
LEMMA SaleRests ==
    ASSUME SaleTypes', AllIdle', form'.setup = "idle", ~form'.busy,
           form'.phase \in {"idle", "quoted", "done", "expired", "error"}, SaleFormOK', TradesOK'
    PROVE  SaleIInv'
BY DEF SaleIInv, SaleCallOK, OneSaleCall, AllIdle

\* One request is under way.
LEMMA SaleRequested ==
    ASSUME SaleTypes', TradesOK', NEW c \in Requests, NEW r \in RequestValues, requests'[c] = r,
           \A d \in Requests : d # c => requests'[d].at = "idle",
           \A a \in Acceptances : acceptances'[a].at = "idle",
           r.order \in SaleOrders, form'.frozen = r.order, ~form'.done,
           \/ r.at = "health" /\ form'.setup = "idle" /\ ~form'.busy /\ form'.phase = "idle"
           \/ r.at = "deposit" /\ form'.setup = "deposit" /\ ~form'.busy /\ form'.phase = "idle"
           \/ r.at = "create" /\ form'.setup = "idle" /\ form'.busy /\ form'.phase = "requesting"
           \/ /\ r.at = "poll" /\ form'.setup = "idle" /\ form'.busy /\ form'.phase = "auction"
              /\ r.sale \in Sales /\ auctions'[r.sale].state # "none"
              /\ auctions'[r.sale].order = r.order
    PROVE  SaleIInv'
<1>1. r.at # "idle"
  OBVIOUS
<1>2. SaleCallOK'
  BY DEF SaleCallOK
<1>3. OneSaleCall' /\ SaleFormOK'
  BY <1>1 DEF OneSaleCall, SaleFormOK, AllIdle
<1> QED
  BY <1>2, <1>3 DEF SaleIInv

\* One acceptance is under way.
LEMMA SaleAccepted ==
    ASSUME SaleTypes', TradesOK', NEW a \in Acceptances, NEW r \in AcceptanceValues,
           acceptances'[a] = r,
           \A b \in Acceptances : b # a => acceptances'[b].at = "idle",
           \A c \in Requests : requests'[c].at = "idle",
           r.sale \in Sales, auctions'[r.sale].state # "none",
           r.shown \in SaleOrders, auctions'[r.sale].order = r.shown,
           form'.setup = "idle", form'.busy, ~form'.done,
           form'.prepared = r.sale, form'.frozen = r.shown,
           \/ /\ r.at = "signing" /\ form'.phase = "signing"
              /\ form'.timer \in {NoSale, r.sale}
           \/ r.at = "executing" /\ form'.phase = "executing"
    PROVE  SaleIInv'
<1>1. r.at # "idle"
  OBVIOUS
<1>2. SaleCallOK'
  BY <1>1 DEF SaleCallOK
<1>3. OneSaleCall' /\ SaleFormOK'
  BY <1>1 DEF OneSaleCall, SaleFormOK, AllIdle
<1> QED
  BY <1>2, <1>3 DEF SaleIInv

\* A user who crosses no call finds none under way where the controls or the
\* button are free, or a trade is shown.
LEMMA ChoicesRest ==
    ASSUME SaleIInv, UserActs, ~crossed',
           ~ControlsLocked(form) \/ form.done \/ ~ButtonBusy(form)
    PROVE  AllIdle
<1>1. ASSUME NEW c \in Requests PROVE requests[c].at = "idle"
  BY DEF SaleIInv, SaleCallOK, SaleFormOK, UserActs, ControlsLocked, ButtonBusy, AllIdle
<1>2. ASSUME NEW a \in Acceptances PROVE acceptances[a].at = "idle"
  BY DEF UserActs
<1> QED
  BY <1>1, <1>2 DEF AllIdle

\* The user's choices.
LEMMA ChoicesKeep ==
    ASSUME SaleIInv, ~crossed', NEW o \in SaleOrders,
           ChooseOrder(o) \/ ChangeAmount(o) \/ CreateAnother(o)
    PROVE  SaleIInv'
<1>0. SaleTypes /\ TradesOK /\ OneSaleCall /\ SaleFormOK /\ form \in Forms
  BY DEF SaleIInv, SaleTypes
<1>1. AllIdle
  BY ChoicesRest DEF ChooseOrder, ChangeAmount, CreateAnother
<1>2. UNCHANGED <<auctions, overdue, requests, acceptances, trades>>
  BY DEF ChooseOrder, ChangeAmount, CreateAnother, engineSideVars
<1>3. form' \in Forms
  <2>1. ChooseOrder(o) => form' \in Forms
    BY <1>0 DEF ChooseOrder, Reset, Forms
  <2>2. ChangeAmount(o) => form' \in Forms
    BY <1>0 DEF ChangeAmount, Reset, Forms
  <2>3. CreateAnother(o) => form' \in Forms
    BY <1>0, ZenonT(60) DEF CreateAnother, Reset, Forms
  <2> QED
    BY <2>1, <2>2, <2>3
<1>4. form'.setup = "idle" /\ ~form'.busy /\ form'.phase \in {"idle", "expired", "error"}
      /\ ~form'.done
  BY <1>0, <1>1 DEF ChooseOrder, ChangeAmount, CreateAnother, Reset, Forms, ControlsLocked, OneSaleCall
<1>5. SaleTypes' /\ TradesOK' /\ AllIdle'
  BY <1>0, <1>1, <1>2, <1>3 DEF SaleTypes, TradesOK, AllIdle
<1> QED
  BY <1>4, <1>5, SaleRests DEF SaleFormOK

\* The values the calls take.
LEMMA SaleValues ==
    /\ NoRequest \in RequestValues /\ NoRequest.at = "idle"
    /\ NoAcceptance \in AcceptanceValues /\ NoAcceptance.at = "idle"
BY DEF NoRequest, RequestValues, NoAcceptance, AcceptanceValues

\* The other calls, while request c is under way or none is.
LEMMA OtherSaleRequests ==
    ASSUME SaleIInv, NEW c \in Requests, requests[c].at # "idle" \/ AllIdle,
           NEW r \in RequestValues, requests' = [requests EXCEPT ![c] = r],
           acceptances' = acceptances
    PROVE  /\ requests' \in [Requests -> RequestValues] /\ requests'[c] = r
           /\ \A d \in Requests : d # c => requests'[d].at = "idle"
           /\ \A a \in Acceptances : acceptances'[a].at = "idle"
<1>1. requests \in [Requests -> RequestValues]
  BY DEF SaleIInv, SaleTypes
<1>2. \A d \in Requests : d # c => requests[d].at = "idle"
  BY DEF SaleIInv, OneSaleCall, AllIdle
<1> QED
  BY <1>1, <1>2 DEF SaleIInv, OneSaleCall, AllIdle

\* The other calls, while acceptance a is under way or none is.
LEMMA OtherAcceptances ==
    ASSUME SaleIInv, NEW a \in Acceptances, acceptances[a].at # "idle" \/ AllIdle,
           NEW r \in AcceptanceValues, acceptances' = [acceptances EXCEPT ![a] = r],
           requests' = requests
    PROVE  /\ acceptances' \in [Acceptances -> AcceptanceValues] /\ acceptances'[a] = r
           /\ \A b \in Acceptances : b # a => acceptances'[b].at = "idle"
           /\ \A c \in Requests : requests'[c].at = "idle"
<1>1. acceptances \in [Acceptances -> AcceptanceValues]
  BY DEF SaleIInv, SaleTypes
<1>2. \A b \in Acceptances : b # a => acceptances[b].at = "idle"
  BY DEF SaleIInv, OneSaleCall, AllIdle
<1> QED
  BY <1>1, <1>2 DEF SaleIInv, OneSaleCall, AllIdle

\* A request begins with the order that the form then freezes.
LEMMA RequestKeeps ==
    ASSUME SaleIInv, ~crossed', NEW c \in Requests, RequestQuote(c)
    PROVE  SaleIInv'
<1>0. SaleTypes /\ TradesOK /\ OneSaleCall /\ SaleFormOK
      /\ form \in Forms /\ form.chosen \in SaleOrders
  BY DEF SaleIInv, SaleTypes, Forms
<1>1. AllIdle
  BY ChoicesRest DEF RequestQuote
<1>2. PICK r \in RequestValues : r = [NoRequest EXCEPT !.at = "health", !.order = form.chosen]
  BY <1>0 DEF NoRequest, RequestValues
<1>3. UNCHANGED <<auctions, overdue, acceptances, trades>> /\ requests' = [requests EXCEPT ![c] = r]
  BY <1>2 DEF RequestQuote, RequestBecomes, engineSideVars
<1>4. r.at = "health" /\ r.order = form.chosen
  BY <1>2 DEF NoRequest
<1>5. /\ form' \in Forms /\ form'.frozen = form.chosen /\ form'.setup = "idle" /\ ~form'.busy
      /\ ~form'.done /\ form'.phase = "idle"
  <2>1. CASE form.phase \in {"error", "expired"}
    BY <1>0, <1>1, <2>1 DEF RequestQuote, Reset, Forms, OneSaleCall
  <2>2. CASE form.phase \notin {"error", "expired"}
    <3>1. form' = [form EXCEPT !.frozen = form.chosen]
      BY <2>2 DEF RequestQuote
    <3>2. form.phase = "idle" /\ form.setup = "idle" /\ ~form.busy /\ ~form.done
      BY <1>0, <1>1, <2>2 DEF RequestQuote, OneSaleCall, SaleFormOK
    <3> QED
      BY <1>0, <3>1, <3>2 DEF Forms
  <2> QED
    BY <2>1, <2>2
<1>6. /\ requests' \in [Requests -> RequestValues] /\ requests'[c] = r
      /\ \A d \in Requests : d # c => requests'[d].at = "idle"
      /\ \A a \in Acceptances : acceptances'[a].at = "idle"
  BY <1>1, <1>3, OtherSaleRequests
<1>7. SaleTypes' /\ TradesOK'
  BY <1>0, <1>3, <1>5, <1>6 DEF SaleTypes, TradesOK
<1> QED
  BY <1>0, <1>4, <1>5, <1>6, <1>7, SaleRequested

\* A request that fails leaves the form at rest.
LEMMA RequestFailsRests ==
    ASSUME SaleIInv, NEW c \in Requests, requests[c].at # "idle",
           UNCHANGED <<auctions, overdue, acceptances, trades>>,
           NEW f \in Forms, ~f.busy, ~f.done, f.phase \in {"idle", "expired", "error"},
           RequestFails(c, f)
    PROVE  SaleIInv'
<1>0. SaleTypes /\ TradesOK
  BY DEF SaleIInv
<1>1. requests' = [requests EXCEPT ![c] = NoRequest]
  BY DEF RequestFails, RequestBecomes
<1>2. /\ form' \in Forms /\ form'.setup = "idle" /\ ~form'.busy /\ ~form'.done
      /\ form'.phase \in {"idle", "expired", "error"}
  BY DEF RequestFails, Forms
<1>3. /\ requests' \in [Requests -> RequestValues] /\ requests'[c] = NoRequest
      /\ \A d \in Requests : d # c => requests'[d].at = "idle"
      /\ \A a \in Acceptances : acceptances'[a].at = "idle"
  BY <1>1, OtherSaleRequests, SaleValues
<1>4. SaleTypes' /\ TradesOK' /\ AllIdle'
  BY <1>0, <1>2, <1>3, SaleValues DEF SaleTypes, TradesOK, AllIdle
<1> QED
  BY <1>2, <1>4, SaleRests DEF SaleFormOK

\* The health check and the deposit.
LEMMA FundingKeeps ==
    ASSUME SaleIInv, NEW c \in Requests, HealthAnswers(c) \/ DepositEnds(c)
    PROVE  SaleIInv'
<1>0. SaleTypes /\ TradesOK /\ form \in Forms /\ requests[c].at \in {"health", "deposit"}
  BY DEF SaleIInv, SaleTypes, HealthAnswers, DepositEnds
<1>1. PICK q \in RequestValues : q = requests[c]
  BY <1>0 DEF SaleTypes
<1>2. /\ q.order \in SaleOrders /\ form.frozen = q.order /\ ~form.done /\ ~form.busy
      /\ form.phase = "idle"
  BY <1>0, <1>1 DEF SaleIInv, SaleCallOK
<1>3. UNCHANGED <<auctions, overdue, acceptances, trades>>
  BY DEF HealthAnswers, DepositEnds, engineSideVars
<1>4. CASE RequestFails(c, form)
  BY <1>0, <1>2, <1>3, <1>4, RequestFailsRests
<1>5. CASE /\ form' = [form EXCEPT !.setup = "deposit"]
           /\ requests' = [requests EXCEPT ![c] = [requests[c] EXCEPT !.at = "deposit"]]
  <2>1. PICK r \in RequestValues : r = [q EXCEPT !.at = "deposit"]
    BY DEF RequestValues
  <2>2. r.at = "deposit" /\ r.order = q.order
    BY <2>1 DEF RequestValues
  <2>3. requests' = [requests EXCEPT ![c] = r]
    BY <1>1, <1>5, <2>1
  <2>4. /\ requests' \in [Requests -> RequestValues] /\ requests'[c] = r
        /\ \A d \in Requests : d # c => requests'[d].at = "idle"
        /\ \A a \in Acceptances : acceptances'[a].at = "idle"
    BY <1>0, <1>3, <2>3, OtherSaleRequests
  <2>5. /\ form' \in Forms /\ form'.setup = "deposit" /\ ~form'.busy /\ form'.phase = "idle"
        /\ ~form'.done /\ form'.frozen = form.frozen
    BY <1>0, <1>2, <1>5 DEF Forms
  <2>6. SaleTypes' /\ TradesOK'
    BY <1>0, <1>3, <2>4, <2>5 DEF SaleTypes, TradesOK
  <2> QED
    BY <1>2, <2>2, <2>4, <2>5, <2>6, SaleRequested
<1>6. CASE /\ form' = [form EXCEPT !.setup = "idle", !.busy = TRUE, !.prepared = NoSale,
                                   !.timer = NoSale, !.phase = "requesting"]
           /\ requests' = [requests EXCEPT ![c] = [requests[c] EXCEPT !.at = "create"]]
  <2>1. PICK r \in RequestValues : r = [q EXCEPT !.at = "create"]
    BY DEF RequestValues
  <2>2. r.at = "create" /\ r.order = q.order
    BY <2>1 DEF RequestValues
  <2>3. requests' = [requests EXCEPT ![c] = r]
    BY <1>1, <1>6, <2>1
  <2>4. /\ requests' \in [Requests -> RequestValues] /\ requests'[c] = r
        /\ \A d \in Requests : d # c => requests'[d].at = "idle"
        /\ \A a \in Acceptances : acceptances'[a].at = "idle"
    BY <1>0, <1>3, <2>3, OtherSaleRequests
  <2>5. /\ form' \in Forms /\ form'.setup = "idle" /\ form'.busy /\ form'.phase = "requesting"
        /\ ~form'.done /\ form'.frozen = form.frozen
    BY <1>0, <1>2, <1>6 DEF Forms
  <2>6. SaleTypes' /\ TradesOK'
    BY <1>0, <1>3, <2>4, <2>5 DEF SaleTypes, TradesOK
  <2> QED
    BY <1>2, <2>2, <2>4, <2>5, <2>6, SaleRequested
<1> QED
  BY <1>2, <1>4, <1>5, <1>6 DEF HealthAnswers, DepositEnds, OpenRequest, RequestBecomes

\* requestQuote fails: its catch and its finally.
LEMMA QuoteFailsRests ==
    ASSUME SaleIInv, NEW c \in Requests, requests[c].at # "idle",
           UNCHANGED <<auctions, overdue, acceptances, trades>>,
           NEW f \in Forms, ~f.done, QuoteFails(c, f)
    PROVE  SaleIInv'
<1>1. PICK g \in Forms : g = [f EXCEPT !.busy = FALSE,
                                       !.phase = IF @ = "expired" THEN @ ELSE "error"]
  BY DEF Forms
<1>2. ~g.busy /\ ~g.done /\ g.phase \in {"expired", "error"}
  BY <1>1 DEF Forms
<1>3. RequestFails(c, g)
  BY <1>1 DEF QuoteFails
<1> QED
  BY <1>2, <1>3, RequestFailsRests

\* The RFQ is created for the order of the request, and its quote arrives
\* while that order is still the one on the form.
LEMMA AuctionKeeps ==
    ASSUME SaleIInv, NEW c \in Requests, CreateAnswers(c) \/ PollAnswers(c) \/ PollFails(c)
    PROVE  SaleIInv'
<1>0. SaleTypes /\ TradesOK /\ form \in Forms /\ requests[c].at \in {"create", "poll"}
  BY DEF SaleIInv, SaleTypes, CreateAnswers, PollAnswers, PollFails
<1>1. PICK q \in RequestValues : q = requests[c]
  BY <1>0 DEF SaleTypes
<1>2. /\ q.order \in SaleOrders /\ form.frozen = q.order /\ ~form.done
      /\ form.setup = "idle" /\ form.busy
      /\ q.at = "poll" => /\ q.sale \in Sales /\ auctions[q.sale].state # "none"
                          /\ auctions[q.sale].order = q.order
  BY <1>0, <1>1 DEF SaleIInv, SaleCallOK
<1>3. UNCHANGED <<overdue, acceptances, trades>>
  BY DEF CreateAnswers, PollAnswers, PollFails, engineSideVars
<1>4. CASE auctions' = auctions /\ QuoteFails(c, form)
  BY <1>0, <1>2, <1>3, <1>4, QuoteFailsRests
<1>5. CASE auctions' = auctions /\ QuoteFails(c, [form EXCEPT !.phase = "expired"])
  <2>1. [form EXCEPT !.phase = "expired"] \in Forms /\ ~[form EXCEPT !.phase = "expired"].done
    BY <1>0, <1>2 DEF Forms
  <2> QED
    BY <1>0, <1>3, <1>5, <2>1, QuoteFailsRests
<1>6. ASSUME NEW s \in Sales,
             auctions[s].state = "none",
             auctions' = [auctions EXCEPT ![s] = [order |-> requests[c].order, state |-> "open"]],
             form' = [form EXCEPT !.phase = "auction"],
             requests' = [requests EXCEPT ![c] = [requests[c] EXCEPT !.at = "poll", !.sale = s]]
      PROVE  SaleIInv'
  <2>2. PICK r \in RequestValues : r = [q EXCEPT !.at = "poll", !.sale = s]
    BY DEF RequestValues
  <2>3. r.at = "poll" /\ r.order = q.order /\ r.sale = s
    BY <2>2 DEF RequestValues
  <2>4. requests' = [requests EXCEPT ![c] = r]
    BY <1>1, <1>6, <2>2
  <2>5. /\ requests' \in [Requests -> RequestValues] /\ requests'[c] = r
        /\ \A d \in Requests : d # c => requests'[d].at = "idle"
        /\ \A a \in Acceptances : acceptances'[a].at = "idle"
    BY <1>0, <1>3, <2>4, OtherSaleRequests
  <2>6. /\ form' \in Forms /\ form'.setup = "idle" /\ form'.busy /\ form'.phase = "auction"
        /\ ~form'.done /\ form'.frozen = form.frozen
    BY <1>0, <1>2, <1>6 DEF Forms
  <2>7. auctions'[s].order = q.order /\ auctions'[s].state = "open"
    BY <1>0, <1>1, <1>6 DEF SaleTypes
  <2>8. \A t \in Sales : t # s => auctions'[t] = auctions[t]
    BY <1>0, <1>6 DEF SaleTypes
  <2>9. SaleTypes'
    BY <1>0, <1>1, <1>2, <1>3, <1>6, <2>5, <2>6 DEF SaleTypes
  <2>10. TradesOK'
    BY <1>0, <1>3, <1>6, <2>8 DEF SaleTypes, TradesOK
  <2> QED
    BY <1>2, <2>3, <2>5, <2>6, <2>7, <2>9, <2>10, SaleRequested
<1>7. CASE /\ requests[c].at = "poll" /\ auctions' = auctions
           /\ form' = [form EXCEPT !.prepared = q.sale, !.phase = "quoted", !.timer = q.sale,
                                   !.busy = FALSE]
           /\ requests' = [requests EXCEPT ![c] = NoRequest]
  <2>1. /\ form' \in Forms /\ form'.setup = "idle" /\ ~form'.busy /\ form'.phase = "quoted"
        /\ ~form'.done /\ form'.frozen = form.frozen /\ form'.prepared = q.sale
    BY <1>0, <1>1, <1>2, <1>7 DEF Forms
  <2>2. /\ requests' \in [Requests -> RequestValues] /\ requests'[c] = NoRequest
        /\ \A d \in Requests : d # c => requests'[d].at = "idle"
        /\ \A a \in Acceptances : acceptances'[a].at = "idle"
    BY <1>0, <1>3, <1>7, OtherSaleRequests, SaleValues
  <2>3. SaleTypes' /\ TradesOK' /\ AllIdle'
    BY <1>0, <1>3, <1>7, <2>1, <2>2, SaleValues DEF SaleTypes, TradesOK, AllIdle
  <2> QED
    BY <1>1, <1>2, <1>7, <2>1, <2>3, SaleRests DEF SaleFormOK
<1> QED
  BY <1>1, <1>4, <1>5, <1>6, <1>7
     DEF CreateAnswers, PollAnswers, PollFails, RequestBecomes, engineSideVars

\* A quote is accepted as the order that the form shows with it.
LEMMA AcceptKeeps ==
    ASSUME SaleIInv, ~crossed', NEW a \in Acceptances, AcceptQuote(a)
    PROVE  SaleIInv'
<1>0. SaleTypes /\ TradesOK /\ OneSaleCall /\ SaleFormOK /\ form \in Forms /\ form.phase = "quoted"
  BY DEF SaleIInv, SaleTypes, AcceptQuote
<1>1. AllIdle /\ ~form.done
  BY ChoicesRest DEF AcceptQuote
<1>2. UNCHANGED <<auctions, overdue, requests, trades>>
  BY DEF AcceptQuote, engineSideVars
<1>3. form.setup = "idle" /\ ~form.busy
  BY <1>0, <1>1 DEF OneSaleCall
<1>4. CASE /\ form' = [form EXCEPT !.timer = NoSale, !.phase = "expired"]
           /\ acceptances' = acceptances
  <2>1. /\ form' \in Forms /\ form'.setup = "idle" /\ ~form'.busy /\ form'.phase = "expired"
        /\ ~form'.done
    BY <1>0, <1>1, <1>3, <1>4 DEF Forms
  <2>2. SaleTypes' /\ TradesOK' /\ AllIdle'
    BY <1>0, <1>1, <1>2, <1>4, <2>1 DEF SaleTypes, TradesOK, AllIdle
  <2> QED
    BY <2>1, <2>2, SaleRests DEF SaleFormOK
<1>5. CASE /\ form.prepared \notin overdue
           /\ form' = [form EXCEPT !.busy = TRUE, !.phase = "signing"]
           /\ acceptances' = [acceptances EXCEPT ![a] =
                 [at |-> "signing", sale |-> form.prepared, shown |-> form.frozen]]
  <2>1. /\ form.prepared \in Sales /\ form.frozen \in SaleOrders
        /\ auctions[form.prepared].state # "none"
        /\ auctions[form.prepared].order = form.frozen
    BY <1>0 DEF SaleFormOK
  <2>2. PICK r \in AcceptanceValues :
          r = [at |-> "signing", sale |-> form.prepared, shown |-> form.frozen]
    BY <2>1 DEF AcceptanceValues
  <2>3. r.at = "signing" /\ r.sale = form.prepared /\ r.shown = form.frozen
    BY <2>2
  <2>4. /\ acceptances' \in [Acceptances -> AcceptanceValues] /\ acceptances'[a] = r
        /\ \A b \in Acceptances : b # a => acceptances'[b].at = "idle"
        /\ \A c \in Requests : requests'[c].at = "idle"
    BY <1>1, <1>2, <1>5, <2>2, OtherAcceptances
  <2>5. /\ form' \in Forms /\ form'.setup = "idle" /\ form'.busy /\ form'.phase = "signing"
        /\ ~form'.done /\ form'.prepared = form.prepared /\ form'.frozen = form.frozen
        /\ form'.timer = form.timer
    BY <1>0, <1>1, <1>3, <1>5 DEF Forms
  <2>6. SaleTypes' /\ TradesOK'
    BY <1>0, <1>2, <2>4, <2>5 DEF SaleTypes, TradesOK
  <2>7. form.timer \in {NoSale, form.prepared}
    BY <1>0 DEF SaleFormOK
  <2> QED
    BY <1>2, <1>5, <2>1, <2>3, <2>4, <2>5, <2>6, <2>7, SaleAccepted
<1> QED
  BY <1>4, <1>5 DEF AcceptQuote, AcceptanceBecomes

\* The wallet signs, and the engine answers.
LEMMA SigningKeeps ==
    ASSUME SaleIInv, NEW a \in Acceptances,
           OrderSigned(a) \/ SigningFails(a) \/ TradeExecuted(a) \/ ExecutionFails(a)
    PROVE  SaleIInv'
<1>0. /\ SaleTypes /\ TradesOK /\ form \in Forms /\ acceptances[a].at \in {"signing", "executing"}
      /\ overdue \subseteq Sales
  BY DEF SaleIInv, SaleTypes, OrderSigned, SigningFails, TradeExecuted, ExecutionFails
<1>1. PICK q \in AcceptanceValues : q = acceptances[a]
  BY <1>0 DEF SaleTypes
<1>2. /\ q.sale \in Sales /\ auctions[q.sale].state # "none" /\ q.shown \in SaleOrders
      /\ auctions[q.sale].order = q.shown /\ form.setup = "idle" /\ form.busy /\ ~form.done
      /\ form.prepared = q.sale /\ form.frozen = q.shown
  BY <1>0, <1>1 DEF SaleIInv, SaleCallOK
<1>3. UNCHANGED <<auctions, overdue, requests>>
  BY DEF OrderSigned, SigningFails, TradeExecuted, ExecutionFails, engineSideVars
<1>4. CASE OrderSigned(a)
  <2>1. PICK r \in AcceptanceValues : r = [q EXCEPT !.at = "executing"]
    BY DEF AcceptanceValues
  <2>2. r.at = "executing" /\ r.sale = q.sale /\ r.shown = q.shown
    BY <2>1 DEF AcceptanceValues
  <2>3. /\ acceptances' = [acceptances EXCEPT ![a] = r] /\ trades' = trades
        /\ form' = [form EXCEPT !.phase = "executing", !.timer = NoSale]
    BY <1>1, <1>4, <2>1 DEF OrderSigned, AcceptanceBecomes
  <2>4. /\ acceptances' \in [Acceptances -> AcceptanceValues] /\ acceptances'[a] = r
        /\ \A b \in Acceptances : b # a => acceptances'[b].at = "idle"
        /\ \A c \in Requests : requests'[c].at = "idle"
    BY <1>0, <1>3, <2>3, OtherAcceptances
  <2>5. /\ form' \in Forms /\ form'.setup = "idle" /\ form'.busy /\ form'.phase = "executing"
        /\ ~form'.done /\ form'.prepared = q.sale /\ form'.frozen = q.shown
    BY <1>0, <1>2, <2>3 DEF Forms
  <2>6. SaleTypes' /\ TradesOK'
    BY <1>0, <1>3, <2>3, <2>4, <2>5 DEF SaleTypes, TradesOK
  <2> QED
    BY <1>2, <1>3, <2>2, <2>4, <2>5, <2>6, SaleAccepted
<1>5. CASE SigningFails(a) \/ TradeExecuted(a) \/ ExecutionFails(a)
  <2>1. acceptances' = [acceptances EXCEPT ![a] = NoAcceptance]
    BY <1>5 DEF SigningFails, TradeExecuted, ExecutionFails, AcceptanceFails, AcceptanceBecomes
  <2>2. /\ acceptances' \in [Acceptances -> AcceptanceValues] /\ acceptances'[a] = NoAcceptance
        /\ \A b \in Acceptances : b # a => acceptances'[b].at = "idle"
        /\ \A c \in Requests : requests'[c].at = "idle"
    BY <1>0, <1>3, <2>1, OtherAcceptances, SaleValues
  <2>3. AllIdle'
    BY <2>2, SaleValues DEF AllIdle
  <2>4. CASE TradeExecuted(a)
    <3>1. PICK t \in [sale : Sales, order : SaleOrders] : t = [sale |-> q.sale, order |-> q.shown]
      BY <1>2
    <3>2. /\ trades' = trades \cup {t} /\ t.sale = q.sale /\ t.order = q.shown
          /\ form' = [form EXCEPT !.busy = FALSE, !.phase = "done", !.done = TRUE]
      BY <1>1, <2>4, <3>1 DEF TradeExecuted
    <3>3. /\ form' \in Forms /\ form'.setup = "idle" /\ ~form'.busy /\ form'.phase = "done"
          /\ form'.done
      BY <1>0, <1>2, <3>2 DEF Forms
    <3>4. SaleTypes' /\ TradesOK'
      BY <1>0, <1>2, <1>3, <2>2, <3>2, <3>3 DEF SaleTypes, TradesOK
    <3> QED
      BY <2>3, <3>3, <3>4, SaleRests DEF SaleFormOK
  <2>5. CASE SigningFails(a) \/ ExecutionFails(a)
    <3>1. /\ trades' = trades
          /\ \/ form' = [form EXCEPT !.busy = FALSE, !.phase = "expired"]
             \/ form' = [form EXCEPT !.busy = FALSE, !.phase = "error"]
             \/ form' = [form EXCEPT !.busy = FALSE, !.phase = "quoted", !.timer = q.sale]
      BY <1>1, <2>5 DEF SigningFails, ExecutionFails, AcceptanceFails
    <3>a. form' \in Forms
      BY <1>0, <1>2, <3>1, ZenonT(60) DEF Forms
    <3>2. /\ form' \in Forms /\ form'.setup = "idle" /\ ~form'.busy /\ ~form'.done
          /\ form'.phase \in {"expired", "error", "quoted"}
          /\ form'.prepared = q.sale /\ form'.frozen = q.shown
          /\ form'.phase = "quoted" => form'.timer = q.sale
      BY <1>0, <1>2, <3>1, <3>a, ZenonT(60) DEF Forms
    <3>3. SaleTypes' /\ TradesOK'
      BY <1>0, <1>3, <2>2, <3>1, <3>2 DEF SaleTypes, TradesOK
    <3> QED
      BY <1>2, <1>3, <2>3, <3>2, <3>3, SaleRests DEF SaleFormOK
  <2> QED
    BY <1>5, <2>4, <2>5
<1> QED
  BY <1>4, <1>5

\* The engine and the clock.
LEMMA ClockKeeps ==
    ASSUME SaleIInv,
           \/ \E s \in Sales : AuctionCloses(s) \/ DeadlinePasses(s)
           \/ TimerFires
           \/ UNCHANGED webSaleVars
    PROVE  SaleIInv'
<1>0. SaleTypes /\ TradesOK /\ SaleCallOK /\ OneSaleCall /\ SaleFormOK /\ form \in Forms
  BY DEF SaleIInv, SaleTypes
<1>1. ASSUME NEW s \in Sales, AuctionCloses(s) PROVE SaleIInv'
  <2>1. /\ auctions[s].state = "open" /\ auctions' = [auctions EXCEPT ![s].state = "closed"]
        /\ UNCHANGED <<overdue, form, requests, acceptances, trades>>
    BY <1>1 DEF AuctionCloses
  <2>2. \A t \in Sales : /\ auctions'[t].order = auctions[t].order
                         /\ auctions[t].state # "none" => auctions'[t].state # "none"
    BY <1>0, <2>1 DEF SaleTypes
  <2>3. SaleTypes'
    BY <1>0, <2>1 DEF SaleTypes
  <2>4. TradesOK'
    BY <1>0, <2>1, <2>2 DEF SaleTypes, TradesOK
  <2>5. SaleCallOK' /\ OneSaleCall' /\ SaleFormOK'
    BY <1>0, <2>1, <2>2 DEF SaleCallOK, OneSaleCall, SaleFormOK, AllIdle
  <2> QED
    BY <2>3, <2>4, <2>5 DEF SaleIInv
<1>2. ASSUME NEW s \in Sales, DeadlinePasses(s) PROVE SaleIInv'
  <2>1. /\ overdue' = overdue \cup {s}
        /\ UNCHANGED <<auctions, form, requests, acceptances, trades>>
    BY <1>2 DEF DeadlinePasses
  <2>2. SaleTypes' /\ TradesOK' /\ OneSaleCall' /\ SaleFormOK'
    BY <1>0, <2>1 DEF SaleTypes, TradesOK, OneSaleCall, SaleFormOK, AllIdle
  <2>3. SaleCallOK'
    BY <1>0, <2>1 DEF SaleCallOK
  <2> QED
    BY <2>2, <2>3 DEF SaleIInv
<1>3. CASE TimerFires
  <2>1. /\ form.timer \in overdue
        /\ UNCHANGED <<auctions, overdue, requests, acceptances, trades>>
        /\ form' = [form EXCEPT !.timer = NoSale,
                                !.phase = IF @ \in {"quoted", "signing"} THEN "expired" ELSE @]
    BY <1>3 DEF TimerFires, engineSideVars
  <2>2. form.timer # NoSale
    BY <1>0, <2>1, WebSaleAssumption DEF SaleTypes
  <2>3. \A a \in Acceptances : acceptances[a].at = "signing" =>
           form.phase = "signing" /\ form.timer = acceptances[a].sale
    BY <1>0, <2>1, <2>2 DEF SaleCallOK
  <2>4. /\ form' \in Forms
        /\ form'.frozen = form.frozen /\ form'.setup = form.setup /\ form'.busy = form.busy
        /\ form'.done = form.done /\ form'.prepared = form.prepared /\ form'.timer = NoSale
        /\ \/ form'.phase = form.phase
           \/ form.phase \in {"quoted", "signing"} /\ form'.phase = "expired"
    BY <1>0, <2>1 DEF Forms
  <2>5. SaleTypes' /\ TradesOK'
    BY <1>0, <2>1, <2>4 DEF SaleTypes, TradesOK
  <2>6. SaleCallOK'
    BY <1>0, <2>1, <2>3, <2>4 DEF SaleCallOK
  <2>7. OneSaleCall' /\ SaleFormOK'
    BY <1>0, <2>1, <2>4 DEF OneSaleCall, SaleFormOK, AllIdle
  <2> QED
    BY <2>5, <2>6, <2>7 DEF SaleIInv
<1>4. CASE UNCHANGED webSaleVars
  BY <1>0, <1>4 DEF webSaleVars, engineSideVars, SaleIInv, SaleTypes, TradesOK, SaleCallOK, OneSaleCall,
                    SaleFormOK, AllIdle
<1> QED
  BY <1>1, <1>2, <1>3, <1>4

\* The first state.
LEMMA SaleInitial == WebSaleInit => SaleIInv
<1> SUFFICES ASSUME WebSaleInit PROVE SaleIInv
  OBVIOUS
<1>1. /\ form \in Forms /\ form.setup = "idle" /\ form.phase = "idle" /\ ~form.busy /\ ~form.done
  BY DEF WebSaleInit, Forms
<1>2. AllIdle
  BY SaleValues DEF WebSaleInit, AllIdle
<1>3. SaleTypes /\ TradesOK
  BY <1>1, SaleValues DEF WebSaleInit, SaleTypes, TradesOK
<1> QED
  BY <1>1, <1>2, <1>3 DEF SaleIInv, SaleCallOK, OneSaleCall, SaleFormOK, AllIdle

\* What a user signs is the order shown with its quote, and what is recorded
\* is that order, for any number of orders, sales, requests and acceptances,
\* until the user acts during a health check or under an open prompt.
THEOREM SignaturesAreShown ==
    WebSaleSpec => []ShownUnlessCrossed
<1> DEFINE Inv == ~crossed => SaleIInv
<1>1. WebSaleInit => Inv
  BY SaleInitial
<1>2. Inv /\ [WebSaleNext]_webSaleVars => Inv'
  <2> SUFFICES ASSUME Inv, [WebSaleNext]_webSaleVars, ~crossed' PROVE SaleIInv'
    OBVIOUS
  <2>1. ~crossed
    BY DEF WebSaleNext, webSaleVars, UserActs, ChooseOrder, ChangeAmount, CreateAnother,
       RequestQuote, HealthAnswers, DepositEnds, CreateAnswers, PollAnswers, PollFails,
       AcceptQuote, OrderSigned, SigningFails, TradeExecuted, ExecutionFails,
       AuctionCloses, DeadlinePasses, TimerFires
  <2> QED
    BY <2>1, ChoicesKeep, RequestKeeps, FundingKeeps, AuctionKeeps, AcceptKeeps, SigningKeeps,
       ClockKeeps DEF WebSaleNext
<1>3. Inv => ShownUnlessCrossed
  BY DEF SaleIInv, SaleCallOK, TradesOK, ShownUnlessCrossed, SignedIsShown
<1> QED
  BY <1>1, <1>2, <1>3, PTL DEF WebSaleSpec

-----------------------------------------------------------------------------
(* Accounts. *)

\* The store, and what a creation remembers.
PageStores == [scope : Wallets \cup {NoWallet}, accounts : SUBSET Subaccounts,
               selected : Subaccounts \cup {NoSubaccount},
               remembered : Subaccounts \cup {NoSubaccount}, locked : BOOLEAN]

Creations == [at : {"idle", "mining", "validate"}, wallet : Wallets \cup {NoWallet},
              id : Subaccounts \cup {NoSubaccount}]

\* What each wallet's query has found, and what its creation has mined, is
\* its own, whichever wallet is connected now.  Without a wallet nothing is
\* listed: NoWallet has the subaccounts not yet created, which are not kept.
AccountsIInv ==
    /\ WebAccountsTypeOK
    /\ \A w \in Wallets : found[w] = NoList \/ found[w] \subseteq AccountsOf(w)
    /\ creation \in Creations
    /\ creation.at # "idle" => creation.wallet \in Wallets
    /\ creation.at = "validate" => creation.id \in AccountsOf(creation.wallet)
    /\ store.scope = NoWallet => store.accounts = {}
    /\ SelectionIsOwn

\* What is to be shown of the store after each of its operations.
OwnStore(s) ==
    /\ s \in PageStores
    /\ s.scope = NoWallet => s.accounts = {}
    /\ s.accounts \subseteq AccountsOf(s.scope)
    /\ s.selected \in s.accounts \cup {NoSubaccount}

\* A set of numbers that is not empty has its minimum.
LEMMA LeastIsMember ==
    ASSUME NEW S \in SUBSET Nat, S # {}
    PROVE  Min(S) \in S
<1>1. PICK m \in S : \A y \in S : ~(<<y, m>> \in OpToRel(<, Nat))
  BY NatLessThanWellFounded, WFMin
<1>2. \A y \in S : ~(y < m)
  BY <1>1 DEF OpToRel
<1>3. \A y \in S : m <= y
  BY <1>2
<1> QED
  BY <1>3 DEF Min

\* Matching gives out an id that nobody has.
LEMMA NextIsFree ==
    ASSUME \E a \in Subaccounts : depositor[a] = NoWallet
    PROVE  NextSubaccount \in Subaccounts /\ depositor[NextSubaccount] = NoWallet
<1> DEFINE Free == {a \in Subaccounts : depositor[a] = NoWallet}
<1>1. Free \in SUBSET Nat /\ Free # {}
  BY WebAccountsAssumption
<1>2. Min(Free) \in Free
  BY <1>1, LeastIsMember
<1> QED
  BY <1>2 DEF NextSubaccount

\* resolveSelectedAccountId: one of the list, or none.
LEMMA ResolvedIsListed ==
    ASSUME NEW ids \in SUBSET Subaccounts, NEW selected, NEW remembered
    PROVE  ResolveSelected(ids, selected, remembered) \in ids \cup {NoSubaccount}
<1>1. ids # {} => Min(ids) \in ids
  BY LeastIsMember, WebAccountsAssumption
<1>2. CASE selected \in ids
  BY <1>2 DEF ResolveSelected
<1>3. CASE selected \notin ids /\ remembered \in ids
  BY <1>3 DEF ResolveSelected
<1>4. CASE selected \notin ids /\ remembered \notin ids
  <2>1. {selected, remembered} \cap ids = {}
    BY <1>4
  <2>2. ResolveSelected(ids, selected, remembered) = IF ids = {} THEN NoSubaccount ELSE Min(ids)
    BY <1>4, <2>1 DEF ResolveSelected
  <2> QED
    BY <1>1, <2>2
<1> QED
  BY <1>2, <1>3, <1>4

\* setScope
LEMMA FreshIsOwn ==
    ASSUME NEW w \in Wallets \cup {NoWallet}, NEW r \in Subaccounts \cup {NoSubaccount},
           NEW locked \in BOOLEAN
    PROVE  OwnStore(FreshStore(w, r, locked)) /\ FreshStore(w, r, locked).scope = w
  BY DEF OwnStore, FreshStore, PageStores

\* A list of the scope's subaccounts, and one of them selected.
LEMMA WithAccountsIsOwn ==
    ASSUME NEW s, OwnStore(s), s.scope \in Wallets, NEW ids \in SUBSET AccountsOf(s.scope),
           NEW a \in ids \cup {NoSubaccount}
    PROVE  OwnStore(WithAccounts(s, ids, a)) /\ WithAccounts(s, ids, a).scope = s.scope
<1>1. s \in PageStores
  BY DEF OwnStore
<1>2. ids \in SUBSET Subaccounts /\ a \in Subaccounts \cup {NoSubaccount}
  BY DEF AccountsOf
<1>3. PICK t \in PageStores : t = WithAccounts(s, ids, a)
  BY <1>1, <1>2 DEF PageStores, WithAccounts
<1>4. t.scope = s.scope /\ t.accounts = ids /\ t.selected = a
  BY <1>1, <1>3 DEF PageStores, WithAccounts
<1>5. OwnStore(t) /\ t.scope = s.scope
  BY <1>4, WebAccountsAssumption DEF OwnStore
<1> QED
  BY <1>3, <1>5

\* replaceAccounts
LEMMA ReplacedIsOwn ==
    ASSUME NEW s, OwnStore(s), NEW w \in Wallets, NEW ids \in SUBSET AccountsOf(w)
    PROVE  OwnStore(Replaced(s, w, ids)) /\ Replaced(s, w, ids).scope = s.scope
<1>1. CASE s.scope # w
  BY <1>1 DEF Replaced
<1>2. CASE s.scope = w
  <2>1. ids \in SUBSET Subaccounts
    BY DEF AccountsOf
  <2>2. PICK a \in ids \cup {NoSubaccount} : a = ResolveSelected(ids, s.selected, s.remembered)
    BY <2>1, ResolvedIsListed
  <2>3. Replaced(s, w, ids) = WithAccounts(s, ids, a)
    BY <1>2, <2>2 DEF Replaced
  <2> QED
    BY <1>2, <2>3, WithAccountsIsOwn
<1> QED
  BY <1>1, <1>2

\* upsertAccount
LEMMA UpsertedIsOwn ==
    ASSUME NEW s, OwnStore(s), NEW w \in Wallets, NEW a \in AccountsOf(w)
    PROVE  OwnStore(Upserted(s, w, a))
<1>1. CASE s.scope # w
  BY <1>1 DEF Upserted
<1>2. CASE s.scope = w
  <2>1. s.accounts \cup {a} \in SUBSET AccountsOf(w)
    BY <1>2 DEF OwnStore
  <2>2. Upserted(s, w, a) = WithAccounts(s, s.accounts \cup {a}, a)
    BY <1>2 DEF Upserted
  <2> QED
    BY <1>2, <2>1, <2>2, WithAccountsIsOwn
<1> QED
  BY <1>1, <1>2

\* The invariant, of the store.
LEMMA StoreIsOwn ==
    ASSUME AccountsIInv
    PROVE  OwnStore(store)
  BY DEF AccountsIInv, WebAccountsTypeOK, SelectionIsOwn, OwnStore, PageStores

\* Nothing of the store and of what is known is disturbed, by a step that takes
\* no subaccount from anybody.
LEMMA DepositsKeepOwn ==
    ASSUME AccountsIInv, NEW w \in Wallets, Minted(w)
    PROVE  /\ depositor' \in [Subaccounts -> Wallets \cup {NoWallet}]
           /\ depositor'[NextSubaccount] = w /\ NextSubaccount \in Subaccounts
           /\ \A a \in Subaccounts : depositor[a] \in Wallets => depositor'[a] = depositor[a]
           /\ \A v \in Wallets : AccountsOf(v) \subseteq AccountsOf(v)'
<1>1. /\ NextSubaccount \in Subaccounts /\ depositor[NextSubaccount] = NoWallet
      /\ depositor' = [depositor EXCEPT ![NextSubaccount] = w]
  BY NextIsFree DEF Minted
<1>2. depositor \in [Subaccounts -> Wallets \cup {NoWallet}]
  BY DEF AccountsIInv, WebAccountsTypeOK
<1>3. \A a \in Subaccounts : depositor'[a] = IF a = NextSubaccount THEN w ELSE depositor[a]
  BY <1>1, <1>2
<1>4. \A v \in Wallets : AccountsOf(v) \subseteq AccountsOf(v)'
  BY <1>1, <1>3, WebAccountsAssumption DEF AccountsOf
<1>5. depositor' \in [Subaccounts -> Wallets \cup {NoWallet}]
  BY <1>1, <1>2
<1>6. \A a \in Subaccounts : depositor[a] \in Wallets => depositor'[a] = depositor[a]
  BY <1>1, <1>3, WebAccountsAssumption
<1> QED
  BY <1>1, <1>3, <1>4, <1>5, <1>6

\* What remains to be shown when nothing is created on the chain.
LEMMA OwnStoreKeeps ==
    ASSUME AccountsIInv, UNCHANGED <<depositor, found, creation>>, OwnStore(store'),
           remembers' \in [Wallets -> Subaccounts \cup {NoSubaccount}]
    PROVE  AccountsIInv'
  BY DEF AccountsIInv, WebAccountsTypeOK, SelectionIsOwn, OwnStore, PageStores, AccountsOf

\* Storage remembers a subaccount, or nothing.
LEMMA ChosenIsRemembered ==
    ASSUME AccountsIInv, NEW w, NEW s, OwnStore(s), StoreChosen(w, s)
    PROVE  /\ OwnStore(store') /\ store' = s
           /\ remembers' \in [Wallets -> Subaccounts \cup {NoSubaccount}]
<1>1. remembers \in [Wallets -> Subaccounts \cup {NoSubaccount}]
  BY DEF AccountsIInv, WebAccountsTypeOK
<1>2. s.selected \in Subaccounts \cup {NoSubaccount}
  BY DEF OwnStore, PageStores
<1>3. [remembers EXCEPT ![w] = s.selected] \in [Wallets -> Subaccounts \cup {NoSubaccount}]
  BY <1>1, <1>2
<1> QED
  BY <1>1, <1>3 DEF StoreChosen

\* A subaccount is created, by the page or elsewhere.
LEMMA ChainKeepsOwn ==
    ASSUME AccountsIInv, \/ \E w \in Wallets : MintElsewhere(w)
                         \/ CreationMined
    PROVE  AccountsIInv'
<1>1. ASSUME NEW w \in Wallets, Minted(w), UNCHANGED <<store, remembers, found>>
      PROVE  /\ WebAccountsTypeOK' <=> creation'.at \in {"idle", "mining", "validate"}
             /\ \A v \in Wallets : found'[v] = NoList \/ found'[v] \subseteq AccountsOf(v)'
             /\ SelectionIsOwn' /\ (store'.scope = NoWallet => store'.accounts = {})
  <2>1. /\ depositor' \in [Subaccounts -> Wallets \cup {NoWallet}]
        /\ \A v \in Wallets : AccountsOf(v) \subseteq AccountsOf(v)'
        /\ \A a \in Subaccounts : depositor[a] \in Wallets => depositor'[a] = depositor[a]
    BY <1>1, DepositsKeepOwn
  <2>2. store.scope \in Wallets \/ store.accounts = {}
    BY StoreIsOwn DEF OwnStore, PageStores
  <2>3. \A a \in store.accounts :
           a \in Subaccounts /\ depositor[a] = store.scope /\ depositor'[a] = store.scope
    BY <2>1, <2>2, StoreIsOwn DEF OwnStore, AccountsOf
  <2>4. SelectionIsOwn'
    BY <1>1, <2>3 DEF AccountsIInv, SelectionIsOwn, AccountsOf
  <2>5. \A v \in Wallets : found'[v] = NoList \/ found'[v] \subseteq AccountsOf(v)'
    BY <1>1, <2>1 DEF AccountsIInv
  <2> QED
    BY <1>1, <2>1, <2>4, <2>5 DEF AccountsIInv, WebAccountsTypeOK
<1>2. CASE \E w \in Wallets : MintElsewhere(w)
  <2>1. PICK w \in Wallets : MintElsewhere(w)
    BY <1>2
  <2>2. Minted(w) /\ UNCHANGED <<store, remembers, found, creation>>
    BY <2>1 DEF MintElsewhere
  <2>3. \A a \in Subaccounts : depositor[a] \in Wallets => depositor'[a] = depositor[a]
    BY <2>2, DepositsKeepOwn
  <2>4. WebAccountsTypeOK'
    BY <1>1, <2>2 DEF AccountsIInv, WebAccountsTypeOK
  <2>5. creation'.at = "validate" =>
           creation.id \in {a \in Subaccounts : depositor'[a] = creation.wallet}
    BY <2>2, <2>3 DEF AccountsIInv, AccountsOf
  <2> QED
    BY <1>1, <2>2, <2>4, <2>5 DEF AccountsIInv, AccountsOf, Creations
<1>3. CASE CreationMined
  <2>1. creation.wallet \in Wallets /\ Minted(creation.wallet)
    BY <1>3 DEF CreationMined, AccountsIInv
  <2>2. UNCHANGED <<store, remembers, found>>
    BY <1>3 DEF CreationMined
  <2>3. PICK b \in Subaccounts : b = NextSubaccount
    BY <2>1, DepositsKeepOwn
  <2>4. PICK c \in Creations : c = [creation EXCEPT !.at = "validate", !.id = b]
    BY <2>3 DEF AccountsIInv, Creations
  <2>5. creation' = c /\ c.at = "validate" /\ c.wallet = creation.wallet /\ c.id = b
    BY <1>3, <2>3, <2>4 DEF CreationMined, AccountsIInv, Creations
  <2>6. depositor'[b] = creation.wallet
    BY <2>1, <2>3, DepositsKeepOwn
  <2>7. WebAccountsTypeOK'
    BY <1>1, <2>1, <2>2, <2>5
  <2> QED
    BY <1>1, <2>1, <2>2, <2>3, <2>4, <2>5, <2>6, <2>7 DEF AccountsIInv, Creations, AccountsOf
<1> QED
  BY <1>2, <1>3

\* A query goes on, without an answer for the page.
LEMMA QueriesKeepOwn ==
    ASSUME AccountsIInv,
           \/ Refetch
           \/ \E w \in Wallets : DirectoryAnswers(w) \/ DirectoryUnusable(w) \/ ScanAnswers(w)
                                 \/ DiscoveryFails(w)
    PROVE  AccountsIInv'
<1>1. UNCHANGED <<depositor, store, remembers, found, creation>>
  BY DEF Refetch, DirectoryAnswers, DirectoryUnusable, ScanAnswers, DiscoveryFails
<1> QED
  BY <1>1 DEF AccountsIInv, WebAccountsTypeOK, SelectionIsOwn, AccountsOf

\* A query ends: its list is of its wallet, and only the store of that wallet
\* takes it.
LEMMA ListsKeepOwn ==
    ASSUME AccountsIInv, NEW w \in Wallets, CandidatesValidated(w)
    PROVE  AccountsIInv'
<1>1. PICK ids \in SUBSET Summarized(w, fetches[w].ids) :
          /\ found' = [found EXCEPT ![w] = ids]
          /\ \/ /\ store.scope = w
                /\ StoreChosen(w, Replaced(store, w, ids))
             \/ UNCHANGED <<store, remembers>>
  BY DEF CandidatesValidated
<1>2. ids \in SUBSET AccountsOf(w) /\ ids \in SUBSET Subaccounts
  BY DEF Summarized, AccountsOf
<1>3. UNCHANGED <<depositor, creation>>
  BY DEF CandidatesValidated
<1>4. OwnStore(Replaced(store, w, ids))
  BY <1>2, StoreIsOwn, ReplacedIsOwn
<1>5. OwnStore(store') /\ remembers' \in [Wallets -> Subaccounts \cup {NoSubaccount}]
  <2>1. CASE UNCHANGED <<store, remembers>>
    BY <2>1, StoreIsOwn DEF AccountsIInv, WebAccountsTypeOK
  <2>2. CASE StoreChosen(w, Replaced(store, w, ids))
    BY <2>2, <1>4, ChosenIsRemembered
  <2> QED
    BY <1>1, <2>1, <2>2
<1>6. found \in [Wallets -> (SUBSET Subaccounts) \cup {NoList}]
  BY DEF AccountsIInv, WebAccountsTypeOK
<1>7. /\ found' \in [Wallets -> (SUBSET Subaccounts) \cup {NoList}]
      /\ \A v \in Wallets : found'[v] = IF v = w THEN ids ELSE found[v]
  BY <1>1, <1>2, <1>6
<1>8. \A v \in Wallets : AccountsOf(v)' = AccountsOf(v)
  BY <1>3 DEF AccountsOf
<1>9. \A v \in Wallets : found'[v] = NoList \/ found'[v] \subseteq AccountsOf(v)'
  BY <1>2, <1>7, <1>8 DEF AccountsIInv
<1>10. WebAccountsTypeOK'
  BY <1>3, <1>5, <1>7 DEF AccountsIInv, WebAccountsTypeOK, OwnStore, PageStores
<1>11. SelectionIsOwn' /\ (store'.scope = NoWallet => store'.accounts = {})
  BY <1>3, <1>5 DEF OwnStore, SelectionIsOwn, AccountsOf
<1> QED
  BY <1>3, <1>9, <1>10, <1>11 DEF AccountsIInv, AccountsOf

\* Cached data is applied, of the wallet that is connected.
LEMMA HooksKeepOwn ==
    ASSUME AccountsIInv,
           \/ \E w \in Wallets \cup {NoWallet} : SwitchWallet(w)
           \/ MountComponent
    PROVE  AccountsIInv'
<1>1. ASSUME NEW w \in Wallets, found[w] # NoList
      PROVE  found[w] \in SUBSET AccountsOf(w)
  BY <1>1 DEF AccountsIInv
<1>2. CASE MountComponent
  <2>1. store.scope \in Wallets /\ found[store.scope] # NoList
    BY <1>2 DEF MountComponent, AccountsIInv, WebAccountsTypeOK
  <2>2. StoreChosen(store.scope, Replaced(store, store.scope, found[store.scope]))
    BY <1>2 DEF MountComponent
  <2>3. OwnStore(Replaced(store, store.scope, found[store.scope]))
    BY <1>1, <2>1, StoreIsOwn, ReplacedIsOwn
  <2>4. OwnStore(store') /\ remembers' \in [Wallets -> Subaccounts \cup {NoSubaccount}]
    BY <2>2, <2>3, ChosenIsRemembered
  <2> QED
    BY <1>2, <2>4, OwnStoreKeeps DEF MountComponent
<1>3. CASE \E w \in Wallets \cup {NoWallet} : SwitchWallet(w)
  <2>1. PICK w \in Wallets \cup {NoWallet} : SwitchWallet(w)
    BY <1>3
  <2>2. /\ store.locked \in BOOLEAN
        /\ remembers \in [Wallets -> Subaccounts \cup {NoSubaccount}]
    BY StoreIsOwn DEF OwnStore, PageStores, AccountsIInv, WebAccountsTypeOK
  <2>3. PICK r \in Subaccounts \cup {NoSubaccount} :
            r = IF w = NoWallet THEN NoSubaccount ELSE remembers[w]
    BY <2>2
  <2> DEFINE fresh == FreshStore(w, r, store.locked)
             cached == w # NoWallet /\ found[w] # NoList
  <2>4. OwnStore(fresh) /\ fresh.scope = w
    BY <2>2, FreshIsOwn
  <2>5. /\ store' = IF cached THEN Replaced(fresh, w, found[w]) ELSE fresh
        /\ IF cached THEN remembers' \in {remembers, [remembers EXCEPT ![w] = store'.selected]}
                     ELSE UNCHANGED remembers
        /\ UNCHANGED <<depositor, found, creation>>
    BY <2>1, <2>3 DEF SwitchWallet
  <2>6. OwnStore(store')
    <3>1. CASE cached
      <4>1. w \in Wallets /\ found[w] \in SUBSET AccountsOf(w)
        BY <1>1, <3>1
      <4> QED
        BY <2>4, <2>5, <3>1, <4>1, ReplacedIsOwn
    <3>2. CASE ~cached
      BY <2>4, <2>5, <3>2
    <3> QED
      BY <3>1, <3>2
  <2>7. store'.selected \in Subaccounts \cup {NoSubaccount}
    BY <2>6 DEF OwnStore, PageStores
  <2>8. [remembers EXCEPT ![w] = store'.selected] \in [Wallets -> Subaccounts \cup {NoSubaccount}]
    BY <2>2, <2>7
  <2>9. remembers' \in [Wallets -> Subaccounts \cup {NoSubaccount}]
    BY <2>2, <2>5, <2>8
  <2> QED
    BY <2>5, <2>6, <2>9, OwnStoreKeeps
<1> QED
  BY <1>2, <1>3

\* The user, the page, and creations that begin or fail.
LEMMA PageKeepsOwn ==
    ASSUME AccountsIInv,
           \/ LoadAccounts \/ StartCreation \/ CreationFails
           \/ SetSelectionLocked \/ \E a \in Subaccounts \cup {NoSubaccount} : SelectAccount(a)
    PROVE  AccountsIInv'
<1>1. store \in PageStores /\ store.scope \in Wallets \cup {NoWallet}
  BY StoreIsOwn DEF OwnStore, PageStores
<1>2. CASE LoadAccounts
  <2>1. OwnStore(store')
    BY <1>2, FreshIsOwn DEF LoadAccounts
  <2>2. NoCreation \in Creations /\ NoCreation.at = "idle"
    BY DEF NoCreation, Creations
  <2>3. found' \in [Wallets -> {NoList}]
    BY <1>2 DEF LoadAccounts
  <2>4. UNCHANGED <<depositor, remembers>> /\ creation' = NoCreation
    BY <1>2 DEF LoadAccounts
  <2>5. found' \in [Wallets -> (SUBSET Subaccounts) \cup {NoList}]
        /\ \A w \in Wallets : found'[w] = NoList
    BY <2>3
  <2>7. WebAccountsTypeOK'
    BY <2>1, <2>2, <2>4, <2>5 DEF AccountsIInv, WebAccountsTypeOK, OwnStore, PageStores, Creations
  <2>6. SelectionIsOwn' /\ (store'.scope = NoWallet => store'.accounts = {})
    BY <2>1, <2>4 DEF OwnStore, SelectionIsOwn, AccountsOf
  <2> QED
    BY <2>2, <2>4, <2>5, <2>6, <2>7 DEF AccountsIInv, Creations
<1>3. CASE StartCreation
  <2>1. PICK c \in Creations : c = [NoCreation EXCEPT !.at = "mining", !.wallet = store.scope]
    BY <1>1 DEF NoCreation, Creations
  <2>2. c.at = "mining" /\ c.wallet = store.scope /\ store.scope # NoWallet /\ creation' = c
    BY <1>3, <2>1 DEF StartCreation, NoCreation
  <2>3. c.wallet \in Wallets
    BY <1>1, <2>2
  <2>4. UNCHANGED <<depositor, store, remembers, found>>
    BY <1>3 DEF StartCreation
  <2> QED
    BY <2>2, <2>3, <2>4 DEF AccountsIInv, WebAccountsTypeOK, SelectionIsOwn, AccountsOf, Creations
<1>4. CASE CreationFails
  <2>1. /\ creation' = NoCreation /\ NoCreation \in Creations /\ NoCreation.at = "idle"
        /\ UNCHANGED <<depositor, store, remembers, found>>
    BY <1>4 DEF CreationFails, NoCreation, Creations
  <2> QED
    BY <2>1 DEF AccountsIInv, WebAccountsTypeOK, SelectionIsOwn, AccountsOf, Creations
<1>5. CASE SetSelectionLocked
  <2>1. PICK s \in PageStores : s = [store EXCEPT !.locked = ~store.locked]
    BY <1>1 DEF PageStores
  <2>2. /\ s.scope = store.scope /\ s.accounts = store.accounts /\ s.selected = store.selected
        /\ store' = s
    BY <1>1, <1>5, <2>1 DEF PageStores, SetSelectionLocked
  <2>3. OwnStore(store')
    BY <2>2, StoreIsOwn DEF OwnStore
  <2> QED
    BY <1>5, <2>3, OwnStoreKeeps DEF SetSelectionLocked, AccountsIInv, WebAccountsTypeOK
<1>6. CASE \E a \in Subaccounts \cup {NoSubaccount} : SelectAccount(a)
  <2>1. PICK a \in Subaccounts \cup {NoSubaccount} : SelectAccount(a)
    BY <1>6
  <2>2. PICK s \in PageStores : s = [store EXCEPT !.selected = a, !.remembered = a]
    BY <1>1 DEF PageStores
  <2>3. s.scope = store.scope /\ s.accounts = store.accounts /\ s.selected = a
    BY <1>1, <2>2 DEF PageStores
  <2>4. OwnStore(s)
    BY <2>1, <2>3, StoreIsOwn DEF OwnStore, SelectAccount
  <2>5. StoreChosen(store.scope, s) /\ UNCHANGED <<depositor, found, creation>>
    BY <2>1, <2>2 DEF SelectAccount
  <2> QED
    BY <2>4, <2>5, ChosenIsRemembered, OwnStoreKeeps
<1> QED
  BY <1>2, <1>3, <1>4, <1>5, <1>6

\* A creation ends, perhaps after the wallet was switched.
LEMMA CreatedKeepsOwn ==
    ASSUME AccountsIInv, CreationValidated
    PROVE  AccountsIInv'
<1>1. creation.wallet \in Wallets /\ creation.id \in AccountsOf(creation.wallet)
  BY DEF CreationValidated, AccountsIInv
<1>2. /\ StoreChosen(creation.wallet, Upserted(store, creation.wallet, creation.id))
      /\ creation' = NoCreation /\ UNCHANGED <<depositor, found>>
  BY DEF CreationValidated
<1>3. OwnStore(Upserted(store, creation.wallet, creation.id))
  BY <1>1, StoreIsOwn, UpsertedIsOwn
<1>4. OwnStore(store') /\ remembers' \in [Wallets -> Subaccounts \cup {NoSubaccount}]
  BY <1>2, <1>3, ChosenIsRemembered
<1>5. NoCreation \in Creations /\ NoCreation.at = "idle"
  BY DEF NoCreation, Creations
<1> QED
  BY <1>2, <1>4, <1>5
     DEF AccountsIInv, WebAccountsTypeOK, SelectionIsOwn, OwnStore, PageStores, AccountsOf, Creations

\* A first load, whatever storage holds.
LEMMA AccountsInitial == WebAccountsInit => AccountsIInv
<1> SUFFICES ASSUME WebAccountsInit PROVE AccountsIInv
  OBVIOUS
<1>1. OwnStore(store)
  BY FreshIsOwn DEF WebAccountsInit
<1>2. NoCreation \in Creations /\ NoCreation.at = "idle"
  BY DEF NoCreation, Creations
<1>3. found \in [Wallets -> {NoList}] /\ creation = NoCreation
  BY DEF WebAccountsInit
<1>4. /\ depositor \in [Subaccounts -> Wallets \cup {NoWallet}]
      /\ remembers \in [Wallets -> Subaccounts \cup {NoSubaccount}]
  BY DEF WebAccountsInit
<1>5. found \in [Wallets -> (SUBSET Subaccounts) \cup {NoList}]
      /\ \A w \in Wallets : found[w] = NoList
  BY <1>3
<1>6. WebAccountsTypeOK
  BY <1>1, <1>2, <1>3, <1>4, <1>5 DEF WebAccountsTypeOK, OwnStore, PageStores, Creations
<1> QED
  BY <1>1, <1>2, <1>3, <1>5, <1>6 DEF AccountsIInv, SelectionIsOwn, OwnStore, Creations

\* The page lists only subaccounts of the connected wallet, and the one it
\* trades with is among them, for any number of wallets and subaccounts.
THEOREM SelectionsAreOwn == WebAccountsSpec => [](WebAccountsTypeOK /\ SelectionIsOwn)
<1>1. WebAccountsInit => AccountsIInv
  BY AccountsInitial
<1>2. AccountsIInv /\ [WebAccountsNext]_webAccountVars => AccountsIInv'
  <2>1. AccountsIInv /\ UNCHANGED webAccountVars => AccountsIInv'
    BY DEF AccountsIInv, WebAccountsTypeOK, SelectionIsOwn, AccountsOf, webAccountVars
  <2> QED
    BY <2>1, ChainKeepsOwn, QueriesKeepOwn, ListsKeepOwn, HooksKeepOwn, PageKeepsOwn,
       CreatedKeepsOwn DEF WebAccountsNext
<1>3. AccountsIInv => WebAccountsTypeOK /\ SelectionIsOwn
  BY DEF AccountsIInv
<1> QED
  BY <1>1, <1>2, <1>3, PTL DEF WebAccountsSpec

-----------------------------------------------------------------------------
(* Withdrawals. *)

\* What the hook holds, and the requests for a status.
PagePhases == Locked \cup {"idle", "ready", "done", "failed"}
Pages == [active : Withdrawals \cup {NoWithdrawal}, prepared : Withdrawals \cup {NoWithdrawal},
          phase : PagePhases]

StatusRequests == [op : Withdrawals, held : BOOLEAN,
                   answer : {"awaited", "refreshing"} \cup Unsettled \cup Ended]

\* The variables and their values.
WithdrawTypes ==
    /\ status \in [Withdrawals -> {"none"} \cup Unsettled \cup Ended]
    /\ late \subseteq Withdrawals
    /\ reply \in {"none", "sent"} \cup Unsettled \cup Ended
    /\ slot \in Withdrawals \cup {NoWithdrawal}
    /\ page \in Pages
    /\ busy \in {"no", "preparing", "wallet", "submitting", "refreshing"}
    /\ busy \in {"wallet", "submitting", "refreshing"} => page.prepared # NoWithdrawal
    /\ reply # "none" <=> busy = "submitting"
    /\ gets \subseteq StatusRequests
    /\ overtaken \in BOOLEAN

\* The engine has a record of w.
Recorded(w) == w # NoWithdrawal => status[w] # "none"

\* What is said of an outcome is true.
TruthfulAnswer(g) == /\ g.answer \in Ended => status[g.op] = g.answer
                     /\ g.answer = "refreshing" => status[g.op] = "confirmed"

\* What the page, storage, requests and submissions speak of, the engine has a
\* record of, and whoever knows an outcome knows the right one.
WithdrawRecorded ==
    /\ \A w \in late : Recorded(w)
    /\ Recorded(slot) /\ Recorded(page.active) /\ Recorded(page.prepared)
    /\ \A g \in gets : Recorded(g.op) /\ TruthfulAnswer(g)
    /\ reply \in Ended => status[page.prepared] = reply

\* What the wallet signs is stored, or is over; the withdrawal that is
\* submitted was not on its way already; and one that was answered "prepared"
\* was refused for good.
SigningOK ==
    /\ busy = "wallet" => slot = page.prepared \/ status[page.prepared] \in Ended
    /\ busy = "submitting" => ~(status[page.prepared] = "prepared" /\ page.prepared \in late)
    /\ reply = "prepared" => ~MayExecute(page.prepared)

\* The page follows v: it is stored and active, and either its submission is
\* waited for, or the form is locked and no request is about another one that
\* the page could mistake for its own.
Followed(v) ==
    /\ slot = v /\ page.active = v
    /\ \/ busy = "submitting" /\ page.prepared = v
       \/ /\ busy = "no" /\ page.phase \in Locked
          /\ page.prepared = v \/ (page.prepared = NoWithdrawal /\ \A g \in gets : g.op = v)

\* A withdrawal that may be executed is followed, unless an answer has been
\* overtaken.
WithdrawIInv ==
    /\ WithdrawTypes
    /\ WithdrawRecorded
    /\ ~overtaken => SigningOK /\ \A v \in Withdrawals : MayExecute(v) => Followed(v)

\* Fields of the page after an update.
LEMMA WithdrawValues ==
    /\ NoWithdrawal \notin Withdrawals
    /\ \A q : q \in Pages => q.active \in Withdrawals \cup {NoWithdrawal}
    /\ \A q : q \in Pages => q.prepared \in Withdrawals \cup {NoWithdrawal}
    /\ \A q : q \in Pages => q.phase \in PagePhases
  BY WebWithdrawAssumption DEF Pages

\* The updates of a page and of a request.
AtPhase(q, phase) == [q EXCEPT !.phase = phase]
With(q, a, phase) == [q EXCEPT !.active = a, !.phase = phase]
Answered(g, x) == [g EXCEPT !.answer = x]

LEMMA PageUpdates ==
    /\ \A q \in Pages : \A phase \in PagePhases :
          /\ AtPhase(q, phase) \in Pages
          /\ AtPhase(q, phase).active = q.active /\ AtPhase(q, phase).prepared = q.prepared
          /\ AtPhase(q, phase).phase = phase
    /\ \A q \in Pages : \A a \in Withdrawals \cup {NoWithdrawal} : \A phase \in PagePhases :
          /\ With(q, a, phase) \in Pages
          /\ With(q, a, phase).active = a /\ With(q, a, phase).prepared = q.prepared
          /\ With(q, a, phase).phase = phase
  BY DEF Pages, AtPhase, With

\* The page after a load.
LEMMA IdleTyped ==
    /\ IdlePage \in Pages /\ IdlePage.active = NoWithdrawal /\ IdlePage.prepared = NoWithdrawal
    /\ \A w \in Withdrawals : LET q == With(IdlePage, w, "unknown")
                              IN  /\ q \in Pages /\ q.active = w /\ q.prepared = NoWithdrawal
                                  /\ q.phase = "unknown"
<1>1. /\ IdlePage \in Pages
      /\ IdlePage.active = NoWithdrawal /\ IdlePage.prepared = NoWithdrawal
  BY DEF IdlePage, Pages, PagePhases
<1>2. "unknown" \in PagePhases
  BY DEF Locked, PagePhases
<1> QED
  BY <1>1, <1>2, PageUpdates

\* A new request, and one whose answer moves on.
LEMMA RequestsTyped ==
    /\ \A w \in Withdrawals : \A held \in BOOLEAN :
          /\ Get(w, held) \in StatusRequests
          /\ Get(w, held).op = w /\ Get(w, held).answer = "awaited"
    /\ \A g \in StatusRequests : \A x \in {"awaited", "refreshing"} \cup Unsettled \cup Ended :
          /\ Answered(g, x) \in StatusRequests
          /\ Answered(g, x).op = g.op /\ Answered(g, x).answer = x
  BY DEF Get, Answered, StatusRequests

\* A request that is new knows no outcome.
LEMMA AwaitedIsTruthful ==
    ASSUME NEW h, h.answer = "awaited"
    PROVE  TruthfulAnswer(h)
  BY DEF TruthfulAnswer, Ended

\* The engine's record of a withdrawal moves towards its end, and what is on its
\* way to the engine gets less.
LEMMA EngineKeepsFollowed ==
    ASSUME WithdrawIInv,
           EngineHandles \/ \E w \in Withdrawals : EngineHandlesLate(w) \/ EngineResolves(w)
    PROVE  WithdrawIInv'
<1>1. /\ UNCHANGED <<slot, page, busy, gets, overtaken>>
      /\ late' \subseteq late
      /\ \/ reply' = reply
         \/ reply = "sent" /\ reply' = status'[page.prepared]
  BY DEF EngineHandles, EngineHandlesLate, EngineResolves
<1>2. /\ status \in [Withdrawals -> {"none"} \cup Unsettled \cup Ended]
      /\ late \subseteq Withdrawals /\ page \in Pages
  BY DEF WithdrawIInv, WithdrawTypes
<1>3. reply # "none" => busy = "submitting" /\ page.prepared \in Withdrawals
  BY WithdrawValues DEF WithdrawIInv, WithdrawTypes
<1>4. \E w \in Withdrawals :
         \/ status' = status
         \/ /\ status[w] = "prepared" /\ w \in InFlight
            /\ status' = [status EXCEPT ![w] = "live"]
         \/ status[w] = "live" /\ \E s \in {"confirmed", "failed"} : status' = [status EXCEPT ![w] = s]
         \/ status[w] = "prepared" /\ status' = [status EXCEPT ![w] = "failed"]
  <2>1. ASSUME NEW w \in Withdrawals, w \in InFlight, Submitted(w)
        PROVE  status' = status \/ /\ status[w] = "prepared"
                                   /\ status' = [status EXCEPT ![w] = "live"]
    <3>1. [status EXCEPT ![w] = status[w]] = status
      BY <1>2
    <3> QED
      BY <2>1, <3>1 DEF Submitted
  <2>2. CASE EngineHandles
    <3>1. page.prepared \in Withdrawals /\ page.prepared \in InFlight
      BY <1>3, <2>2 DEF EngineHandles, InFlight
    <3> QED
      BY <2>1, <2>2, <3>1 DEF EngineHandles
  <2>3. CASE \E w \in Withdrawals : EngineHandlesLate(w)
    BY <2>1, <2>3 DEF EngineHandlesLate, InFlight
  <2>4. CASE \E w \in Withdrawals : EngineResolves(w)
    BY <2>4 DEF EngineResolves
  <2> QED
    BY <2>2, <2>3, <2>4
<1>5. /\ status' \in [Withdrawals -> {"none"} \cup Unsettled \cup Ended]
      /\ \A v \in Withdrawals :
            /\ status'[v] = "none" => status[v] = "none"
            /\ status[v] \in Ended => status'[v] = status[v]
            /\ status'[v] = "live" => status[v] = "live" \/ (status[v] = "prepared" /\ v \in InFlight)
            /\ status'[v] = "prepared" => status[v] = "prepared"
  BY <1>2, <1>4 DEF Ended, Unsettled
<1>6. status' \in [Withdrawals -> {"none"} \cup Unsettled \cup Ended]
  BY <1>5
<1>7. InFlight' \subseteq InFlight
  BY <1>1 DEF InFlight
<1>8. \A v \in Withdrawals : MayExecute(v)' => MayExecute(v)
  BY <1>5, <1>7 DEF MayExecute
<1>9. reply' \in {"none", "sent"} \cup Unsettled \cup Ended
  <2>1. CASE reply' = reply
    BY <2>1 DEF WithdrawIInv, WithdrawTypes
  <2>2. CASE reply = "sent" /\ reply' = status'[page.prepared]
    BY <1>3, <1>6, <2>2
  <2> QED
    BY <1>1, <2>1, <2>2
<1>10. WithdrawTypes'
  <2>1. reply' # "none" <=> reply # "none"
    <3>1. page.prepared \in Withdrawals => status[page.prepared] # "none"
      BY WithdrawValues DEF WithdrawIInv, WithdrawRecorded, Recorded
    <3> QED
      BY <1>1, <1>3, <1>5, <3>1
  <2> QED
    BY <1>1, <1>2, <1>6, <1>9, <2>1 DEF WithdrawIInv, WithdrawTypes
<1>11. \A v \in Withdrawals \cup {NoWithdrawal} : Recorded(v) => Recorded(v)'
  BY <1>5 DEF Recorded
<1>12. WithdrawRecorded'
  <2>1. \A w \in late' : Recorded(w)'
    BY <1>1, <1>2, <1>11 DEF WithdrawIInv, WithdrawRecorded
  <2>2. Recorded(slot)' /\ Recorded(page.active)' /\ Recorded(page.prepared)'
    <3>1. slot \in Withdrawals \cup {NoWithdrawal}
      BY DEF WithdrawIInv, WithdrawTypes
    <3>2. slot' = slot /\ page'.active = page.active /\ page'.prepared = page.prepared
      BY <1>1
    <3>3. Recorded(slot)' /\ Recorded(page.active)' /\ Recorded(page.prepared)'
      BY <1>2, <1>5, <3>1, <3>2, WithdrawValues DEF WithdrawIInv, WithdrawRecorded, Recorded
    <3> QED
      BY <3>3
  <2>3. \A g \in gets' : Recorded(g.op)' /\ TruthfulAnswer(g)'
    <3> SUFFICES ASSUME NEW g \in gets PROVE Recorded(g.op)' /\ TruthfulAnswer(g)'
      BY <1>1
    <3>1. g.op \in Withdrawals
      BY DEF WithdrawIInv, WithdrawTypes, StatusRequests
    <3>2. Recorded(g.op) /\ TruthfulAnswer(g)
      BY DEF WithdrawIInv, WithdrawRecorded
    <3> QED
      BY <1>5, <3>1, <3>2 DEF Recorded, TruthfulAnswer, Ended
  <2>4. reply' \in Ended => status'[page'.prepared] = reply'
    <3>1. CASE reply' = reply
      <4> SUFFICES ASSUME reply \in Ended PROVE status'[page.prepared] = reply
        BY <1>1, <3>1
      <4>1. status[page.prepared] = reply
        BY DEF WithdrawIInv, WithdrawRecorded
      <4> QED
        BY <1>3, <1>5, <4>1 DEF Ended
    <3>2. CASE reply = "sent" /\ reply' = status'[page.prepared]
      BY <1>1, <3>2
    <3> QED
      BY <1>1, <3>1, <3>2
  <2> QED
    BY <2>1, <2>2, <2>3, <2>4 DEF WithdrawRecorded
<1>13. ASSUME ~overtaken'
       PROVE  SigningOK' /\ \A v \in Withdrawals : MayExecute(v)' => Followed(v)'
  <2>1. SigningOK /\ \A v \in Withdrawals : MayExecute(v) => Followed(v)
    BY <1>1, <1>13 DEF WithdrawIInv
  <2>2. \A v \in Withdrawals : Followed(v) => Followed(v)'
    BY <1>1 DEF Followed
  <2>3. busy = "wallet" => slot = page.prepared \/ status'[page.prepared] \in Ended
    <3>1. busy = "wallet" => page.prepared \in Withdrawals
      BY WithdrawValues DEF WithdrawIInv, WithdrawTypes
    <3> QED
      BY <1>5, <2>1, <3>1 DEF SigningOK
  <2>4. busy = "submitting" => ~(status'[page.prepared] = "prepared" /\ page.prepared \in late')
    BY <1>1, <1>2, <1>5, <2>1 DEF SigningOK
  <2>5. ASSUME reply' = "prepared" PROVE ~MayExecute(page.prepared)'
    <3>1. page.prepared \in Withdrawals /\ busy = "submitting"
      BY <1>1, <1>3, <2>5
    <3>2. CASE reply' = reply
      BY <1>1, <1>8, <2>1, <2>5, <3>1, <3>2 DEF SigningOK, MayExecute
    <3>3. CASE reply = "sent" /\ reply' = status'[page.prepared]
      <4>1. status'[page.prepared] = "prepared"
        BY <2>5, <3>3
      <4>2. InFlight' = late'
        BY <2>5 DEF InFlight
      <4>3. page.prepared \notin late'
        BY <2>4, <3>1, <4>1
      <4> QED
        BY <1>1, <4>1, <4>2, <4>3 DEF MayExecute
    <3> QED
      BY <1>1, <3>2, <3>3
  <2>6. SigningOK'
    BY <1>1, <2>3, <2>4, <2>5 DEF SigningOK
  <2> QED
    BY <1>8, <2>1, <2>2, <2>6
<1> QED
  BY <1>10, <1>12, <1>13 DEF WithdrawIInv

\* Under way to the engine are withdrawals, and the page's while it waits.
LEMMA InFlightTyped ==
    ASSUME WithdrawIInv
    PROVE  InFlight \subseteq Withdrawals
<1>1. late \subseteq Withdrawals /\ (reply = "sent" => page.prepared \in Withdrawals)
  BY WithdrawValues DEF WithdrawIInv, WithdrawTypes
<1> QED
  BY <1>1 DEF InFlight

\* A step of the page or of its requests that sends nothing to the engine.
LEMMA PageStepKeeps ==
    ASSUME WithdrawIInv, status' = status, late' \in SUBSET InFlight,
           NEW q \in Pages, page' = q, Recorded(q.active),
           q.prepared \in {page.prepared, NoWithdrawal},
           slot' \in Withdrawals \cup {NoWithdrawal}, Recorded(slot'),
           busy' \in {"no", "preparing", "wallet", "submitting", "refreshing"},
           busy' \in {"wallet", "submitting", "refreshing"} => q.prepared # NoWithdrawal,
           \/ reply' = "none" /\ busy' # "submitting"
           \/ reply' = reply /\ late' = late /\ busy' = busy /\ q.prepared = page.prepared,
           gets' \in SUBSET StatusRequests,
           \A g \in gets' : Recorded(g.op) /\ TruthfulAnswer(g),
           overtaken' \in BOOLEAN, overtaken => overtaken',
           ~overtaken' => /\ busy' = "wallet" => slot' = q.prepared \/ status[q.prepared] \in Ended
                          /\ \A v \in Withdrawals : MayExecute(v)' => Followed(v)'
    PROVE  WithdrawIInv'
<1>1. WithdrawTypes'
  <2>1. late' \subseteq Withdrawals
    BY InFlightTyped
  <2>2. reply' \in {"none", "sent"} \cup Unsettled \cup Ended /\ (reply' # "none" <=> busy' = "submitting")
    BY DEF WithdrawIInv, WithdrawTypes
  <2>3. status' \in [Withdrawals -> {"none"} \cup Unsettled \cup Ended]
    BY DEF WithdrawIInv, WithdrawTypes
  <2> QED
    BY <2>1, <2>2, <2>3 DEF WithdrawTypes
<1>2. WithdrawRecorded'
  <2>1. \A w \in InFlight : Recorded(w)
    BY DEF InFlight, WithdrawIInv, WithdrawRecorded
  <2>2. \A w \in late' : Recorded(w)'
    BY <2>1 DEF Recorded
  <2>3. Recorded(slot)' /\ Recorded(page.active)' /\ Recorded(page.prepared)'
    BY DEF WithdrawIInv, WithdrawRecorded, Recorded
  <2>4. \A g \in gets' : Recorded(g.op)' /\ TruthfulAnswer(g)'
    BY DEF Recorded, TruthfulAnswer
  <2>5. reply' \in Ended => status'[page'.prepared] = reply'
    BY DEF WithdrawIInv, WithdrawRecorded, Ended
  <2> QED
    BY <2>2, <2>3, <2>4, <2>5 DEF WithdrawRecorded
<1>3. ~overtaken' => SigningOK'
  <2> SUFFICES ASSUME ~overtaken' PROVE SigningOK'
    OBVIOUS
  <2>1. SigningOK
    BY DEF WithdrawIInv
  <2>2. CASE reply' = "none" /\ busy' # "submitting"
    BY <2>2 DEF SigningOK
  <2>3. CASE reply' = reply /\ late' = late /\ busy' = busy /\ q.prepared = page.prepared
    <3>1. InFlight' = InFlight
      BY <2>3 DEF InFlight
    <3>2. MayExecute(page.prepared)' <=> MayExecute(page.prepared)
      BY <2>3, <3>1 DEF MayExecute
    <3> QED
      BY <2>1, <2>3, <3>2 DEF SigningOK
  <2> QED
    BY <2>2, <2>3
<1> QED
  BY <1>1, <1>2, <1>3 DEF WithdrawIInv

\* Nothing may be executed while the form is free, or the page busy with
\* something else than a submission.
LEMMA FreeIsClear ==
    ASSUME WithdrawIInv, ~overtaken,
           (busy = "no" /\ page.phase \notin Locked) \/ busy \in {"preparing", "wallet", "refreshing"}
    PROVE  \A v \in Withdrawals : ~MayExecute(v)
  BY DEF WithdrawIInv, Followed

\* A step of the page alone, then.
LEMMA FreePageKeeps ==
    ASSUME WithdrawIInv,
           (busy = "no" /\ page.phase \notin Locked) \/ busy \in {"preparing", "wallet", "refreshing"},
           UNCHANGED <<status, late, reply, gets, overtaken>>,
           NEW q \in Pages, page' = q, q.active \in {page.active, NoWithdrawal},
           q.prepared \in {page.prepared, NoWithdrawal},
           slot' \in {slot, NoWithdrawal, page.prepared},
           busy' \in {"no", "preparing", "wallet"},
           busy' = "wallet" => q.prepared # NoWithdrawal /\ slot' = q.prepared
    PROVE  WithdrawIInv'
<1>1. /\ reply = "none" /\ late \in SUBSET InFlight
      /\ page \in Pages /\ slot \in Withdrawals \cup {NoWithdrawal}
      /\ gets \in SUBSET StatusRequests /\ overtaken \in BOOLEAN
  BY DEF WithdrawIInv, WithdrawTypes, InFlight
<1>2. Recorded(q.active) /\ Recorded(slot') /\ \A g \in gets : Recorded(g.op) /\ TruthfulAnswer(g)
  BY DEF WithdrawIInv, WithdrawRecorded, Recorded
<1>3. slot' \in Withdrawals \cup {NoWithdrawal}
  BY <1>1, WithdrawValues
<1>4. ~overtaken' => \A v \in Withdrawals : ~MayExecute(v)'
  <2>1. InFlight' = InFlight
    BY <1>1 DEF InFlight
  <2> QED
    BY <2>1, FreeIsClear DEF MayExecute
<1> QED
  BY <1>1, <1>2, <1>3, <1>4, PageStepKeeps

\* The form: review, prepare, sign, refuse, leave; and the balances are read
\* after a submission that was answered with its end.
LEMMA FormKeepsFollowed ==
    ASSUME WithdrawIInv,
           \/ StartPrepare \/ PrepareFails \/ LeaveForm
           \/ StartSigning \/ WalletRefuses \/ SubmitRefreshed
    PROVE  WithdrawIInv'
<1>1. page \in Pages /\ page.active \in Withdrawals \cup {NoWithdrawal}
  BY WithdrawValues DEF WithdrawIInv, WithdrawTypes
<1>2. /\ "ready" \notin Locked /\ "preparing" \in PagePhases /\ "signing" \in PagePhases
      /\ "failed" \in PagePhases /\ "ready" \in PagePhases /\ "done" \in PagePhases
  BY DEF Locked, PagePhases
<1> DEFINE Same(q) == q \in Pages /\ q.active = page.active /\ q.prepared = page.prepared
<1>9. /\ Same(page) /\ Same(AtPhase(page, "failed"))
      /\ Same(AtPhase(page, "ready")) /\ Same(AtPhase(page, "signing"))
  BY <1>1, <1>2, PageUpdates
<1>3. CASE StartPrepare
  <2>1. PICK q \in Pages : /\ q = [page EXCEPT !.prepared = NoWithdrawal, !.phase = "preparing"]
                           /\ q.active = page.active /\ q.prepared = NoWithdrawal
    <3>1. LET q == [page EXCEPT !.prepared = NoWithdrawal, !.phase = "preparing"]
          IN  q \in Pages /\ q.active = page.active /\ q.prepared = NoWithdrawal
      BY <1>1, <1>2 DEF Pages
    <3> QED
      BY <3>1
  <2> QED
    BY <1>3, <2>1, FreePageKeeps DEF StartPrepare, engineVars
<1>4. CASE PrepareFails
  <2>1. page' = AtPhase(page, "failed")
    BY <1>4 DEF PrepareFails, AtPhase
  <2>2. page' \in Pages /\ page'.active = page.active /\ page'.prepared = page.prepared
    BY <1>9, <2>1
  <2> QED
    BY <1>4, <2>2, FreePageKeeps DEF PrepareFails, engineVars
<1>5. CASE LeaveForm
  BY <1>5, IdleTyped, FreePageKeeps DEF LeaveForm, engineVars
<1>6. CASE StartSigning
  <2>1. page' \in {page, AtPhase(page, "failed"), AtPhase(page, "signing")}
    BY <1>6 DEF StartSigning, AtPhase
  <2>2. page' \in Pages /\ page'.active = page.active /\ page'.prepared = page.prepared
    BY <1>9, <2>1
  <2> QED
    BY <1>2, <1>6, <2>2, FreePageKeeps DEF StartSigning, Clears, engineVars
<1>7. CASE WalletRefuses
  <2>1. page' \in {AtPhase(page, "failed"), AtPhase(page, "ready")}
    BY <1>7 DEF WalletRefuses, AtPhase
  <2>2. page' \in Pages /\ page'.active = page.active /\ page'.prepared = page.prepared
    BY <1>9, <2>1
  <2> QED
    BY <1>7, <2>2, FreePageKeeps DEF WalletRefuses, Clears, engineVars
<1>8. CASE SubmitRefreshed
  <2>1. page' = With(page, NoWithdrawal, "done")
    BY <1>8 DEF SubmitRefreshed, Forgets, With
  <2>2. NoWithdrawal \in Withdrawals \cup {NoWithdrawal}
    OBVIOUS
  <2>3. page' \in Pages /\ page'.active = NoWithdrawal /\ page'.prepared = page.prepared
    <3>1. \A phase \in PagePhases :
             LET q == With(page, NoWithdrawal, phase)
             IN  q \in Pages /\ q.active = NoWithdrawal /\ q.prepared = page.prepared
      BY <1>1, <2>2, PageUpdates
    <3> QED
      BY <1>2, <2>1, <3>1
  <2> QED
    BY <1>8, <2>3, FreePageKeeps DEF SubmitRefreshed, Forgets, Clears, engineVars
<1> QED
  BY <1>3, <1>4, <1>5, <1>6, <1>7, <1>8

\* A new withdrawal, when no old one may be executed.
LEMMA PreparedKeepsFollowed ==
    ASSUME WithdrawIInv, NEW w \in Withdrawals, Prepared(w)
    PROVE  WithdrawIInv'
<1>1. /\ busy = "preparing" /\ status[w] = "none" /\ busy' = "no"
      /\ UNCHANGED <<late, reply, slot, gets, overtaken>>
  BY DEF Prepared
<1>2. /\ page' \in Pages /\ page'.active = w /\ page'.prepared = w
  BY DEF Prepared, Pages, PagePhases
<1>3. status \in [Withdrawals -> {"none"} \cup Unsettled \cup Ended] /\ reply = "none"
  BY <1>1 DEF WithdrawIInv, WithdrawTypes
<1>4. status' = [status EXCEPT ![w] = "prepared"]
  BY DEF Prepared
<1>5. /\ status' \in [Withdrawals -> {"none"} \cup Unsettled \cup Ended]
      /\ \A v \in Withdrawals \ {w} : status'[v] = status[v]
      /\ status'[w] = "prepared"
  BY <1>3, <1>4 DEF Unsettled
<1>6. WithdrawTypes'
  BY <1>1, <1>2, <1>3, <1>5 DEF WithdrawIInv, WithdrawTypes
<1>7. \A v \in Withdrawals \cup {NoWithdrawal} : Recorded(v) => Recorded(v)' /\ v # w
  BY <1>1, <1>5, WithdrawValues DEF Recorded
<1>8. \A g \in gets : g.op \in Withdrawals /\ g.op # w /\ Recorded(g.op)' /\ TruthfulAnswer(g)
  BY <1>7 DEF WithdrawIInv, WithdrawTypes, WithdrawRecorded, StatusRequests
<1>9. \A g \in gets : TruthfulAnswer(g)'
  BY <1>5, <1>8 DEF TruthfulAnswer
<1>10. WithdrawRecorded'
  <2>1. \A v \in late' : Recorded(v)'
    BY <1>1, <1>7 DEF WithdrawIInv, WithdrawTypes, WithdrawRecorded
  <2>2. Recorded(slot)'
    BY <1>1, <1>7 DEF WithdrawIInv, WithdrawTypes, WithdrawRecorded, Recorded
  <2>3. Recorded(page.active)' /\ Recorded(page.prepared)'
    BY <1>2, <1>5 DEF Recorded
  <2>4. reply' \notin Ended
    BY <1>1, <1>3 DEF Ended
  <2> QED
    BY <1>1, <1>8, <1>9, <2>1, <2>2, <2>3, <2>4 DEF WithdrawRecorded
<1>11. ASSUME ~overtaken'
       PROVE  SigningOK' /\ \A v \in Withdrawals : ~MayExecute(v)'
  <2>1. \A v \in Withdrawals : ~MayExecute(v)
    BY <1>1, <1>11, FreeIsClear
  <2>2. InFlight = late /\ InFlight' = late /\ w \notin late
    BY <1>1, <1>3, <1>7 DEF InFlight, WithdrawIInv, WithdrawTypes, WithdrawRecorded
  <2>3. \A v \in Withdrawals : ~MayExecute(v)'
    BY <1>5, <2>1, <2>2 DEF MayExecute
  <2>4. SigningOK'
    BY <1>1, <1>3 DEF SigningOK
  <2> QED
    BY <2>3, <2>4
<1> QED
  BY <1>6, <1>10, <1>11 DEF WithdrawIInv

\* The one step after which a withdrawal may be executed that could not be before.
LEMMA SignatureKeepsFollowed ==
    ASSUME WithdrawIInv, WalletSigns
    PROVE  WithdrawIInv'
<1>1. page \in Pages /\ page.prepared \in Withdrawals /\ page.prepared # NoWithdrawal
  BY WithdrawValues DEF WalletSigns, WithdrawIInv, WithdrawTypes
<1>2. PICK p \in Withdrawals : p = page.prepared /\ p # NoWithdrawal
  BY <1>1
<1>3. page' = With(page, p, "submitting") /\ "submitting" \in PagePhases
  BY <1>2 DEF WalletSigns, With, PagePhases, Locked
<1>4. page' \in Pages /\ page'.active = p /\ page'.prepared = p
  BY <1>1, <1>2, <1>3, PageUpdates
<1>5. /\ busy = "wallet" /\ busy' = "submitting" /\ reply' = "sent"
      /\ UNCHANGED <<status, late, slot, gets, overtaken>>
  BY DEF WalletSigns, engineVars
<1>6. WithdrawTypes'
  BY <1>2, <1>4, <1>5 DEF WithdrawIInv, WithdrawTypes
<1>7. WithdrawRecorded'
  <2>1. /\ Recorded(slot) /\ Recorded(p)
        /\ \A v \in late : Recorded(v)
        /\ \A g \in gets : Recorded(g.op) /\ TruthfulAnswer(g)
    BY <1>2 DEF WithdrawIInv, WithdrawRecorded
  <2> QED
    BY <1>4, <1>5, <2>1 DEF WithdrawRecorded, Recorded, TruthfulAnswer, Ended
<1>8. ASSUME ~overtaken'
      PROVE  SigningOK' /\ \A v \in Withdrawals : MayExecute(v)' => Followed(v)'
  <2>1. slot = p \/ status[p] \in Ended
    BY <1>2, <1>5, <1>8 DEF WithdrawIInv, SigningOK
  <2>2. \A v \in Withdrawals : ~MayExecute(v)
    BY <1>5, <1>8, FreeIsClear
  <2>3. InFlight' \subseteq late \cup {p} /\ late \subseteq InFlight
    BY <1>4, <1>5 DEF InFlight
  <2>4. \A v \in Withdrawals : MayExecute(v)' => v = p /\ slot = p
    BY <1>5, <2>1, <2>2, <2>3 DEF MayExecute, Ended
  <2>5. \A v \in Withdrawals : MayExecute(v)' => Followed(v)'
    BY <1>4, <1>5, <2>4 DEF Followed
  <2>6. ~(status[p] = "prepared" /\ p \in late)
    BY <2>2, <2>3 DEF MayExecute
  <2>7. SigningOK'
    BY <1>4, <1>5, <2>6 DEF SigningOK
  <2> QED
    BY <2>5, <2>7
<1> QED
  BY <1>6, <1>7, <1>8 DEF WithdrawIInv

\* A status request reads the record.
LEMMA ReadKeepsFollowed ==
    ASSUME WithdrawIInv, NEW g \in gets, EngineReads(g)
    PROVE  WithdrawIInv'
<1>1. PICK q \in Pages : q = page
  BY DEF WithdrawIInv, WithdrawTypes
<1>2. /\ g \in StatusRequests /\ gets \in SUBSET StatusRequests /\ g.op \in Withdrawals
      /\ Recorded(g.op) /\ status \in [Withdrawals -> {"none"} \cup Unsettled \cup Ended]
      /\ \A h \in gets : Recorded(h.op) /\ TruthfulAnswer(h)
  BY DEF WithdrawIInv, WithdrawTypes, WithdrawRecorded, StatusRequests
<1>3. status[g.op] \in Unsettled \cup Ended
  BY <1>2, WithdrawValues DEF Recorded
<1>4. /\ Answered(g, status[g.op]) \in StatusRequests
      /\ Answered(g, status[g.op]).op = g.op
      /\ Answered(g, status[g.op]).answer = status[g.op]
  BY <1>2, <1>3, RequestsTyped
<1>5. PICK h \in StatusRequests : h = Answered(g, status[g.op]) /\ h.op = g.op /\ h.answer = status[g.op]
  BY <1>4
<1>6. gets' = (gets \ {g}) \cup {h}
  BY <1>5 DEF EngineReads, Answered
<1>7. /\ UNCHANGED <<status, late, reply, slot, page, busy, overtaken>>
  BY DEF EngineReads, engineVars
<1>8. Recorded(h.op) /\ TruthfulAnswer(h)
  BY <1>2, <1>3, <1>5 DEF TruthfulAnswer, Unsettled, Ended
<1>9. /\ late \in SUBSET InFlight /\ busy \in {"no", "preparing", "wallet", "submitting", "refreshing"}
      /\ busy \in {"wallet", "submitting", "refreshing"} => q.prepared # NoWithdrawal
      /\ slot \in Withdrawals \cup {NoWithdrawal} /\ overtaken \in BOOLEAN
      /\ Recorded(q.active) /\ Recorded(slot)
  BY <1>1 DEF InFlight, WithdrawIInv, WithdrawTypes, WithdrawRecorded
<1>10. gets' \in SUBSET StatusRequests /\ \A i \in gets' : Recorded(i.op) /\ TruthfulAnswer(i)
  BY <1>2, <1>6, <1>8
<1>11. ASSUME ~overtaken'
       PROVE  /\ busy' = "wallet" => slot' = q.prepared \/ status[q.prepared] \in Ended
              /\ \A v \in Withdrawals : MayExecute(v)' => Followed(v)'
  <2>1. SigningOK /\ \A v \in Withdrawals : MayExecute(v) => Followed(v)
    BY <1>7, <1>11 DEF WithdrawIInv
  <2>2. \A v \in Withdrawals : MayExecute(v)' => MayExecute(v)
    BY <1>7 DEF MayExecute, InFlight
  <2>3. \A v \in Withdrawals : Followed(v) => Followed(v)'
    BY <1>5, <1>6, <1>7 DEF Followed
  <2> QED
    BY <1>1, <1>7, <2>1, <2>2, <2>3 DEF SigningOK
<1> QED
  BY <1>1, <1>7, <1>9, <1>10, <1>11, PageStepKeeps

\* What the hook makes of a status.
LEMMA StatusPhases ==
    /\ \A s \in Unsettled \cup Ended : PhaseForStatus(s) \in PagePhases
    /\ PhaseForStatus("live") = "confirming"
    /\ \A s \in Unsettled : \A held \in BOOLEAN : PhaseReconciled(s, held) \in PagePhases
    /\ \A held \in BOOLEAN : PhaseReconciled("live", held) = "confirming"
    /\ PhaseReconciled("prepared", FALSE) = "unknown"
    /\ "confirming" \in Locked /\ "unknown" \in Locked /\ "refreshing" \in Locked
    /\ "unknown" \in PagePhases /\ "refreshing" \in PagePhases
    /\ "failed" \in PagePhases /\ "done" \in PagePhases
  BY DEF PhaseForStatus, PhaseReconciled, PagePhases, Locked, Unsettled, Ended

\* The submission is answered: its withdrawal is over, refused for good, or
\* confirming and still followed.
LEMMA SubmissionAnswerKeepsFollowed ==
    ASSUME WithdrawIInv, SubmitAnswers
    PROVE  WithdrawIInv'
<1>1. /\ busy = "submitting" /\ reply # "sent" /\ reply' = "none"
      /\ UNCHANGED <<status, late, slot, gets, overtaken>>
  BY DEF SubmitAnswers, engineVars
<1>2. /\ page \in Pages /\ page.prepared \in Withdrawals /\ page.prepared # NoWithdrawal
      /\ reply \in Unsettled \cup Ended
  BY <1>1, WithdrawValues DEF WithdrawIInv, WithdrawTypes
<1>3. PICK phase \in PagePhases :
         /\ page' = AtPhase(page, phase)
         /\ reply = "confirmed" => busy' = "refreshing"
         /\ reply # "confirmed" => busy' = "no" /\ phase = PhaseForStatus(reply)
  BY <1>2, StatusPhases DEF SubmitAnswers, AtPhase
<1>4. PICK q \in Pages : /\ q = page' /\ q.active = page.active /\ q.prepared = page.prepared
                         /\ q.phase = phase
  BY <1>2, <1>3, PageUpdates
<1>5. /\ late \in SUBSET InFlight /\ busy' \in {"no", "refreshing"}
      /\ slot \in Withdrawals \cup {NoWithdrawal} /\ overtaken \in BOOLEAN
      /\ gets \in SUBSET StatusRequests /\ \A g \in gets : Recorded(g.op) /\ TruthfulAnswer(g)
      /\ Recorded(q.active) /\ Recorded(slot)
  BY <1>3, <1>4 DEF InFlight, WithdrawIInv, WithdrawTypes, WithdrawRecorded
<1>6. ASSUME ~overtaken', NEW v \in Withdrawals, MayExecute(v)'
      PROVE  Followed(v)'
  <2>1. MayExecute(v)
    BY <1>1, <1>6 DEF MayExecute, InFlight
  <2>2. slot = v /\ page.active = v /\ page.prepared = v
    BY <1>1, <1>6, <2>1 DEF WithdrawIInv, Followed
  <2>3. reply # "prepared"
    BY <1>1, <1>6, <2>1, <2>2 DEF WithdrawIInv, SigningOK
  <2>4. reply \notin Ended
    <3>1. status[v] \notin Ended
      BY <1>1, <1>6 DEF MayExecute, Ended
    <3> QED
      BY <2>2, <3>1 DEF WithdrawIInv, WithdrawRecorded
  <2>5. reply = "live"
    BY <1>2, <2>3, <2>4 DEF Unsettled
  <2>6. busy' = "no" /\ q.phase \in Locked
    BY <1>3, <1>4, <2>5, StatusPhases
  <2> QED
    BY <1>1, <1>4, <2>2, <2>6 DEF Followed
<1> QED
  BY <1>1, <1>2, <1>4, <1>5, <1>6, PageStepKeeps

\* The submission, or its answer, is lost: the page still follows it.
LEMMA SubmissionLossKeepsFollowed ==
    ASSUME WithdrawIInv, SubmitFails
    PROVE  WithdrawIInv'
<1>1. /\ busy \in {"submitting", "refreshing"} /\ busy' = "no" /\ reply' = "none"
      /\ late' \in {late, InFlight} /\ UNCHANGED <<status, slot, overtaken>>
      /\ page' = AtPhase(page, "unknown")
      /\ gets' = gets \cup {Get(page.prepared, TRUE)}
  BY DEF SubmitFails, AtPhase
<1>2. /\ page \in Pages /\ page.prepared \in Withdrawals /\ page.prepared # NoWithdrawal
  BY <1>1, WithdrawValues DEF WithdrawIInv, WithdrawTypes
<1>3. PICK q \in Pages : /\ q = page' /\ q.active = page.active /\ q.prepared = page.prepared
                         /\ q.phase = "unknown"
  <2>1. PICK phase \in PagePhases : phase = "unknown"
    BY StatusPhases
  <2> QED
    BY <1>1, <1>2, <2>1, PageUpdates
<1>4. PICK h \in StatusRequests : h = Get(page.prepared, TRUE) /\ h.op = page.prepared /\ h.answer = "awaited"
  BY <1>2, RequestsTyped
<1>5. /\ late' \in SUBSET InFlight
      /\ slot \in Withdrawals \cup {NoWithdrawal} /\ overtaken \in BOOLEAN
      /\ gets \in SUBSET StatusRequests /\ \A g \in gets : Recorded(g.op) /\ TruthfulAnswer(g)
      /\ Recorded(q.active) /\ Recorded(slot) /\ Recorded(h.op)
  BY <1>1, <1>3, <1>4 DEF InFlight, WithdrawIInv, WithdrawTypes, WithdrawRecorded
<1>6. gets' \in SUBSET StatusRequests /\ \A g \in gets' : Recorded(g.op) /\ TruthfulAnswer(g)
  BY <1>1, <1>4, <1>5, AwaitedIsTruthful
<1>7. ASSUME ~overtaken', NEW v \in Withdrawals, MayExecute(v)'
      PROVE  Followed(v)'
  <2>1. InFlight' \subseteq InFlight
    BY <1>1 DEF InFlight
  <2>2. MayExecute(v)
    BY <1>1, <1>7, <2>1 DEF MayExecute
  <2>3. slot = v /\ page.active = v /\ page.prepared = v
    BY <1>1, <1>7, <2>2 DEF WithdrawIInv, Followed
  <2> QED
    BY <1>1, <1>3, <2>3, StatusPhases DEF Followed
<1> QED
  BY <1>1, <1>2, <1>3, <1>5, <1>6, <1>7, PageStepKeeps

\* A poll asks for what the page follows.
LEMMA PollKeepsFollowed ==
    ASSUME WithdrawIInv, Poll
    PROVE  WithdrawIInv'
<1>1. /\ page.active # NoWithdrawal
      /\ gets' = gets \cup {Get(page.active, page.prepared # NoWithdrawal)}
      /\ UNCHANGED <<status, late, reply, slot, page, busy, overtaken>>
  BY DEF Poll, engineVars
<1>2. PICK q \in Pages : q = page /\ q.active \in Withdrawals
  BY <1>1, WithdrawValues DEF WithdrawIInv, WithdrawTypes
<1>3. PICK h \in StatusRequests : /\ h = Get(page.active, page.prepared # NoWithdrawal)
                                  /\ h.op = page.active /\ h.answer = "awaited"
  BY <1>2, RequestsTyped
<1>4. /\ late \in SUBSET InFlight /\ busy \in {"no", "preparing", "wallet", "submitting", "refreshing"}
      /\ busy \in {"wallet", "submitting", "refreshing"} => q.prepared # NoWithdrawal
      /\ slot \in Withdrawals \cup {NoWithdrawal} /\ overtaken \in BOOLEAN
      /\ gets \in SUBSET StatusRequests /\ \A g \in gets : Recorded(g.op) /\ TruthfulAnswer(g)
      /\ Recorded(q.active) /\ Recorded(slot)
  BY <1>2 DEF InFlight, WithdrawIInv, WithdrawTypes, WithdrawRecorded
<1>5. gets' \in SUBSET StatusRequests /\ \A g \in gets' : Recorded(g.op) /\ TruthfulAnswer(g)
  BY <1>1, <1>2, <1>3, <1>4, AwaitedIsTruthful
<1>6. ASSUME ~overtaken'
      PROVE  /\ busy' = "wallet" => slot' = q.prepared \/ status[q.prepared] \in Ended
             /\ \A v \in Withdrawals : MayExecute(v)' => Followed(v)'
  <2>1. SigningOK /\ \A v \in Withdrawals : MayExecute(v) => Followed(v)
    BY <1>1, <1>6 DEF WithdrawIInv
  <2>2. \A v \in Withdrawals : MayExecute(v)' => MayExecute(v)
    BY <1>1 DEF MayExecute, InFlight
  <2>3. \A v \in Withdrawals : Followed(v) => Followed(v)'
    BY <1>1, <1>3 DEF Followed
  <2> QED
    BY <1>1, <1>2, <2>1, <2>2, <2>3 DEF SigningOK
<1> QED
  BY <1>1, <1>2, <1>4, <1>5, <1>6, PageStepKeeps

\* What an answer in time is about: the withdrawal that the page follows, or the
\* one whose signature the wallet is asked for.
LEMMA AnswerInTime ==
    ASSUME WithdrawIInv, NEW g \in gets, ~overtaken, ~Overtaken(g)
    PROVE  /\ busy = "wallet" => g.op = page.prepared
           /\ \A v \in Withdrawals : MayExecute(v) =>
                 g.op = v /\ Followed(v) /\ ~(g.answer = "prepared" /\ g.held)
<1>1. g.op \in Withdrawals /\ NoWithdrawal \notin Withdrawals
  BY WithdrawValues DEF WithdrawIInv, WithdrawTypes, StatusRequests
<1>2. page.prepared \in {g.op, NoWithdrawal}
  BY DEF Overtaken
<1>3. busy = "wallet" => g.op = page.prepared
  BY <1>2 DEF WithdrawIInv, WithdrawTypes
<1>4. ASSUME NEW v \in Withdrawals, MayExecute(v)
      PROVE  g.op = v /\ Followed(v) /\ ~(g.answer = "prepared" /\ g.held)
  <2>1. Followed(v)
    BY <1>4 DEF WithdrawIInv
  <2>2. g.op = v
    BY <1>1, <1>2, <2>1 DEF Followed
  <2> QED
    BY <1>4, <2>1, <2>2 DEF Overtaken
<1> QED
  BY <1>3, <1>4

\* A status request is answered, or the balances were read after it.
LEMMA AnswerKeepsFollowed ==
    ASSUME WithdrawIInv, NEW g \in gets, GetAnswers(g) \/ Refreshed(g)
    PROVE  WithdrawIInv'
<1>1. /\ UNCHANGED <<status, late, reply, busy>> /\ AnswerApplied(g)
      /\ slot' \in {slot, NoWithdrawal, g.op}
  BY DEF GetAnswers, Refreshed, Forgets, Clears, Stores, engineVars
<1>2. /\ page \in Pages /\ g \in StatusRequests /\ g.op \in Withdrawals /\ g.held \in BOOLEAN
      /\ gets \in SUBSET StatusRequests /\ slot \in Withdrawals \cup {NoWithdrawal}
      /\ overtaken \in BOOLEAN /\ late \in SUBSET InFlight
      /\ busy \in {"no", "preparing", "wallet", "submitting", "refreshing"}
      /\ busy \in {"wallet", "submitting", "refreshing"} => page.prepared # NoWithdrawal
  BY DEF WithdrawIInv, WithdrawTypes, StatusRequests, InFlight
<1>3. /\ \A h \in gets : Recorded(h.op) /\ TruthfulAnswer(h)
      /\ Recorded(slot) /\ Recorded(page.active) /\ Recorded(NoWithdrawal) /\ Recorded(g.op)
  BY DEF WithdrawIInv, WithdrawRecorded, Recorded
<1>4. PICK q \in Pages :
         /\ page' = q /\ q.prepared = page.prepared
         /\ \/ /\ g.answer \in {"confirmed", "failed", "refreshing"}
               /\ q.active \in {page.active, NoWithdrawal}
            \/ /\ g.answer \in Unsettled
               /\ q.active = g.op /\ q.phase = PhaseReconciled(g.answer, g.held)
  <2>1. NoWithdrawal \in Withdrawals \cup {NoWithdrawal} /\ g.op \in Withdrawals \cup {NoWithdrawal}
    BY <1>2
  <2>2. \A phase \in PagePhases :
           /\ AtPhase(page, phase) \in Pages
           /\ AtPhase(page, phase).prepared = page.prepared
           /\ AtPhase(page, phase).active = page.active
           /\ With(page, NoWithdrawal, phase) \in Pages
           /\ With(page, NoWithdrawal, phase).prepared = page.prepared
           /\ With(page, NoWithdrawal, phase).active = NoWithdrawal
           /\ With(page, g.op, phase) \in Pages
           /\ With(page, g.op, phase).prepared = page.prepared
           /\ With(page, g.op, phase).active = g.op
           /\ With(page, g.op, phase).phase = phase
    <3>1. ASSUME NEW phase \in PagePhases
          PROVE  /\ AtPhase(page, phase) \in Pages
                 /\ AtPhase(page, phase).prepared = page.prepared
                 /\ AtPhase(page, phase).active = page.active
      BY <1>2, PageUpdates
    <3>2. ASSUME NEW phase \in PagePhases, NEW a \in Withdrawals \cup {NoWithdrawal}
          PROVE  /\ With(page, a, phase) \in Pages
                 /\ With(page, a, phase).prepared = page.prepared
                 /\ With(page, a, phase).active = a
                 /\ With(page, a, phase).phase = phase
      <4>1. page \in Pages
        BY <1>2
      <4> QED
        BY <4>1 DEF With, Pages
    <3> QED
      BY <2>1, <3>1, <3>2
  <2>3. CASE GetAnswers(g) /\ g.answer = "confirmed"
    <3>1. page' = AtPhase(page, "refreshing")
      BY <2>3 DEF GetAnswers, AtPhase, Unsettled
    <3> QED
      BY <2>2, <2>3, <3>1, StatusPhases
  <2>4. CASE GetAnswers(g) /\ g.answer = "failed"
    <3>1. page' = With(page, NoWithdrawal, "failed")
      BY <2>4 DEF GetAnswers, Forgets, With, Unsettled
    <3> QED
      BY <2>2, <2>4, <3>1, StatusPhases
  <2>5. CASE GetAnswers(g) /\ g.answer \in Unsettled
    <3>1. page' = With(page, g.op, PhaseReconciled(g.answer, g.held))
      BY <2>5 DEF GetAnswers, With, Unsettled
    <3>2. PhaseReconciled(g.answer, g.held) \in PagePhases
      BY <1>2, <2>5, StatusPhases
    <3> QED
      BY <2>2, <2>5, <3>1, <3>2
  <2>6. CASE Refreshed(g)
    <3>1. page' = With(page, NoWithdrawal, "done") /\ g.answer = "refreshing"
      BY <2>6 DEF Refreshed, Forgets, With
    <3> QED
      BY <2>2, <3>1, StatusPhases
  <2> QED
    BY <2>3, <2>4, <2>5, <2>6 DEF GetAnswers
<1>5. /\ gets' \in SUBSET StatusRequests
      /\ \A h \in gets' : Recorded(h.op) /\ TruthfulAnswer(h)
      /\ \A h \in gets' : h \in gets \/ h.op = g.op
  <2>1. CASE g.answer = "confirmed" /\ gets' = (gets \ {g}) \cup {Answered(g, "refreshing")}
    <3>1. PICK h \in StatusRequests : /\ h = Answered(g, "refreshing") /\ h.op = g.op
                                      /\ h.answer = "refreshing"
      BY <1>2, RequestsTyped
    <3>2. TruthfulAnswer(h)
      BY <1>3, <2>1, <3>1 DEF TruthfulAnswer, Ended
    <3> QED
      BY <1>2, <1>3, <2>1, <3>1, <3>2
  <2>2. CASE gets' = gets \ {g}
    BY <1>2, <1>3, <2>2
  <2> QED
    BY <2>1, <2>2 DEF GetAnswers, Refreshed, Answered
<1>6. ASSUME ~overtaken'
      PROVE  /\ busy' = "wallet" => slot' = q.prepared \/ status[q.prepared] \in Ended
             /\ \A v \in Withdrawals : MayExecute(v)' => Followed(v)'
  <2>1. ~overtaken /\ ~Overtaken(g)
    BY <1>1, <1>2, <1>6 DEF AnswerApplied
  <2>2. SigningOK
    BY <2>1 DEF WithdrawIInv
  <2>3. /\ g.answer \in {"confirmed", "failed", "refreshing"} => status[g.op] \in Ended
        /\ g.answer \in Unsettled => slot' \in {g.op, slot}
    BY <1>3 DEF TruthfulAnswer, Ended, Unsettled, GetAnswers, Refreshed, Stores
  <2>4. g.answer \in {"confirmed", "failed", "refreshing"} \cup Unsettled
    BY <1>4
  <2>5. busy' = "wallet" => slot' = q.prepared \/ status[q.prepared] \in Ended
    BY <1>1, <1>4, <2>1, <2>2, <2>3, <2>4, AnswerInTime DEF SigningOK
  <2>6. ASSUME NEW v \in Withdrawals, MayExecute(v)' PROVE Followed(v)'
    <3>1. MayExecute(v)
      BY <1>1, <1>4, <2>6 DEF MayExecute, InFlight
    <3>2. g.op = v /\ Followed(v) /\ ~(g.answer = "prepared" /\ g.held)
      BY <2>1, <3>1, AnswerInTime
    <3>3. status[v] \notin Ended
      BY <3>1 DEF MayExecute, Ended
    <3>4. g.answer \in Unsettled /\ slot' = v /\ q.active = v
      BY <1>4, <2>3, <2>4, <3>2, <3>3 DEF Followed
    <3>5. q.phase \in Locked
      <4>1. q.phase = PhaseReconciled(g.answer, g.held)
        BY <1>4, <3>4 DEF Unsettled
      <4> QED
        BY <1>2, <3>2, <3>4, <4>1, StatusPhases DEF Unsettled
    <3> QED
      BY <1>1, <1>4, <1>5, <3>2, <3>4, <3>5 DEF Followed
  <2> QED
    BY <2>5, <2>6
<1>7. /\ slot' \in Withdrawals \cup {NoWithdrawal} /\ Recorded(slot') /\ Recorded(q.active)
      /\ overtaken' \in BOOLEAN /\ (overtaken => overtaken')
  BY <1>1, <1>2, <1>3, <1>4 DEF AnswerApplied, Overtaken
<1> QED
  BY <1>1, <1>2, <1>4, <1>5, <1>6, <1>7, PageStepKeeps

\* A status request fails: the outcome is unknown, and the page goes on following.
LEMMA FailedRequestKeepsFollowed ==
    ASSUME WithdrawIInv, NEW g \in gets, GetFails(g)
    PROVE  WithdrawIInv'
<1>1. /\ UNCHANGED <<status, late, reply, slot, busy, overtaken>>
      /\ page' = AtPhase(page, "unknown") /\ gets' = gets \ {g}
  BY DEF GetFails, AtPhase, engineVars
<1>2. /\ page \in Pages /\ gets \in SUBSET StatusRequests /\ late \in SUBSET InFlight
      /\ slot \in Withdrawals \cup {NoWithdrawal} /\ overtaken \in BOOLEAN
      /\ busy \in {"no", "preparing", "wallet", "submitting", "refreshing"}
      /\ busy \in {"wallet", "submitting", "refreshing"} => page.prepared # NoWithdrawal
      /\ \A h \in gets : Recorded(h.op) /\ TruthfulAnswer(h)
      /\ Recorded(slot) /\ Recorded(page.active)
  BY DEF WithdrawIInv, WithdrawTypes, WithdrawRecorded, InFlight
<1>3. PICK q \in Pages : /\ q = page' /\ q.active = page.active /\ q.prepared = page.prepared
                         /\ q.phase = "unknown"
  <2>1. PICK phase \in PagePhases : phase = "unknown"
    BY StatusPhases
  <2> QED
    BY <1>1, <1>2, <2>1, PageUpdates
<1>4. gets' \in SUBSET StatusRequests /\ \A h \in gets' : Recorded(h.op) /\ TruthfulAnswer(h)
  BY <1>1, <1>2
<1>5. ASSUME ~overtaken'
      PROVE  /\ busy' = "wallet" => slot' = q.prepared \/ status[q.prepared] \in Ended
             /\ \A v \in Withdrawals : MayExecute(v)' => Followed(v)'
  <2>1. SigningOK /\ \A v \in Withdrawals : MayExecute(v) => Followed(v)
    BY <1>1, <1>5 DEF WithdrawIInv
  <2>2. \A v \in Withdrawals : MayExecute(v)' => MayExecute(v)
    BY <1>1, <1>3 DEF MayExecute, InFlight
  <2>3. \A v \in Withdrawals : Followed(v) => Followed(v)'
    BY <1>1, <1>3, StatusPhases DEF Followed
  <2> QED
    BY <1>1, <1>3, <2>1, <2>2, <2>3 DEF SigningOK
<1> QED
  BY <1>1, <1>2, <1>3, <1>4, <1>5, PageStepKeeps

\* The page is loaded again: what it had stored it follows from then on.
LEMMA ReloadKeepsFollowed ==
    ASSUME WithdrawIInv, Reload
    PROVE  WithdrawIInv'
<1>1. /\ late' \in {late, InFlight} /\ busy' = "no" /\ reply' = "none"
      /\ UNCHANGED <<status, slot, overtaken>>
  BY DEF Reload
<1>2. /\ slot \in Withdrawals \cup {NoWithdrawal} /\ overtaken \in BOOLEAN
      /\ Recorded(slot) /\ Recorded(NoWithdrawal) /\ late' \in SUBSET InFlight
  BY <1>1 DEF WithdrawIInv, WithdrawTypes, WithdrawRecorded, InFlight, Recorded
<1>3. PICK q \in Pages : /\ q = page' /\ q.prepared = NoWithdrawal /\ q.active = slot
                         /\ slot # NoWithdrawal => q.phase = "unknown"
  <2>1. CASE slot = NoWithdrawal
    BY <2>1, IdleTyped DEF Reload
  <2>2. CASE slot # NoWithdrawal
    <3>1. page' = With(IdlePage, slot, "unknown")
      BY <2>2 DEF Reload, With
    <3> QED
      BY <1>2, <2>2, <3>1, IdleTyped
  <2> QED
    BY <2>1, <2>2
<1>4. /\ gets' \in SUBSET StatusRequests
      /\ \A h \in gets' : h.op = slot /\ Recorded(h.op) /\ TruthfulAnswer(h)
  <2>1. CASE slot = NoWithdrawal
    BY <2>1 DEF Reload
  <2>2. CASE slot # NoWithdrawal
    <3>1. PICK h \in StatusRequests : h = Get(slot, FALSE) /\ h.op = slot /\ h.answer = "awaited"
      BY <1>2, <2>2, RequestsTyped
    <3>2. gets' = {h}
      BY <2>2, <3>1 DEF Reload
    <3> QED
      BY <1>2, <3>1, <3>2, AwaitedIsTruthful
  <2> QED
    BY <2>1, <2>2
<1>5. ASSUME ~overtaken', NEW v \in Withdrawals, MayExecute(v)'
      PROVE  Followed(v)'
  <2>1. InFlight' \subseteq InFlight
    BY <1>1 DEF InFlight
  <2>2. MayExecute(v)
    BY <1>1, <1>5, <2>1 DEF MayExecute
  <2>3. slot = v /\ slot # NoWithdrawal
    BY <1>1, <1>5, <2>2, WithdrawValues DEF WithdrawIInv, Followed
  <2> QED
    BY <1>1, <1>3, <1>4, <2>3, StatusPhases DEF Followed
<1> QED
  BY <1>1, <1>2, <1>3, <1>4, <1>5, PageStepKeeps

\* Nothing is prepared at first.
LEMMA WithdrawInitial ==
    WebWithdrawInit => WithdrawIInv
<1> SUFFICES ASSUME WebWithdrawInit PROVE WithdrawIInv
  OBVIOUS
<1>1. WithdrawTypes
  BY IdleTyped DEF WebWithdrawInit, WithdrawTypes
<1>2. WithdrawRecorded
  BY IdleTyped DEF WebWithdrawInit, WithdrawRecorded, Recorded, Ended
<1>3. SigningOK /\ \A v \in Withdrawals : ~MayExecute(v)
  BY DEF WebWithdrawInit, SigningOK, MayExecute
<1> QED
  BY <1>1, <1>2, <1>3 DEF WithdrawIInv

\* Every step of the page and of the engine keeps the invariant.
LEMMA WithdrawInductive ==
    WithdrawIInv /\ [WebWithdrawNext]_webWithdrawVars => WithdrawIInv'
<1> SUFFICES ASSUME WithdrawIInv, [WebWithdrawNext]_webWithdrawVars PROVE WithdrawIInv'
  OBVIOUS
<1>1. CASE UNCHANGED webWithdrawVars
  BY <1>1 DEF webWithdrawVars, engineVars, WithdrawIInv, WithdrawTypes, WithdrawRecorded, Recorded,
     TruthfulAnswer, SigningOK, Followed, MayExecute, InFlight
<1>2. CASE EngineHandles \/ \E w \in Withdrawals : EngineHandlesLate(w) \/ EngineResolves(w)
  BY <1>2, EngineKeepsFollowed
<1>3. CASE \E w \in Withdrawals : Prepared(w)
  BY <1>3, PreparedKeepsFollowed
<1>4. CASE StartPrepare \/ PrepareFails \/ LeaveForm \/ StartSigning \/ WalletRefuses \/ SubmitRefreshed
  BY <1>4, FormKeepsFollowed
<1>5. CASE WalletSigns
  BY <1>5, SignatureKeepsFollowed
<1>6. CASE SubmitAnswers \/ SubmitFails
  BY <1>6, SubmissionAnswerKeepsFollowed, SubmissionLossKeepsFollowed
<1>7. CASE Poll
  BY <1>7, PollKeepsFollowed
<1>8. CASE \E g \in gets : EngineReads(g) \/ GetAnswers(g) \/ Refreshed(g) \/ GetFails(g)
  BY <1>8, ReadKeepsFollowed, AnswerKeepsFollowed, FailedRequestKeepsFollowed
<1>9. CASE Reload
  BY <1>9, ReloadKeepsFollowed
<1> QED
  BY <1>1, <1>2, <1>3, <1>4, <1>5, <1>6, <1>7, <1>8, <1>9 DEF WebWithdrawNext

\* Until an answer is applied that no longer holds, a withdrawal that has been
\* signed and may still be executed is the stored one, so that no two may be
\* executed at once: through lost, late and refused requests, failing storage
\* and reloads (signAndSubmit, reconcile, the effect that resumes).
THEOREM SignaturesAreRemembered ==
    WebWithdrawSpec => [](/\ WebWithdrawTypeOK /\ SignedIsRemembered
                          /\ ~overtaken => NoSecondWithdrawal)
<1>1. WithdrawIInv => WebWithdrawTypeOK /\ SignedIsRemembered /\ (~overtaken => NoSecondWithdrawal)
  <2> SUFFICES ASSUME WithdrawIInv
               PROVE  WebWithdrawTypeOK /\ SignedIsRemembered /\ (~overtaken => NoSecondWithdrawal)
    OBVIOUS
  <2>1. SignedIsRemembered
    BY DEF WithdrawIInv, SignedIsRemembered, Followed
  <2>2. ~overtaken => NoSecondWithdrawal
    BY <2>1 DEF SignedIsRemembered, NoSecondWithdrawal
  <2>3. WebWithdrawTypeOK
    BY DEF WebWithdrawTypeOK, WithdrawIInv, WithdrawTypes, Pages, PagePhases
  <2> QED
    BY <2>1, <2>2, <2>3
<1> QED
  BY <1>1, WithdrawInitial, WithdrawInductive, PTL DEF WebWithdrawSpec
=============================================================================
