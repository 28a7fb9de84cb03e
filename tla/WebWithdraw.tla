---------------------------- MODULE WebWithdraw ----------------------------
(***************************************************************************)
(* One page of the web application and its withdrawals (useWithdraw.ts,    *)
(* gated by FundsModal.tsx).  A withdrawal is prepared by the engine,      *)
(* signed in the wallet and submitted; its id is kept in the browser's     *)
(* storage from before the signature until its outcome is known, so that   *)
(* the page asks for it again after a reload.                              *)
(*                                                                         *)
(* Requests to the engine may be lost, or handled after their caller has   *)
(* given up; answers may be lost, or arrive after the record they were     *)
(* read from has changed; and the page may be reloaded between any two     *)
(* steps.  The engine is external here: WithdrawalEngine models it.        *)
(***************************************************************************)
EXTENDS Integers, FiniteSets

CONSTANTS
    Withdrawals,     \* operation ids
    NoWithdrawal,
    MaxReloads,      \* bounds: page loads, and status requests in progress
    MaxGets          \* when another poll begins

ASSUME WebWithdrawAssumption ==
    /\ NoWithdrawal \notin Withdrawals
    /\ MaxReloads \in Nat /\ MaxGets \in Nat \ {0}

VARIABLES
    status,          \* the engine's record of each withdrawal
    late,            \* submissions whose caller no longer waits, not yet handled
    reply,           \* of the one in progress: "sent", or the status it was answered
    slot,            \* the stored operation id
    page,            \* what the hook holds: active, prepared, phase
    busy,            \* what busyRef is held for, or "no"
    gets,            \* status requests in progress, each with what it read
    overtaken,       \* history: an answer was applied that no longer held
    reloads

engineVars == <<status, late>>
webWithdrawVars == <<engineVars, reply, slot, page, busy, gets, overtaken, reloads>>

-----------------------------------------------------------------------------
Unsettled == {"prepared", "live"}

\* "failed" stands for rejected, reverted and expired, and for the page's error:
\* the page goes on from each in the same way.
Ended == {"confirmed", "failed"}

\* isBusy of the hook and fundsLocked of the modal.
Locked == {"preparing", "signing", "submitting", "confirming", "refreshing", "unknown"}

IdlePage == [active |-> NoWithdrawal, prepared |-> NoWithdrawal, phase |-> "idle"]

\* phaseForStatus
PhaseForStatus(s) ==
    CASE s = "confirmed" -> "done"
      [] s = "live" -> "confirming"
      [] s = "prepared" -> "ready"
      [] OTHER -> s

\* Mutant: a withdrawal that is still prepared can be signed, whoever holds it.
PhaseReconciledReady(s, held) == PhaseForStatus(s)

\* A prepared withdrawal that the page does not hold cannot be signed again.
PhaseReconciled(s, held) == IF s = "prepared" /\ ~held THEN "unknown" ELSE PhaseForStatus(s)

WebWithdrawInit ==
    /\ status = [w \in Withdrawals |-> "none"]
    /\ late = {} /\ reply = "none"
    /\ slot = NoWithdrawal
    /\ page = IdlePage
    /\ busy = "no"
    /\ gets = {}
    /\ overtaken = FALSE
    /\ reloads = 0

-----------------------------------------------------------------------------
(* The engine.                                                             *)

\* Signed withdrawals on their way to the engine.
InFlight == late \cup {w \in {page.prepared} : reply = "sent"}

\* A withdrawal whose signature has left the page and that the engine executes,
\* or will if it comes by.
MayExecute(w) == status[w] = "live" \/ (status[w] = "prepared" /\ w \in InFlight)

\* The engine accepts a submission that is still prepared, or refuses it.
Submitted(w) ==
    status' \in {status, [status EXCEPT ![w] = IF @ = "prepared" THEN "live" ELSE @]}

\* Its answer carries the record as it then is.
EngineHandles ==
    /\ reply = "sent"
    /\ Submitted(page.prepared)
    /\ reply' = status'[page.prepared]
    /\ UNCHANGED <<late, slot, page, busy, gets, overtaken, reloads>>

\* One of those that nobody waits for, of which there may be several.
EngineHandlesLate(w) ==
    /\ w \in late
    /\ Submitted(w)
    /\ late' \in {late, late \ {w}}
    /\ UNCHANGED <<reply, slot, page, busy, gets, overtaken, reloads>>

EngineResolves(w) ==
    /\ \/ status[w] = "live" /\ \E s \in {"confirmed", "failed"} : status' = [status EXCEPT ![w] = s]
       \/ status[w] = "prepared" /\ status' = [status EXCEPT ![w] = "failed"]
    /\ UNCHANGED <<late, reply, slot, page, busy, gets, overtaken, reloads>>

\* A status request reads the record; its answer may take any time.
EngineReads(g) ==
    /\ g.answer = "awaited"
    /\ gets' = (gets \ {g}) \cup {[g EXCEPT !.answer = status[g.op]]}
    /\ UNCHANGED <<engineVars, reply, slot, page, busy, overtaken, reloads>>

-----------------------------------------------------------------------------
(* The user: review, prepare, sign, leave.                                 *)

\* requestPreview, whose review leads to prepare.
StartPrepare ==
    /\ busy = "no"
    /\ page.phase \notin Locked
    /\ busy' = "preparing"
    /\ page' = [page EXCEPT !.prepared = NoWithdrawal, !.phase = "preparing"]
    /\ UNCHANGED <<engineVars, reply, slot, gets, overtaken, reloads>>

\* prepare ends; one whose answer is lost is never heard of again.
Prepared(w) ==
    /\ busy = "preparing"
    /\ status[w] = "none"
    /\ status' = [status EXCEPT ![w] = "prepared"]
    /\ page' = [active |-> w, prepared |-> w, phase |-> "ready"]
    /\ busy' = "no"
    /\ UNCHANGED <<late, reply, slot, gets, overtaken, reloads>>

PrepareFails ==
    /\ busy = "preparing"
    /\ page' = [page EXCEPT !.phase = "failed"]
    /\ busy' = "no"
    /\ UNCHANGED <<engineVars, reply, slot, gets, overtaken, reloads>>

\* reset: the dialog is closed, or another account, asset or amount chosen.
LeaveForm ==
    /\ busy = "no"
    /\ page.phase \notin Locked
    /\ page' = IdlePage
    /\ UNCHANGED <<engineVars, reply, slot, busy, gets, overtaken, reloads>>

\* storeOperationId and clearOperationId; storage may refuse either.
Stores(w) == slot' \in {w, slot}
Clears == slot' \in {NoWithdrawal, slot}

\* signAndSubmit, up to the wallet.  Without the stored id nothing is signed.
StartSigning ==
    /\ busy = "no"
    /\ page.phase = "ready" /\ page.prepared # NoWithdrawal
    /\ \/ /\ page' = [page EXCEPT !.phase = "failed"]    \* its time is over
          /\ UNCHANGED <<slot, busy>>
       \/ /\ slot' = page.prepared
          /\ busy' = "wallet"
          /\ page' = [page EXCEPT !.phase = "signing"]
       \/ Clears /\ UNCHANGED <<page, busy>>          \* it could not be stored
    /\ UNCHANGED <<engineVars, reply, gets, overtaken, reloads>>

WalletRefuses ==
    /\ busy = "wallet"
    /\ Clears
    /\ busy' = "no"
    /\ \E phase \in {"failed", "ready"} : page' = [page EXCEPT !.phase = phase]
    /\ UNCHANGED <<engineVars, reply, gets, overtaken, reloads>>

WalletSigns ==
    /\ busy = "wallet"
    /\ busy' = "submitting" /\ reply' = "sent"
    /\ page' = [page EXCEPT !.active = page.prepared, !.phase = "submitting"]
    /\ UNCHANGED <<engineVars, slot, gets, overtaken, reloads>>

-----------------------------------------------------------------------------
(* Answers.                                                                *)

\* A status request; held is whether the page held a prepared withdrawal when
\* it was made.  Two that are alike count as one.
Get(w, held) == [op |-> w, held |-> held, answer |-> "awaited"]

\* The outcome is known: no withdrawal is stored or active.
Forgets(phase) ==
    /\ Clears
    /\ page' = [page EXCEPT !.active = NoWithdrawal, !.phase = phase]

\* submitWithdrawal answers.  The balances are read again before a confirmed
\* withdrawal is forgotten.
SubmitAnswers ==
    /\ busy = "submitting" /\ reply # "sent"
    /\ IF reply = "confirmed"
       THEN /\ busy' = "refreshing"
            /\ page' = [page EXCEPT !.phase = "refreshing"]
       ELSE /\ busy' = "no"
            /\ page' = [page EXCEPT !.phase = PhaseForStatus(reply)]
    /\ reply' = "none"
    /\ UNCHANGED <<engineVars, slot, gets, overtaken, reloads>>

SubmitRefreshed ==
    /\ busy = "refreshing"
    /\ busy' = "no"
    /\ Forgets("done")
    /\ UNCHANGED <<engineVars, reply, gets, overtaken, reloads>>

\* The request, which may still arrive, or its answer is lost, or the refresh
\* fails: the outcome is unknown and asked for.
SubmitFails ==
    /\ busy \in {"submitting", "refreshing"}
    /\ late' \in {late, InFlight}
    /\ busy' = "no" /\ reply' = "none"
    /\ page' = [page EXCEPT !.phase = "unknown"]
    /\ gets' = gets \cup {Get(page.prepared, TRUE)}
    /\ UNCHANGED <<status, slot, overtaken, reloads>>

\* The poll, or the button: the status of the active withdrawal is asked for.
Poll ==
    /\ page.active # NoWithdrawal
    /\ page.phase \in {"submitting", "confirming", "unknown"}
    /\ Cardinality(gets) < MaxGets
    /\ gets' = gets \cup {Get(page.active, page.prepared # NoWithdrawal)}
    /\ UNCHANGED <<engineVars, reply, slot, page, busy, overtaken, reloads>>

\* An answer no longer holds: "prepared", of a withdrawal that has been signed
\* and submitted since, or any of one that is no longer the page's.
Overtaken(g) ==
    \/ g.answer = "prepared" /\ g.held /\ MayExecute(g.op)
    \/ page.prepared \notin {g.op, NoWithdrawal}

AnswerApplied(g) == overtaken' = (overtaken \/ Overtaken(g))

\* reconcile, and the effect that resumes the stored id, take the record that
\* was read, whatever it has become.
GetAnswers(g) ==
    /\ \/ /\ g.answer = "confirmed"
          /\ page' = [page EXCEPT !.phase = "refreshing"]
          /\ gets' = (gets \ {g}) \cup {[g EXCEPT !.answer = "refreshing"]}
          /\ UNCHANGED slot
       \/ /\ g.answer = "failed"
          /\ Forgets("failed")
          /\ gets' = gets \ {g}
       \/ /\ g.answer \in Unsettled
          /\ page' = [page EXCEPT !.active = g.op, !.phase = PhaseReconciled(g.answer, g.held)]
          /\ Stores(g.op)
          /\ gets' = gets \ {g}
    /\ AnswerApplied(g)
    /\ UNCHANGED <<engineVars, reply, busy, reloads>>

\* refreshFundsQueries ends, and the withdrawal is done.
Refreshed(g) ==
    /\ g.answer = "refreshing"
    /\ Forgets("done")
    /\ gets' = gets \ {g}
    /\ AnswerApplied(g)
    /\ UNCHANGED <<engineVars, reply, busy, reloads>>

\* A status request or the refresh fails.
GetFails(g) ==
    /\ page' = [page EXCEPT !.phase = "unknown"]
    /\ gets' = gets \ {g}
    /\ UNCHANGED <<engineVars, reply, slot, busy, overtaken, reloads>>

\* The page is loaded again, and resumes the stored id.
Reload ==
    /\ reloads < MaxReloads
    /\ reloads' = reloads + 1
    /\ late' \in {late, InFlight}
    /\ busy' = "no" /\ reply' = "none"
    /\ IF slot = NoWithdrawal
       THEN page' = IdlePage /\ gets' = {}
       ELSE /\ page' = [IdlePage EXCEPT !.active = slot, !.phase = "unknown"]
            /\ gets' = {Get(slot, FALSE)}
    /\ UNCHANGED <<status, slot, overtaken>>

WebWithdrawNext ==
    \/ \E w \in Withdrawals : Prepared(w) \/ EngineHandlesLate(w) \/ EngineResolves(w)
    \/ EngineHandles
    \/ StartPrepare \/ PrepareFails \/ LeaveForm
    \/ StartSigning \/ WalletRefuses \/ WalletSigns
    \/ SubmitAnswers \/ SubmitRefreshed \/ SubmitFails \/ Poll
    \/ \E g \in gets : EngineReads(g) \/ GetAnswers(g) \/ Refreshed(g) \/ GetFails(g)
    \/ Reload

WebWithdrawSpec == WebWithdrawInit /\ [][WebWithdrawNext]_webWithdrawVars

-----------------------------------------------------------------------------
\* The page, its storage and the engine's records have their types.
WebWithdrawTypeOK ==
    /\ status \in [Withdrawals -> {"none"} \cup Unsettled \cup Ended]
    /\ late \subseteq Withdrawals
    /\ reply \in {"none", "sent"} \cup Unsettled \cup Ended
    /\ slot \in Withdrawals \cup {NoWithdrawal}
    /\ page.active \in Withdrawals \cup {NoWithdrawal}
    /\ page.phase \in Locked \cup {"idle", "ready", "done", "failed"}
    /\ busy \in {"wallet", "submitting", "refreshing"} => page.prepared # NoWithdrawal

\* A withdrawal whose signature has left the page and that may still be
\* executed is the one in storage: through lost requests and answers, late
\* ones, refused signatures, storage that fails, and reloads, the page can
\* always ask for it again (signAndSubmit, reconcile).  Only an answer that no
\* longer holds when it is applied can end this: the hook keeps no order
\* between a status request and the submissions made after it was read.
SignedIsRemembered ==
    ~overtaken => \A w \in Withdrawals : MayExecute(w) => slot = w

\* "Submission status is unknown. Do not create another withdrawal; use Check
\* status to reconcile it." (FundsModal.tsx): while one may still be executed,
\* no other is signed.
NoSecondWithdrawal ==
    \A v, w \in Withdrawals : MayExecute(v) /\ MayExecute(w) => v = w
=============================================================================
