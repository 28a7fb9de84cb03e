----------------------------- MODULE RfqEngine -----------------------------
(***************************************************************************)
(* The service index.ts wires together: the RFQ engine and the withdrawal  *)
(* engine in one process, over one executor, one account lock and the same *)
(* subaccounts.  A step of the service is a step of one engine.  The       *)
(* withdrawals' policy check sums what the RFQ engine reserves.            *)
(***************************************************************************)
EXTENDS AuctionEngine, WithdrawalEngine

\* The ids of RFQs and of withdrawals are both randomUUID()s.
ASSUME ServiceAssumption == Rfqs \cap Withdrawals = {}

serviceVars == <<auctionVars, withdrawalVars, sharedVars>>

ServiceInit == ProcessInit /\ AuctionInit /\ WithdrawalInit

\* Mutant: the withdrawals do not see the quotes.
ReservedCashNone(a) == 0

\* reservedCash: (subaccountId) => engine.reservedFor(subaccountId)
ReservedCash(a) == SumCost(ReservedFor(a, {}))

RfqEngineStep == \/ \E r \in Rfqs : RfqStep(r)
                 \/ \E q \in Quotes : QuoteStart(q) \/ CancelQuote(q)

\* withdrawals.recover() starts once engine.recover() has returned.
RfqsRecovered == todo \cap Rfqs = {} /\ NoReconciliation

WithdrawalRecovery(w) == RfqsRecovered /\ (RecoverPrepared(w) \/ RecoverSent(w))

WithdrawalOperation(w) ==
    \/ Prepare(w) \/ Expires(w) \/ OpTimePasses(w) \/ OpActionExpires(w) \/ ForeignUse(w)
    \/ WithdrawalSucceeds(w) \/ WithdrawalReverts(w) \/ WithdrawalPropagates(w)

WithdrawalEngineStep ==
    \/ \E c \in Callers : CallerStep(c)
    \/ \E w \in Withdrawals : \/ WithdrawalOperation(w)
                              \/ WithdrawalRecovery(w)
                              \/ TaskStep(w, ReservedCash(Debited[w]))

ServiceCrash == ProcessStops /\ AuctionForgets /\ WithdrawalForgets

ServiceRestart == /\ ProcessStarts(Unfinished \cup UnfinishedOps)
                  /\ UNCHANGED <<auctionVars, withdrawalVars>>

ServiceServe == /\ StartServing
                /\ NoReconciliation /\ call[Recoverer] = "idle"
                /\ UNCHANGED <<auctionVars, withdrawalVars>>

ServiceQuiescent ==
    /\ \A r \in Rfqs : status[r] \in Terminal
    /\ \A w \in Withdrawals : opStatus[w] \in OpTerminal
    /\ UNCHANGED serviceVars

ServiceNext ==
    \/ RfqEngineStep /\ UNCHANGED withdrawalVars
    \/ WithdrawalEngineStep /\ UNCHANGED auctionVars
    \/ ServiceCrash \/ ServiceRestart \/ ServiceServe
    \/ ServiceQuiescent

ServiceSpec == ServiceInit /\ [][ServiceNext]_serviceVars

\* The fairness of the engines, and of the account key: it serves first come,
\* first served (AccountLock), so a task that waits for it while quotes and
\* acceptances take it in turn is served.
ServiceFairness ==
    /\ \A r \in Rfqs :
          /\ WF_serviceVars(/\ QuoteHandler(r) \/ (job[r] # "idle" /\ AcceptHandler(r))
                             \/ Timer(r) \/ Clock(r)
                           /\ UNCHANGED withdrawalVars)
          /\ WF_serviceVars(SubmitterStep(r) /\ UNCHANGED withdrawalVars)
          /\ WF_serviceVars(Recovery(r) /\ UNCHANGED withdrawalVars)
          /\ WF_serviceVars(Reconciliation(r) /\ UNCHANGED withdrawalVars)
    /\ \A w \in Withdrawals :
          /\ SF_serviceVars(TaskStart(w) /\ UNCHANGED auctionVars)
          /\ WF_serviceVars(TaskStep(w, ReservedCash(Debited[w])) /\ UNCHANGED auctionVars)
          /\ WF_serviceVars(WithdrawalRecovery(w) /\ UNCHANGED auctionVars)
    /\ WF_serviceVars(LookUpStep(Recoverer) /\ UNCHANGED auctionVars)
    /\ WF_serviceVars(ServiceRestart)
    /\ WF_serviceVars(ServiceServe)

FairServiceSpec == ServiceSpec /\ ServiceFairness

-----------------------------------------------------------------------------
(* Properties. *)

\* What the makers have been promised cash for: the standing quotes, and
\* what a quote whose funds have been checked will make of them.
Promises ==
    {Standing} \cup {(Standing \ Prior(offer[r])) \cup {offer[r]} :
                         r \in {x \in Rfqs : job[x] = "funded"}}

Covered(a) ==
    \A S \in Promises :
        cash[a] >= SumCost({q \in S : AccountOf[q] = a /\ ~MatchSucceeded(q)})

\* A withdrawal mined after its task gave it up, and with it the account key.
AbandonedAndMined(a) ==
    \E w \in Withdrawals : /\ Debited[w] = a /\ task[w] = "none"
                           /\ chain[w] = "pending" /\ chain'[w] = "success"

\* Quotes and withdrawals spend the same cash, and neither engine sees the
\* other's records: what they share is the account key and the executor's
\* queue.  A subaccount that covers its quotes keeps covering them, through
\* crashes too, unless a withdrawal whose outcome was ambiguous is mined late
\* (the catch of withdrawal.ts executeSubmission gives the key back).
ReservationsStayCovered ==
    [][\A a \in Accounts : Covered(a) => Covered(a)' \/ AbandonedAndMined(a)]_serviceVars
=============================================================================
