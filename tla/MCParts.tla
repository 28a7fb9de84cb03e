------------------------------ MODULE MCParts ------------------------------
(***************************************************************************)
(* Eleven parts that do not act on each other, checked together: the locks *)
(* of the engines, the journal of their stores, the preparation of a       *)
(* withdrawal, the directory of accounts, the maker channel, the market    *)
(* maker's admission of quotes and its hedge plans, and the web            *)
(* application's withdrawals, repayments, accounts and sales.  A behaviour *)
(* is one of them moving while the others stand still.                     *)
(*                                                                         *)
(* Nothing more is claimed of a page once an answer was overtaken, calls   *)
(* have overlapped or the user has crossed one: a behaviour is left there. *)
(***************************************************************************)
EXTENDS AccountLock, JsonlLog, WithdrawalPrepare, SubaccountDirectory,
        MakerSessions, QuoteAdmission, HedgePlanner,
        WebWithdraw, WebRepay, WebAccounts, WebSale

CONSTANTS
    Parts,                                  \* the parts this run looks at
    accept1, accept2, quote1, withdraw,     \* calls that take locks
    near, far                               \* expiries

VARIABLE part                               \* the one that moves

serviceVars == <<lockVars, logVars, prepareVars, directoryVars, makerVars, admissionVars, hedgeVars>>
webVars == <<webWithdrawVars, webRepayVars, webAccountVars, webSaleVars>>
partVars == <<part, serviceVars, webVars>>

\* Four calls over two rfq keys (1, 2) and two account keys (11, 12): an
\* acceptance of each RFQ (its rfq key, then taker and maker accounts), a
\* quote on the first RFQ, and a withdrawal that takes one account only.
MCJobs == {accept1, accept2, quote1, withdraw}
MCKeys == {1, 2, 11, 12}
MCNeed == [j \in MCJobs |->
             CASE j = accept1 -> {1, 11, 12}
               [] j = accept2 -> {2, 11, 12}
               [] j = quote1 -> {1, 12}
               [] j = withdraw -> {11}]

\* Any two of these stand together, by one measure or another, and no three.
MCExposures == {[delta |-> 2, vega |-> 1, cash |-> 1, bucket |-> near],
                [delta |-> 1, vega |-> 2, cash |-> 1, bucket |-> far],
                [delta |-> 1, vega |-> 2, cash |-> 3, bucket |-> near]}
MCLimits == [delta |-> 4, vega |-> 5, bucketVega |-> 3, cash |-> 4, live |-> 2]

MCDeltas == -7..7

\* A subaccount the margin holds back, and one short of cash or, with the
\* second conversion, of liquidity; tokens of fewer and of more than 18
\* decimals.
MCCashStates == {[cash |-> 11, liquidity |-> 9, free |-> 3],
                 [cash |-> 8, liquidity |-> 5, free |-> 9]}
MCConversions == {[scale |-> 2, quantum |-> 1], [scale |-> 1, quantum |-> 2]}

\* The browser remembers one subaccount for both wallets, whosesoever it becomes.
WebInit ==
    /\ WebWithdrawInit /\ WebRepayInit
    /\ WebAccountsInit
    /\ \A w \in Wallets : remembers[w] = 2
    /\ WebSaleInit
    /\ form.chosen = CHOOSE o \in SaleOrders : TRUE

PartsInit ==
    /\ part \in Parts
    /\ LockInit /\ LogInit /\ DirectoryInit
    /\ PrepareInit
    /\ part # "prepare" => /\ units = CHOOSE u \in Conversions : TRUE
                           /\ pins[1].state = CHOOSE t \in CashStates : TRUE
    /\ MakerInit
    /\ \A r \in Auctions : auction[r] = "none"
    /\ \A b \in Bots : ~bot[b].stopped
    /\ AdmissionInit /\ HedgeInit
    /\ WebInit

LockAlone ==
    /\ part = "lock"
    /\ UNCHANGED <<part, logVars, prepareVars, directoryVars, makerVars, admissionVars, hedgeVars, webVars>>
LogAlone ==
    /\ part = "log"
    /\ UNCHANGED <<part, lockVars, prepareVars, directoryVars, makerVars, admissionVars, hedgeVars, webVars>>
PrepareAlone ==
    /\ part = "prepare"
    /\ UNCHANGED <<part, lockVars, logVars, directoryVars, makerVars, admissionVars, hedgeVars, webVars>>
DirectoryAlone ==
    /\ part = "directory"
    /\ UNCHANGED <<part, lockVars, logVars, prepareVars, makerVars, admissionVars, hedgeVars, webVars>>
MakerAlone ==
    /\ part = "maker"
    /\ UNCHANGED <<part, lockVars, logVars, prepareVars, directoryVars, admissionVars, hedgeVars, webVars>>
AdmissionAlone ==
    /\ part = "admission"
    /\ UNCHANGED <<part, lockVars, logVars, prepareVars, directoryVars, makerVars, hedgeVars, webVars>>
HedgeAlone ==
    /\ part = "hedge"
    /\ UNCHANGED <<part, lockVars, logVars, prepareVars, directoryVars, makerVars, admissionVars, webVars>>

WithdrawAlone ==
    /\ part = "withdraw" /\ ~overtaken
    /\ UNCHANGED <<part, serviceVars, webRepayVars, webAccountVars, webSaleVars>>
RepayAlone ==
    /\ part = "repay" /\ ~overlapped
    /\ UNCHANGED <<part, serviceVars, webWithdrawVars, webAccountVars, webSaleVars>>
AccountsAlone ==
    /\ part = "accounts"
    /\ UNCHANGED <<part, serviceVars, webWithdrawVars, webRepayVars, webSaleVars>>
SaleAlone ==
    /\ part = "sale" /\ ~crossed
    /\ UNCHANGED <<part, serviceVars, webWithdrawVars, webRepayVars, webAccountVars>>

PartsNext ==
    \/ LockAlone /\ LockNext
    \/ LogAlone /\ LogNext
    \/ PrepareAlone /\ PrepareNext
    \/ DirectoryAlone /\ DirectoryNext
    \/ MakerAlone /\ MakerNext
    \/ AdmissionAlone /\ AdmissionNext
    \/ HedgeAlone /\ HedgeNext
    \/ WithdrawAlone /\ WebWithdrawNext
    \/ RepayAlone /\ WebRepayNext
    \/ AccountsAlone /\ WebAccountsNext
    \/ SaleAlone /\ WebSaleNext

\* The fairness of the specifications, less of it for the locks: some call goes
\* on while one can.
PartsFairness ==
    /\ WF_partVars(LockAlone /\ \E j \in Jobs, k \in Keys : LockStep(j, k))
    /\ WF_partVars(DirectoryAlone /\ PassStep)

PartsSpec == PartsInit /\ [][PartsNext]_partVars /\ PartsFairness

\* ImplementsKeyedMutex, of the lock's steps: the promise map of account-lock.ts
\* is one abstract mutex per key.
LocksAreMutexes ==
    /\ Abstract!MutexInit
    /\ [][part = "lock" => [Abstract!MutexNext]_([k \in Keys |-> HolderOf(k)])]_lockVars

\* Every call that asks for locks gets them, runs, and gives them back: the
\* nested runs of account-lock.ts never wait for one another in a circle.
CallsReturn == part = "lock" => <>(\A j \in Jobs : Finished(j))

\* The part that moves keeps its type.
PartsTypeOK ==
    /\ part = "lock" => LockTypeOK
    /\ part = "prepare" => PrepareTypeOK
    /\ part = "directory" => DirectoryTypeOK
    /\ part = "maker" => MakerTypeOK
    /\ part = "admission" => AdmissionTypeOK
    /\ part = "hedge" => HedgeTypeOK
    /\ part = "withdraw" => WebWithdrawTypeOK
    /\ part = "repay" => WebRepayTypeOK
    /\ part = "accounts" => WebAccountsTypeOK
    /\ part = "sale" => WebSaleTypeOK
=============================================================================
