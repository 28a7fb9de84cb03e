------------------------------ MODULE WebSale ------------------------------
(***************************************************************************)
(* The sale form of the web application (target-composer.tsx over          *)
(* useSellCall.ts and the primary button of covered-call-ui.tsx): the user *)
(* chooses an order, asks for a quote, sees it with the order, accepts it, *)
(* signs, and the page records the trade.                                  *)
(*                                                                         *)
(* Calls run on after the state they began with has changed: a request for *)
(* a quote awaits a health check, a deposit, the creation of its RFQ and   *)
(* the end of the auction; an acceptance awaits the wallet and the engine. *)
(* Each ends by setting the state of the one form.  The engine is external *)
(* here: AuctionEngine models it.                                          *)
(***************************************************************************)
EXTENDS Integers

CONSTANTS
    SaleOrders, NoOrder,
    Sales, NoSale,   \* RFQ ids
    Requests,        \* calls of handleRequestQuote, bound on how many run
    Acceptances,     \* calls of handleAcceptQuote, bound on how many run
    Hasty            \* whether the user acts during a health check

ASSUME WebSaleAssumption ==
    /\ NoOrder \notin SaleOrders /\ NoSale \notin Sales
    /\ Hasty \in BOOLEAN

VARIABLES
    auctions,        \* the engine's RFQs: their orders and states
    overdue,         \* RFQs whose acceptBy has passed
    form,            \* the state of the form and of useSellCall
    requests,
    acceptances,
    trades,          \* the recorded trades
    crossed          \* history: the user acted while a call was under way

engineSideVars == <<auctions, overdue>>
webSaleVars == <<engineSideVars, form, requests, acceptances, trades, crossed>>

-----------------------------------------------------------------------------
NoRequest == [at |-> "idle", order |-> NoOrder, sale |-> NoSale]
NoAcceptance == [at |-> "idle", sale |-> NoSale, shown |-> NoOrder]

WebSaleInit ==
    /\ auctions = [s \in Sales |-> [order |-> NoOrder, state |-> "none"]]
    /\ overdue = {}
    /\ form \in [chosen : SaleOrders, frozen : {NoOrder}, setup : {"idle"}, phase : {"idle"},
                 prepared : {NoSale}, busy : {FALSE}, timer : {NoSale}, done : {FALSE}]
    /\ requests = [c \in Requests |-> NoRequest]
    /\ acceptances = [a \in Acceptances |-> NoAcceptance]
    /\ trades = {}
    /\ crossed = FALSE

\* reset of useSellCall
Reset(f) == [f EXCEPT !.busy = FALSE, !.prepared = NoSale, !.timer = NoSale, !.phase = "idle"]

\* Mutant: nothing is locked while the auction runs.
LockedOutsideAuctions(f) ==
    \/ f.setup # "idle" \/ f.done
    \/ f.phase \in {"requesting", "quoted", "signing", "executing", "done"}

\* controlsLocked
ControlsLocked(f) ==
    \/ f.setup # "idle" \/ f.done
    \/ f.phase \in {"requesting", "auction", "quoted", "signing", "executing", "done"}

\* busy of the primary button
ButtonBusy(f) ==
    f.setup # "idle" \/ f.phase \in {"requesting", "auction", "signing", "executing"}

\* A choice or a click.  The form is not locked during a health check, and no
\* longer once the deadline has passed under an open prompt of the wallet.
UserActs ==
    LET checking == \E c \in Requests : requests[c].at = "health"
        accepting == \E a \in Acceptances : acceptances[a].at # "idle"
    IN  /\ Hasty \/ ~checking
        /\ crossed' = (crossed \/ checking \/ accepting)

-----------------------------------------------------------------------------
(* The user's choices.                                                     *)

\* handleStrikeSelect, handleExpiryChange, handleMarketChange
ChooseOrder(o) ==
    /\ UserActs /\ ~ControlsLocked(form)
    /\ form' = [Reset(form) EXCEPT !.chosen = o, !.frozen = NoOrder]
    /\ UNCHANGED <<engineSideVars, requests, acceptances, trades>>

\* setAmount
ChangeAmount(o) ==
    /\ UserActs /\ ~ControlsLocked(form)
    /\ form' = [form EXCEPT !.chosen = o]
    /\ UNCHANGED <<engineSideVars, requests, acceptances, trades>>

\* handleCreateAnother
CreateAnother(o) ==
    /\ UserActs /\ form.done
    /\ form' = [Reset(form) EXCEPT !.chosen = o, !.frozen = NoOrder, !.setup = "idle", !.done = FALSE]
    /\ UNCHANGED <<engineSideVars, requests, acceptances, trades>>

-----------------------------------------------------------------------------
(* handleRequestQuote.                                                     *)

RequestBecomes(c, r) == requests' = [requests EXCEPT ![c] = r]

\* Its catch, after whatever requestQuote did to the form.
RequestFails(c, f) ==
    /\ form' = [f EXCEPT !.setup = "idle", !.frozen = NoOrder]
    /\ RequestBecomes(c, NoRequest)

\* The catch and the finally of requestQuote.
QuoteFails(c, f) ==
    RequestFails(c, [f EXCEPT !.busy = FALSE, !.phase = IF @ = "expired" THEN @ ELSE "error"])

\* The button asks for a quote unless one is offered or a trade is shown.
RequestQuote(c) ==
    /\ UserActs /\ requests[c].at = "idle"
    /\ ~ButtonBusy(form) /\ ~form.done /\ form.phase # "quoted"
    /\ LET f == IF form.phase \in {"error", "expired"} THEN Reset(form) ELSE form
       IN  form' = [f EXCEPT !.frozen = f.chosen]
    /\ RequestBecomes(c, [NoRequest EXCEPT !.at = "health", !.order = form.chosen])
    /\ UNCHANGED <<engineSideVars, acceptances, trades>>

\* requestQuote, up to the creation of the RFQ.  The phase it looks at is the
\* one of the click, when no quote was offered.
OpenRequest(c) ==
    \/ /\ form.busy
       /\ RequestFails(c, form)
    \/ /\ ~form.busy
       /\ form' = [form EXCEPT !.setup = "idle", !.busy = TRUE, !.prepared = NoSale,
                               !.timer = NoSale, !.phase = "requesting"]
       /\ RequestBecomes(c, [requests[c] EXCEPT !.at = "create"])

\* assertRfqEngineChain, then a deposit unless the account holds the collateral.
HealthAnswers(c) ==
    /\ requests[c].at = "health"
    /\ \/ RequestFails(c, form)
       \/ /\ form' = [form EXCEPT !.setup = "deposit"]
          /\ RequestBecomes(c, [requests[c] EXCEPT !.at = "deposit"])
       \/ OpenRequest(c)
    /\ UNCHANGED <<engineSideVars, acceptances, trades, crossed>>

DepositEnds(c) ==
    /\ requests[c].at = "deposit"
    /\ RequestFails(c, form) \/ OpenRequest(c)
    /\ UNCHANGED <<engineSideVars, acceptances, trades, crossed>>

\* createRfq
CreateAnswers(c) ==
    /\ requests[c].at = "create"
    /\ \/ /\ QuoteFails(c, form)
          /\ UNCHANGED auctions
       \/ LET unused == {s \in Sales : auctions[s].state = "none"}
              s == CHOOSE s \in unused : TRUE
          IN  /\ unused # {}
              /\ auctions' = [auctions EXCEPT ![s] = [order |-> requests[c].order, state |-> "open"]]
              /\ form' = [form EXCEPT !.phase = "auction"]
              /\ RequestBecomes(c, [requests[c] EXCEPT !.at = "poll", !.sale = s])
    /\ UNCHANGED <<overdue, acceptances, trades, crossed>>

\* getRfq after the auction: its best quote, if there is one for this order and
\* its deadline has not passed.
PollAnswers(c) ==
    /\ requests[c].at = "poll"
    /\ LET s == requests[c].sale IN
       /\ auctions[s].state = "closed"
       /\ \/ /\ s \in overdue
             /\ QuoteFails(c, [form EXCEPT !.phase = "expired"])
          \/ /\ s \notin overdue
             /\ form' = [form EXCEPT !.prepared = s, !.phase = "quoted", !.timer = s, !.busy = FALSE]
             /\ RequestBecomes(c, NoRequest)
    /\ UNCHANGED <<engineSideVars, acceptances, trades, crossed>>

\* No quote, one for another order, or no answer.
PollFails(c) ==
    /\ requests[c].at = "poll"
    /\ QuoteFails(c, form)
    /\ UNCHANGED <<engineSideVars, acceptances, trades, crossed>>

-----------------------------------------------------------------------------
(* handleAcceptQuote.                                                      *)

AcceptanceBecomes(a, r) == acceptances' = [acceptances EXCEPT ![a] = r]

\* The button accepts what preparedRef holds when there is an order to show
\* with it.
AcceptQuote(a) ==
    /\ UserActs /\ acceptances[a].at = "idle"
    /\ form.phase = "quoted" /\ ~ButtonBusy(form) /\ ~form.done
    /\ form.frozen # NoOrder /\ form.prepared # NoSale
    /\ \/ /\ form.prepared \in overdue
          /\ form' = [form EXCEPT !.timer = NoSale, !.phase = "expired"]
          /\ UNCHANGED acceptances
       \/ /\ form.prepared \notin overdue /\ ~form.busy
          /\ form' = [form EXCEPT !.busy = TRUE, !.phase = "signing"]
          /\ AcceptanceBecomes(a, [at |-> "signing", sale |-> form.prepared, shown |-> form.frozen])
    /\ UNCHANGED <<engineSideVars, requests, trades>>

\* The catch and the finally of acceptQuote, before and after the submission.
AcceptanceFails(a, submitted) ==
    /\ LET s == acceptances[a].sale IN
       form' = CASE s \in overdue -> [form EXCEPT !.busy = FALSE, !.phase = "expired"]
                 [] s \notin overdue /\ submitted -> [form EXCEPT !.busy = FALSE, !.phase = "error"]
                 [] s \notin overdue /\ ~submitted ->
                       [form EXCEPT !.busy = FALSE, !.phase = "quoted", !.timer = s]
    /\ AcceptanceBecomes(a, NoAcceptance)

OrderSigned(a) ==
    /\ acceptances[a].at = "signing"
    /\ acceptances[a].sale \notin overdue
    /\ form' = [form EXCEPT !.phase = "executing", !.timer = NoSale]
    /\ AcceptanceBecomes(a, [acceptances[a] EXCEPT !.at = "executing"])
    /\ UNCHANGED <<engineSideVars, requests, trades, crossed>>

\* The user refuses, the multiplier has changed, or the signature comes late.
SigningFails(a) ==
    /\ acceptances[a].at = "signing"
    /\ AcceptanceFails(a, FALSE)
    /\ UNCHANGED <<engineSideVars, requests, trades, crossed>>

\* acceptRfq succeeds: the trade is recorded as the order that was shown.
TradeExecuted(a) ==
    /\ acceptances[a].at = "executing"
    /\ trades' = trades \cup {[sale |-> acceptances[a].sale, order |-> acceptances[a].shown]}
    /\ form' = [form EXCEPT !.busy = FALSE, !.phase = "done", !.done = TRUE]
    /\ AcceptanceBecomes(a, NoAcceptance)
    /\ UNCHANGED <<engineSideVars, requests, crossed>>

\* It reverts, is refused, or its answer is lost.
ExecutionFails(a) ==
    /\ acceptances[a].at = "executing"
    /\ AcceptanceFails(a, TRUE)
    /\ UNCHANGED <<engineSideVars, requests, trades, crossed>>

-----------------------------------------------------------------------------
(* The engine and the clock.                                               *)

AuctionCloses(s) ==
    /\ auctions[s].state = "open"
    /\ auctions' = [auctions EXCEPT ![s].state = "closed"]
    /\ UNCHANGED <<overdue, form, requests, acceptances, trades, crossed>>

DeadlinePasses(s) ==
    /\ auctions[s].state = "closed" /\ s \notin overdue
    /\ overdue' = overdue \cup {s}
    /\ UNCHANGED <<auctions, form, requests, acceptances, trades, crossed>>

\* armExpiryTimer's callback
TimerFires ==
    /\ form.timer \in overdue
    /\ form' = [form EXCEPT !.timer = NoSale,
                            !.phase = IF @ \in {"quoted", "signing"} THEN "expired" ELSE @]
    /\ UNCHANGED <<engineSideVars, requests, acceptances, trades, crossed>>

WebSaleNext ==
    \/ \E o \in SaleOrders : ChooseOrder(o) \/ ChangeAmount(o) \/ CreateAnother(o)
    \/ \E c \in Requests :
          \/ RequestQuote(c) \/ HealthAnswers(c) \/ DepositEnds(c)
          \/ CreateAnswers(c) \/ PollAnswers(c) \/ PollFails(c)
    \/ \E a \in Acceptances :
          \/ AcceptQuote(a) \/ OrderSigned(a) \/ SigningFails(a)
          \/ TradeExecuted(a) \/ ExecutionFails(a)
    \/ \E s \in Sales : AuctionCloses(s) \/ DeadlinePasses(s)
    \/ TimerFires

WebSaleSpec == WebSaleInit /\ [][WebSaleNext]_webSaleVars

-----------------------------------------------------------------------------
\* The form, the calls and the trades have their types.
WebSaleTypeOK ==
    /\ auctions \in [Sales -> [order : SaleOrders \cup {NoOrder}, state : {"none", "open", "closed"}]]
    /\ overdue \subseteq Sales
    /\ form \in [chosen : SaleOrders, frozen : SaleOrders \cup {NoOrder}, setup : {"idle", "deposit"},
                 phase : {"idle", "requesting", "auction", "quoted", "signing", "executing",
                          "done", "expired", "error"},
                 prepared : Sales \cup {NoSale}, busy : BOOLEAN,
                 timer : Sales \cup {NoSale}, done : BOOLEAN]
    /\ trades \subseteq [sale : Sales, order : SaleOrders]

\* "Quote collection and acceptance are intentionally separate so the user can
\* inspect the winning executable premium before signing anything."
\* (useSellCall.ts): the order shown when a quote is accepted is the one whose
\* quote is signed, and the trade is recorded as that order.
SignedIsShown ==
    /\ \A a \in Acceptances :
          acceptances[a].at # "idle" => auctions[acceptances[a].sale].order = acceptances[a].shown
    /\ \A t \in trades : auctions[t.sale].order = t.order

\* useSellCall and the form keep the quote and the order apart, in preparedRef
\* and in frozenOrder, and only the locks on the controls and the button keep a
\* quote from arriving under another order: they do, through deposits, auctions,
\* failures and deadlines, until the user acts while a call is under way.
ShownUnlessCrossed == ~crossed => SignedIsShown
=============================================================================
