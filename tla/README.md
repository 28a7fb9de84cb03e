# TLA+ models of derive-docs

The repository is an options venue built on a Lyra/Derive style margin protocol. Its
concurrent core is one Node.js process, `services/rfq-engine`: it runs request-for-quote
auctions between takers and makers, executes the winning match on the chain, and executes
cash withdrawals from the same subaccounts through the same executor wallet. Around it stand an
oracle daemon that settles what expires, contracts that fix settlement prices and multipliers, a
market maker, its bot, and a web application. This directory models that process in detail, and of
each of the others the part that keeps state and decides on it.

Paths below are relative to `src/services/rfq-engine/src/` unless they start with `src/` or name a
file that only one component has.

## 1. Inventory of the system

| component | state | operations | interacts with |
|---|---|---|---|
| account lock (`account-lock.ts`) | `tails`: last promise per key | `run`, `runResource` | every handler that touches an RFQ or a subaccount |
| executor (`chain.ts`, `executor.ts`) | `writeTail`, `unresolvedTxHash`, `unknownOperationIds` | `submitVerifyAndMatch`, arm, clear, reconcile | RFQ engine, withdrawal engine, RPC node |
| RFQ engine (`auction.ts`, `quotes.ts`) | `timers`, `acceptTimers`, `reservations`, `activeExecutions`, `reconciliations`; journal of RFQs and quotes | open, quote, cancel, close, accept, expire, get, reconcile, recover | lock, executor, journal, reads of the chain |
| withdrawal engine (`withdrawal.ts`, `withdrawal-gateway.ts`) | `submitClaims`, `activeSubmissions`; journal of operations | preview, prepare, submit, background submission, get, recover | lock, executor, journal, the RFQ engine's reservations |
| durable stores (`store.ts`, `withdrawal-store.ts`) | an append-only JSONL file, an in-memory index, `idempotencyTail` | put, delete, load, `putIfIdempotencyAbsent` | both engines |
| service wiring (`index.ts`) | the objects above, once | start, recover, serve, shut down | all of the above |
| HTTP and WebSocket server (`server.ts`) | maker sessions, subscriptions, rate-limit windows | request routing, authentication, heartbeat, replay | both engines, bots |
| subaccount directory (`subaccount-directory*.ts`, `*-subaccount-directory.ts`) | checkpoint and accounts per network | `syncOnce`, `getAccounts` | the chain's events, DynamoDB |
| market catalogue (`markets.ts`) | none | pure functions | server |
| oracle publisher (`src/services/oracle-feeds`) | transaction queue, loop state, cooldowns | fetch, sign, post, settle, checkpoint | feeds on the chain, expiry index |
| active expiry index (`activeExpiryIndex.ts`) | positions, checkpoint, state file, `syncTail` | `sync`, `active`, `accountsFor` | events of SubAccounts |
| settlement windows (`settlementTwap.ts`, `settlement.ts`, `anchored.ts`) | one series per expiry, state file | observe, submit, fix, settle | settlement feed |
| volatility models (`svi.ts`, `realizedVol.ts`) | none | floating point | publisher |
| on-chain feeds and registries (`src/protocol/src/*.sol`) | settlement prices, override proposals, multiplier checkpoints | fix, propose, execute, checkpoint | protocol contracts |
| market maker (`src/services/rfq-market-maker`) | reservation ledger, portfolio, hedge orders | evaluate, reserve, promote, plan a hedge | engine, hedging venue |
| maker bot (`src/services/maker-bot`) | a socket, what it has quoted | authenticate, quote, reconnect | the engine's WebSocket |
| web application (`src/apps/web`) | hooks, stores, `localStorage` | withdraw, repay, discover and select accounts, ask for a quote, accept | engine, wallet, chain |
| shared library, end-to-end harness, deployment scripts | none of the service's | - | - |

How they interact: a handler takes the RFQ's key, then the account keys in sorted order; inside,
it reads the journal's index, awaits RPC reads, puts records, and may queue a call on the executor
while it keeps its keys. Timers and status requests call the same engine. The executor runs one
call at a time, from its preflight to its receipt; whatever it cannot resolve leaves a latch that
refuses later calls until reconciliation clears it. Nothing but the two journals survives a crash.
The subaccount directory shares the process but no state with the engines: its worker writes a
DynamoDB table, requests read it. The loops of the oracle daemon share one expiry index and one
queue of transactions, and hear of each other only through the chain. The page reaches the engine
by HTTP and the chain through the wallet; what it must know after a reload is in the browser's
storage.

What is hard here: every `await` is a point where other handlers, timers and answers run; a
transaction may be broadcast without its hash being known, mined without its receipt being seen,
or lost; answers arrive after the world has changed; puts may throw; processes and pages may stop
between any two steps; chains reorganise under indexers; and two engines that do not know each other
spend the same cash. PROJECT.json lists these hazards line by line with the properties that cover
them.

What makes each part correct:

* lock: mutual exclusion and request order per key, and no deadlock between nested keys;
* executor: never two transactions in the air, none broadcast twice;
* RFQ engine: makers' cash covers what they are held to, the winner is the best standing quote,
  outcomes are the chain's and final, every opened RFQ gets one;
* withdrawal engine: an idempotency key is one operation, the amount allowed is the amount that can
  be withdrawn, outcomes are the chain's, the checked cash is still there when the withdrawal is
  mined, account keys come back, a finished operation latches nothing;
* journal: what was acknowledged survives;
* service: the two engines together keep what each promises, on shared cash;
* maker channel: one session per maker, and no open auction is missed;
* subaccount directory and expiry index: the rows are the events of the chain the checkpoint names,
  an answer is never older than a checkpoint already served, and the directory catches up;
* oracle daemon: every position that outlives its expiry is settled for good;
* settlement prices: the integral posted is the area observed, the anchor is the first round after
  the expiry, a price is fixed once, and a multiplier is the one the token had at the expiry;
* market maker: whichever standing quotes are filled no limit is exceeded, and a hedge never moves
  away from its target;
* web application: what may still be executed is remembered and not doubled, the account traded with
  is the connected wallet's, and what is signed is what is shown.

## 2. Modules

| module | models | built on |
|---|---|---|
| `KeyedMutex` | abstract: one mutex per key | - |
| `AccountLock` | `runOne`'s promise chains and the tail map | refines `KeyedMutex` |
| `TxSubmitter` | `ViemTxSubmitter`, and the chain, mempool and node as it can observe them | - |
| `EngineProcess` | one process: executor, account keys, cash, phases, crash | `TxSubmitter` |
| `AuctionEngine` | the RFQ lifecycle | `EngineProcess` |
| `WithdrawalEngine` | submitted withdrawals | `EngineProcess` |
| `WithdrawalPrepare` | preview and prepare: the pinned block, `findMaximum`, idempotency keys | - |
| `RfqEngine` | both engines in one process, as `index.ts` wires them | both engines |
| `DurableMap` | abstract: a map that only advances | - |
| `JsonlLog` | the journal file, torn tails, failing puts, replay | refines `DurableMap` |
| `SubaccountDirectory` | the indexer, its table and a reader, on a chain that reorganises | - |
| `MakerSessions` | the maker channel, both ends: sessions, authentication, replay, the reconnecting bot | - |
| `ActiveExpiryIndex` | the index of open positions, its file, shared by loops | - |
| `OracleDaemon` | the feed loop and the settlement worker over one index | `ActiveExpiryIndex` |
| `SettlementTwap` | the integral of a settlement window across restarts | - |
| `AnchoredSettlementFeed` | the contract that fixes settlement prices | - |
| `MultiplierRegistry` | the contract with a token's multipliers, and its keeper | - |
| `QuoteAdmission` | risk limits and the compare-and-swap ledger of quotes | - |
| `HedgePlanner` | a hedge plan and its orders | - |
| `WebWithdraw`, `WebRepay` | the page's withdrawals and repayments, with the browser's storage | - |
| `WebAccounts` | subaccounts across wallets: discovery, validation, creation, selection | - |
| `WebSale` | the sale form: request, quote, acceptance, record | - |
| `MCOracle` | four oracle parts side by side | the oracle modules |
| `MCParts` | eleven parts side by side | those parts |
| other `MC...` | instances for TLC | the module they name |
| `TxSubmitter_proofs` | lemmas on the executor's steps | `TxSubmitter` |
| `AuctionEngine_proofs` | theorems on auctions, the executor, reservations and makers' cash | `AuctionEngine`, `TxSubmitter_proofs`, `FiniteSums` |
| `WithdrawalEngine_proofs` | theorems on withdrawals, the executor and the cash under them | `WithdrawalEngine`, `TxSubmitter_proofs` |
| `RfqEngine_proofs` | theorems on both engines in one process | `RfqEngine`, `AuctionEngine_proofs`, `WithdrawalEngine_proofs` |
| `WebApp_proofs` | theorems on the web application | the `Web...` modules |
| `Services_proofs` | theorems on the lock, the journal, quote admission, the hedge, the maker channel, the preparation of withdrawals and the directory's checkpoint and rows | `AccountLock`, `JsonlLog`, `QuoteAdmission`, `HedgePlanner`, `MakerSessions`, `WithdrawalPrepare`, `SubaccountDirectory`, `FiniteSums` |
| `Oracle_proofs` | theorems on the settlement feed, the settlement integral, the expiry index and the multiplier registry | `AnchoredSettlementFeed`, `SettlementTwap`, `OracleDaemon`, `MultiplierRegistry`, `FiniteSums` |
| `FiniteSums` | lemmas: sums over finite sets, induction over numbers and subsets, greatest and least numbers | - |

Parts that do not act on each other are checked in one run: in `MCOracle` and `MCParts` a behaviour
is one part moving while the others stand still, so the run has the union of the parts' states and
not their product, and each property is checked as it would be alone.

### Correspondence

*AccountLock.* A job asks for its keys one inside the other, in sorted order (`runKeys`). `Request`
is the synchronous start of `runOne` (read the tail, chain, become the tail), `Acquire` the moment
the previous promise has settled and `work` starts, `Settle` the end of the work, `Cleanup` the
`finally` block. `ticket` and `issued` are history variables: they number the requests for a key.
The engines' modules take all account keys of a handler in one step: this is justified by the
refinement, and the nested case, with its deadlock question, stays in `AccountLock`.

*TxSubmitter.* `wpc[o]` is how far the call of operation `o` has come; `writeQueue` is the chain of
promises on `writeTail`, whose head is running. `latchTx` is `unresolvedTxHash` and `unknown` is
`unknownOperationIds`. `chain[o]` is where the transaction of `o` is: never sent, handed to a node
that may lose it, in a mempool, or mined. `sends` is a history variable. When a call has returned,
its caller's continuation runs before the next RPC answer is processed (`Drained`), because it is a
chain of microtasks.

*AuctionEngine.* One RFQ's handler that holds its key over an await is `job[r]`; handlers that
finish inside one tick, or whose awaits are only index lookups, are one action. `status`, `best`
and `book` are the journal's records, which a put keeps equal to the index; the transaction hash is
split into `hasHash` (memory) and `durableHash` (file) because `onSubmitted` sets it before its put.
`reserved` is the key set of `reservations`; their amounts are `Cost`. `Without`, the filter that takes a
quote out of a book, is written as a recursive function, which the prover can unfold. `recon[r]` is the entry of
`reconciliations`: the receipt or nonce-event read, then the nonces at the latest block.

*WithdrawalEngine.* `call[c]` is an HTTP request about `target[c]`; `Recoverer` is `recover()`
calling the same lookups. `claimedBy` is `submitClaims`, and `task` is the background submission,
shielded by `activeSubmissions` while it is not "none". Reads are separate steps from what is done
with them where the code awaits in between: this is where stale answers come from.

*WithdrawalPrepare.* `ask[c]` is a request for an amount under a key: look the key up, pin a block,
read the subaccount at that block and the RFQ engine's reservations, bisect for the largest amount the
simulation accepts, and record through the gate. `gate` is the chain on `idempotencyTail`.
`findMaximum` is a function over the bisection's interval, checked against the reference definition
`Withdrawable`.

*RfqEngine.* A step of either engine, one crash for both, `engine.recover()` before
`withdrawals.recover()` before serving. The final policy of a withdrawal sums `reservedFor` of the
RFQ engine.

*JsonlLog.* A record is its id and the number of the put that wrote it. A line is whole, junk, or
unterminated at the end; an append after an unterminated tail is glued to it.

*SubaccountDirectory.* `step` is the call `syncOnce` makes next: compare the checkpoint's hash,
delete the checkpoint, delete rows, read the head, read the chunk's events, apply them one by one,
read the chunk's hash and save the checkpoint. `PassFails` is any of these throwing, before or after its
write took effect, and also the process stopping: the next pass knows the table only. A block's hash
is the chain up to that block, so "the checkpoint names this history" can be said in the properties;
the code only compares hashes. `ReadCheckpoint` and `ListAccounts` are the two reads of
`getAccounts`.

*MakerSessions.* `session[c]` is the server's side of a connection (named, authenticated, what is
left to replay), `bot[b]` the client's (its socket, whether it is authenticated, the quotes it is
building, and `cmdRun`'s `quoted`); `toBot` and `toServer` are the messages under way. The server and
the bot notice on their own that a connection is down. `onMakerMessage` is taken in the steps
its awaits make: the signature's check, the supersession and naming, the list of open auctions.

*ActiveExpiryIndex* and *OracleDaemon.* `at` is the next call of `performSync`, `calls` the chain on
`syncTail`, `memory` and `file` the state and its file. A block has a number and a fork, which
determine the history under it. `feedAt` and `workAt` are the steps of the two loops; `series` and
`unsettled` are what the worker still has to settle, `cooldown` the expiries it has settled lately.

*SettlementTwap.* `observe` runs up to each save (`observing`), and the series in memory and in
the file are apart until the save succeeds. The series carries, as a history, the observations it
stands for, so that the integral can be compared with the area they enclose.

*AnchoredSettlementFeed.* Every external function is one action. The aggregator answers rounds in
phases; `Search` is `_findAnchorRound`'s binary search as a recursive function of the pair of its ends. *MultiplierRegistry.*
`checkpoint` and its helpers are one transaction; the keeper's reads are steps of their own, so its
transaction may come after the token or the registry has changed. `applied` is the history the
registry is compared with.

*QuoteAdmission.* `attempts[w]` is `evaluateQuote` between its snapshot and `tryApply`; promotion and
release of a reservation come from outside at any time. *HedgePlanner.* `planHyperliquidHedge` is one
action (`Plan`), its orders are carried out by a venue that may reorder, repeat or lose them.

*WebWithdraw* and *WebRepay.* `slot` and `record` are the entries of the browser's storage, `page`,
`memoryPending` and `repayPhase` what the hooks hold, and a call in progress keeps what it read when
it began. A reload keeps the storage only. In *WebWithdraw* a request and its answer are steps of their
own: `late` are submissions whose caller has given up and which the engine may still handle, any number of
times; `gets` are the status requests, and `EngineReads` is the moment the engine reads the record that
`GetAnswers` applies later, whatever has happened since. *WebAccounts.* `store` is `useAccountStore`; `found` and
`fetches` are the query library's entry and its one fetch per wallet; `creation` is
`createSubaccount`. *WebSale.* `form` is the state of the form and of `useSellCall`, one record since
every call in progress writes it; `requests` and `acceptances` are `handleRequestQuote` and
`handleAcceptQuote`, each with what it read at its start.

Three history variables of these modules say that the page has stopped guarding something, and leave the
behaviour as it is. `overtaken`: an answer was applied that no longer held, either a `prepared` that was read before
the withdrawal was submitted and accepted, or any answer about a withdrawal that is no longer the page's.
`overlapped`: `repay` was called again before an earlier call had stored its record. `crossed`: the user acted on
the sale form during a health check, or while an acceptance had not ended whose deadline had passed.

### Abstractions and what they leave out

* Signatures, calldata, order hashes, prices and margins appear only as the outcomes of their
  checks: a validation may fail whenever it awaits. `CanPay` and the withdrawal's cash comparison
  are kept, because properties depend on them; the premium of a quote is a small number.
* For the engines the chain reports consistent data. A reorganisation is not modelled there; its
  visible effect, a receipt that no longer counts or an inconclusive read, is. `SubaccountDirectory`,
  `ActiveExpiryIndex` and `WithdrawalPrepare` have reorganisations; the index's chain is mined again after
  one, the others replace their blocks at once.
* The directory's query is one read (no pages) of the current rows (the owner index of DynamoDB may
  lag behind them). Accounts are deposited and withdrawn alternately, as Matching enforces.
* The chain's own margin checks are not relied on: a withdrawal or a match that is mined with
  success takes its cash whatever is left.
* A put appends and then sets the index in one tick, so the engines' modules treat it as one step;
  `JsonlLog` looks inside it. Puts that throw are modelled in the acceptance path (`AcceptPutFails`,
  `HashPutFails`, `RejectedPutFails`, `Ambiguous`, and the inconclusive end of a reconciliation) and in
  `WithdrawalPrepare`, not for opening and quoting, and not for submitted withdrawals. `close` and
  `expireAccept` change the record in memory before they put it (`auction.ts:301-312, 352-356`): after a
  put that threw there, memory says `closed` without a timer and without `rfq_closed`, or `expired` with
  the winner still reserved, until a late acceptance or a restart. `ReservationsExact` and
  `EveryRfqEnds` therefore assume that these two puts succeed.
* A put that throws leaves nothing on file, in the acceptance path and in `WithdrawalPrepare`. In the code the
  line may be there although the flush after it failed (`store.ts:465-467`). For `AcceptPutFails` this means that
  a crash could then find an `executing` record whose call was never queued; recovery treats it like one
  that was queued and not sent. What a half-written line does is `JsonlLog`'s subject.
* `Refuse` is one step. When a hash is latched, `reconcileUnresolvedTransaction` (`chain.ts:481-501`) first
  reads the receipt and its block, and throws whatever they say; a latch that is cleared during these reads
  does not save the call. In the model the call is refused before that, or passes after it.
* A refused execution whose deadline has passed writes `closed` and then `expired`, one put after
  the other; the model takes both at once.
* A legacy `executing` record without an intent, which `recover` fails, cannot be produced by this
  code and is not modelled.
* Cancelling a quote and expiring hold account keys for one tick only.
* `findMaximum` assumes, and so does the model, that a smaller withdrawal passes where a larger one
  does. The 96 rounds after which the search gives up are not reached.
* `OracleDaemon` sends what a loop has read without the publisher's queue of transactions; a
  transaction returns with the block that holds it. A series whose price cannot be fixed makes the
  worker throw and start again from the head of its list, so no other series is reached before it:
  `ExpiredIsSettled` assumes that failures are finitely many.
* In `MultiplierRegistry` one token is followed, and `heard` demands that a whole pass of the keeper lies
  between two steps of the issuer or of the clock: announcements give an hour's notice, the keeper
  polls every minute. An announcement that is withdrawn before it takes effect is outside the model; it is
  among the notes below.
* `QuoteAdmission` starts where prices are known. The drawdown limit and the halt flag that
  `evaluateRiskLimits` also looks at come from the snapshot and are not covered by the
  compare-and-swap; they are left out.
* The web modules have one page, one tab and one market. A status request that is made while a like one is
  under way counts as the same. `WebAccounts`: an account that is taken out of
  Matching is left out of the validation's answer. `WebSale`: reloads, a switch of network or wallet,
  and amounts of deposits are not modelled.

## 3. Runs

| run | module | checks | size |
|---|---|---|---|
| `auction` | `MCAuctionEngine` | `TypeOK`, `AtMostOneBroadcast`, `Solvent`, `ReservationsExact`, `WinnerIsBest`, `OutcomeIsTrue`, `TerminalIsFinal` | 793 332 states |
| `auction_liveness` | `MCAuctionLiveness` | `EveryRfqEnds` | 81 600 states |
| `withdrawal` | `MCWithdrawalEngine` | `WithdrawalEngineTypeOK`, `AtMostOneBroadcast`, `OpOutcomeIsTrue`, `NeverOverdrawn` | 1 305 592 states |
| `service` | `MCRfqEngine` | `OneLiveTx`, `ReservationsStayCovered`, `KeysComeBack` | 649 248 states |
| `oracle` | `MCOracle` | `OracleTypeOK`, `CheckpointVouches`, `PostedIsTheArea`, `AnchorIsFirst`, `HistoryExact`, `ExpiredIsSettled`, `FixedOnceAndWaited` | 1 005 789 states |
| `parts` | `MCParts` | see the next table | 922 614 states |
| `jsonl_torn` | `MCJsonlLog` | `AcknowledgedSurvives` is violated | 4-state trace |
| `withdrawal_latch` | `MCWithdrawalEngine` | `NoLatchOutlivesItsOperation` is violated | 18-state trace |
| `directory_reset` | `MCSubaccountDirectory` | `EmptyOnlyWhenSynced` is violated | 18-state trace |
| `maker_reconnect` | `MCMakerSessions` | `ReconnectsMissNothing` is violated | 21-state trace |
| `web_withdraw` | `MCWebWithdraw` | `NoSecondWithdrawal` is violated | 12-state trace |
| `web_sale` | `MCWebSale` | `SignedIsShown` is violated | 19-state trace |

The parts of `parts`, which also checks their types (`PartsTypeOK`):

| part | checks | states |
|---|---|---|
| lock | `MutualExclusion`, `FirstComeFirstServed`, `CallsReturn`, `LocksAreMutexes` | 33 473 |
| log | `ImplementsDurableMap` | 22 909 |
| prepare | `PreparedAsAsked` | 91 600 |
| directory | `ProjectionExact`, `CheckpointOnlyExtends`, `AnswersExact`, `CatchesUp` | 295 422 |
| maker | `LiveAuctionsReachMaker` | 65 350 |
| admission | `AnyFillsWithinLimits` | 149 217 |
| hedge | `HedgeOnlyImproves` | 7 875 |
| withdraw | `SignedIsRemembered` | 59 300 |
| repay | `RepaidOnceUnlessOverlapped` | 3 897 |
| accounts | `SelectionIsOwn` | 188 873 |
| sale | `ShownUnlessCrossed` | 4 698 |

What the runs show:

* `auction`: two auctions and two makers. One maker's subaccount can pay for her quotes in both
  auctions or for the better quote that replaces the first, not for all; the other maker's quote
  ties with hers. One crash may happen anywhere, and one put may fail, of those that the acceptance path and the
  reconciliation make. `ReservationsExact` says that
  `reservations` holds exactly the standing quotes at any time, rebuilt exactly after a crash.
* `auction_liveness`: two auctions that share nothing but the executor. `EveryRfqEnds` is
  conditional: `getRfq` is the only thing that follows an execution whose handler gave up while the
  process serves, so the property assumes that somebody keeps asking. Nothing is assumed of the
  mempool: a transaction may never be mined, then the actions expire.
* `withdrawal`: two withdrawals that compete for the cash of one, two requests in flight, one crash.
  The nonce of one of them may be used by a stranger or by another process with the executor's key.
  `NeverOverdrawn` excludes the second case, since no queue of this process can order it.
* `service`: a quote, a better quote that replaces it, and a withdrawal on one subaccount, whose nonce
  a stranger may use, with one crash and one failing put.
  `ReservationsStayCovered` holds with one exception, which is stated in it: a withdrawal whose
  broadcast was ambiguous gives its account key back, quotes admitted after that are counted against
  cash that is still there, and the withdrawal is mined later. The transaction is then on the chain
  and `reservedFor` cannot know it. `OneLiveTx` is the executor's exclusivity across both engines.
  `KeysComeBack` says that the background task of a withdrawal gets its account key, though quotes and
  acceptances compete for it, and gives it back.
* `oracle`: `CheckpointVouches` holds in memory and on disk through failing calls, stops and
  reorganisations; `ExpiredIsSettled` holds although a settlement's block may be dropped and a keeper
  may be first. `PostedIsTheArea` bounds what the integer divisions lose and nothing else, across saves
  that fail and a stop between the two saves of a new series. `AnchorIsFirst` says how much choice
  whoever fixes the price has: none, but for an incomplete round just before the anchor, which the
  search takes as earlier. `FixedOnceAndWaited` is about the owner's override with its delay changing
  while a proposal stands. `HistoryExact` compares the registry's answers with the token's history.
* `parts`, locks: two acceptances, a quote and a withdrawal over two RFQ keys and two account keys, in
  every overlap. It is the smallest set with two nested keys in common, so a wrong order deadlocks,
  which `CallsReturn` would show. `LocksAreMutexes` is the refinement of `KeyedMutex`.
* `parts`, log: the records seen by the engines only advance, through torn lines and failing puts,
  except at a crash of a process that has appended to a file already torn.
* `parts`, prepare: whoever asks at once under one key, fails, or asks again after a stop gets one
  operation for the amount asked; and the verdict on an amount agrees with the reference
  definition `Withdrawable` at the pinned block, with tokens of fewer and of more than 18 decimals.
* `parts`, directory: two accounts of one wallet, chunks of two blocks, one confirmation, one failed
  pass and one reorganisation. `AnswersExact` is about requests that no rebuild overtakes.
* `parts`, maker: two bots of one maker and two connections, which go down on either end at any time:
  one session at most is registered, and during authentication no announced auction is lost between
  the broadcast and the replay.
* `parts`, admission and hedge: three exposures of which any two stand together, by one measure or
  another, and no three, with two workers; option deltas from -7 to 7 with a lot of 3, so that targets
  fall between lots, cross zero and hit the band and the margin cap.
* `parts`, withdraw: `SignedIsRemembered` through lost and late requests and answers, refused signatures, storage
  that refuses writes, and reloads, until an answer is applied that no longer holds. The hook keeps no order
  between a status request and a submission, so after that nothing is claimed: a poll that read `prepared` may
  come after the submission's own answer, and then the form is open while the withdrawal is executed.
* `parts`, repay: `RepaidOnceUnlessOverlapped` through lost hashes, storage that refuses, reloads and
  acknowledgements, until two calls overlap before either has stored its record.
* `parts`, accounts: `SelectionIsOwn` for two wallets, both with a remembered subaccount that may be
  anybody's, while discoveries and creations of the other wallet answer late.
* `parts`, sale: `ShownUnlessCrossed` for two orders, two requests and two acceptances. The user does not wait
  for anything, and a prompt may outlive its quote; nothing more is claimed once the user has acted under it.

The six violations:

* `jsonl_torn`. Neither store checks how the file ends before it appends. A crash tears the last
  line, the process restarts and puts a record; it is acknowledged but glued to the torn text, and
  the next load skips the line. With a claim or a transaction hash in it, the restarted process does
  not know what it has broadcast. A put that throws half-way tears the file in the same way.
* `withdrawal_latch`. A status request asks for a receipt before it exists; the background task sees
  the receipt, stores `confirmed` and clears the latches; the request's `null` is then applied and
  latches both the hash and the operation. Nothing looks a confirmed operation up again, so every
  RFQ and withdrawal is refused until a restart.
* `directory_reset`. A request reads a ready checkpoint; the indexer finds that the checkpoint's block
  was replaced, deletes the checkpoint and then the rows; the request lists the rows and answers 200
  with an empty list, for a wallet that holds an account on both forks. The README of the service
  says an unsynchronized directory answers 503 and never an empty list. Reading the checkpoint again
  after the rows would close the gap. This run has one account, so that the trace stays short.
* `maker_reconnect`. `cmdRun` puts an RFQ into `quoted` as soon as `sendQuote` returns; when the
  connection goes down before the engine has read the quote, the replay after the next authentication is
  skipped as a repetition, and the auction ends without a quote of this maker.
* `web_withdraw`. A submission whose answer is lost is looked up, the engine has not handled it and
  says `prepared`, and the page opens its form again; the submission is then handled, and a second
  withdrawal is signed beside it. The page's own text asks that this never happens.
* `web_sale`. A wallet's prompt is left open past its quote's deadline; the form moves on to a second
  request; the prompt is refused, and the end of the first acceptance sets the phase and opens the
  controls, so that another order can be chosen while the second quote is still to arrive. It arrives
  under that order, and is accepted there. The run has `Hasty = FALSE`, so that the trace is this one.

Noted while modelling, without a run (PROJECT.json quotes the lines):

* `src/docs/market-maker-integration.md:887` says RFQs caught mid-execution are marked `failed`;
  `recover` keeps them `executing` and reconciles.
* When an issuer withdraws an announcement that the registry holds as pending and its time passes,
  `multiplierAt` reverts; the keeper asks it first (multiplier.ts:48), so it throws on every pass and
  never sends the `checkpointCurrent` that would drop the stale checkpoint.
* Two calls of `repay` from one render both pass its check of `pending` (useRepayCash.ts:296), and the second
  record overwrites the first. In `WebRepay` this is what sets `overlapped`; `NoSecondDeposit` by itself fails in
  five states.
* After the multiplier has changed, `acceptQuote` sets the phase to `expired` and its own catch sets
  it back to `quoted` (useSellCall.ts:340).
* A second click while the health check is awaited runs `handleRequestQuote` twice
  (target-composer.tsx:298): a second deposit, and a quote that arrives under no frozen order.
* `replaceAccounts` and `upsertAccount` do not look at `selectionLocked` (account.ts:112), and a cached
  list replaces an account that was just created (useCoveredCallSubaccount.ts:240).
* A withdrawal may leave a terminal status again: `reconcileUnknown` (withdrawal.ts:746) and the final
  put of `executeSubmission` (withdrawal.ts:691) write what an older read implied. `OpOutcomeIsTrue`
  holds all the same, since what is written then is `unknown` or `submitted`, both unfinished.
* The deficit a deposit covers is computed from a balance that is polled and not read again after the
  deposit (target-composer.tsx:303).

### Bounds

`MaxCrashes` is 1 in the engines' runs: recovery is entered from every state, also from states in
which the executor, a handler and a reconciliation are all half-way. A crash during
recovery needs a second one; the proofs about either engine cover any number. It is 2 for the
journal, where a crash after a torn tail is the interesting case. `MaxPutFailures` is 1 in the
safety runs (a failing put ends its handler, so two failures meet only in different handlers) and 0
in `auction_liveness`, which would take several minutes otherwise, `MaxPuts` 3 and `MaxErrors`
1 for the journal: a record needs a first version, a torn one and one appended after it. The proofs
have no such bounds.

For the directory, `MaxBlocks` 4 with one confirmation leaves three blocks to index, a full chunk and a
partial one; `MaxDepth` 2 is the first depth that reaches an indexed block; `MaxEvents` is 1, so two
events of an account lie in two blocks, and the order inside a block is not exercised. A
reorganisation no deeper than the confirmations may come at any time; one block deeper, so that the
checkpoint is no longer canonical and everything is rebuilt, only between two passes. This restriction
is needed: with `DeepAnytime = TRUE` `ProjectionExact` fails within ten steps, since `syncOnce` compares
the checkpoint only when it starts and reads a chunk's hash after its events. The expiry index has
the restriction too, for the same reason: in `DropBlocks` what is final when a pass reads the head stays
while the pass lasts, however many reorganisations there are.

In `oracle`, `MaxReorgs` and `MaxFaults` are 1 and may fall anywhere; the window of the integral is three
seconds in a clock of six, so that it is entered by a first observation, a late one and a backfill;
the feed has two phases of three rounds, the smallest search with a probe on each side; the token
has four times, for an announcement, its replacement, and a time past both.

In `parts`, two of everything that competes: requests, workers, bots, connections, wallets, orders,
calls. A web part is followed until `overtaken`, `overlapped` or `crossed` is set: what its
property claims ends there, and what may happen then is in the violations and notes. `Hasty` is TRUE, so
the user may act during a health check. `MaxGets` is 1: a poll begins
when no status request is in progress, while those of failed submissions and of reloads come at any time, so a
submission and its answer overtake a poll, and a failed one asks beside it. `MaxReloads` is 1: a reload finds
anything that may be in storage. The proofs cover any number of both. `MaxSwitches` counts connections, page loads and locks of the selection.

`CHECK_DEADLOCK FALSE` appears in `oracle`, `parts` and the runs of single parts: once a bounded number
of puts, blocks, requests or reloads is used up the part stops. A deadlock of the locks would
still fail `CallsReturn`. In the engines a state without a step is an error, except when every
record is terminal (`Quiescent`, `OpsQuiescent`, `ServiceQuiescent`).

The clients of the withdrawal model are interchangeable, so `withdrawal` and `withdrawal_latch` use
symmetry over them; no liveness run does.

### Fairness

For the engines, assumed: ready continuations and due timers run (the event loop), a stopped process is
started again (its supervisor), RPC calls end with an answer or a timeout, reads do not fail for ever
(strong fairness of the two reading steps of a reconciliation), and time passes, both the wall clock
and block timestamps. In `service` also: a withdrawal's task that asks for its account key gets it
when the key is free again and again (strong fairness of `TaskStart`), because the lock is first come
first served; this is what `FirstComeFirstServed` shows of the lock and `LockServesInOrder` proves.
Not assumed: that any client quotes, accepts, cancels or asks; that a node accepts a transaction; that
the mempool mines it.

For the locks in `parts`, only that some call goes on while one can. For the directory: the worker's
next call is eventually made and returns or throws (its timer is re-armed whatever happens), and only
finitely many passes fail.

For the oracle daemon: its loops run again after their interval (`runPeriodic`), a call of a sync ends
with an answer or an error, blocks are mined, cooldowns end, and somebody fixes a price that can be
fixed. Failures and stops are finitely many.

### Mutants

Definitions commented "Mutant:" are changed forms of the definition that follows them, one for each
property of a run: a dropped guard, a missing reset, a latch not taken. Each makes its property fail.

## 4. Proofs

`tlapm` checks the modules named `..._proofs` and `FiniteSums`. TLC checked each inductive invariant on
small instances before it was proved. The theorems hold for every value of the constants that the
named assumptions of the modules allow: any finite sets of RFQs, quotes, accounts, withdrawals, wallets and
rounds, any number of crashes, failing puts and reloads. Where a theorem needs more than that it
states it as its own hypothesis, and each of these is named below.

**The lock** (`Services_proofs`), from `LockAssumption`. The inductive invariant says: tickets of
a key are distinct and the newest unsettled run is its tail; a run is chained after the run whose
ticket is the next lower one, or after nothing when all lower ones have settled. So a run starts
only when every earlier run for the key has settled, which gives `LockServesInOrder` and
`LockMutualExclusion`, and with them the refinement `LockRefinesKeyedMutex`. Mutual exclusion alone
is not inductive: it needs the order of the chain.

**The journal** (`Services_proofs`), from `JsonlAssumption`, for any records, puts, errors and crashes.
`JournalRefinesDurableMap` is the refinement `ImplementsDurableMap`: what the engines see of a record is
its index entry while the process runs and what `load()` would find while it is down. The step that
needs an invariant is the crash, where the one replaces the other: `IndexIsInFile` says that the file
of a process that runs has what the index has, or more, unless it is torn, and `OnlyBegun` that it has
nothing that no put began. Torn is for good (`AppendsKeep`), and while a file is not torn an append changes the
latest line of its own id only. In a torn file the latest line may be older than the index, which is
what `jsonl_torn` shows, so a crash of a process that runs on a torn file is the one step left out, as
in the property; its puts and its restart are proved for a torn file too.

**The executor under the RFQ engine** (`AuctionEngine_proofs`, with lemmas about the submitter's
steps in `TxSubmitter_proofs`), from `SubmitterAssumption`, `ProcessAssumption` and
`AuctionAssumption`, for any sets of RFQs, quotes and accounts and any number of crashes and failing
puts. `OneLiveTx` speaks of the chain only, and nothing about it is inductive: the invariant ties
four things together.

* `CallOK`: where a call is (`wpc`), what has been sent, and what the chain may have made of it.
* `QueueOK`: the calls that have not returned are the queue, without repetition, and only its head is
  past the guard.
* `Guarded`: a transaction that can still change the chain is covered by its own call being in the
  executor's section, by a latch, by a turn that `recover()` still owes it, or by the process being
  down.
* `RecordOK`: a live or mined transaction belongs to a record that says so; a handler or a
  reconciliation under way owns an `executing` record.

A call enters the section only when nothing is latched, which needs that nothing else is live:
hence `ExecutorIsExclusive`. Of these, what an RFQ is responsible for is `RfqIInv`; that no operation of
another kind is under way is `OthersIdle`, and both are `ExecutorIInv`. The same invariant gives `NothingIsResubmitted`, `OutcomesAreTrue` and,
with it for the step, `OutcomesAreFinal`.

**Books, reservations and makers' cash** (`AuctionEngine_proofs`). `BookIInv` ties memory to
the journal record by record: a served record's standing quotes are reserved and nothing else is, and
while `recover()` runs this is so for the records it has reached. That gives `AuctionTypes`,
`WinnerStaysBest` and `ReservationsAreExact`. `WinnerIsBest` says that the locked
winner is what `selectBestQuote` returns for the stored book; that this is always a quote of the book is
proved by induction over its length (`BestIsOnBook`). `MakersStaySolvent` needs more, and has one
hypothesis, that no account starts with a debt. `Solvent` is not inductive for three reasons, each a part of `FundsIInv`, which
is `CountsIInv`, what the handlers have counted, and for every account `PaidFor`, that its cash pays for it:

* a crash empties `reserved`, so the cash must cover what the journal would reserve again, not what
  is reserved now (`CoveredOK`);
* a quote is admitted long after its reservations were summed and after its cash was read, so what
  can only have shrunk since is compared with the sum (`CountedOK`), and with the cash
  (`FundedOK`). That nothing was added for its account in between is the account's key (`OfferOK`);
* a match may debit the cash between the two reads: it takes the same cost out of what is owed.

The sums are `MapThenSumSet` of the community modules, a fold over a set. `FiniteSums` proves what
is needed of it (an empty sum, one more element, monotonicity, a part of a set) by induction over
the subsets of a finite set. The library's induction theorems that take a predicate cannot be
instantiated here, but its theorems on well-founded orders quantify over sets, and the induction
hypothesis can be made a set of numbers or of subsets.

**Withdrawals** (`WithdrawalEngine_proofs`) are the withdrawal engine by itself, `WithdrawalSpec`, with
no auction beside it. Three layers:

* `ControlIInv` says what a request and a background task that are under way still know of the
  operation's record and of the chain. Lookups take no lock, so each of their facts has to be one that
  no later step of the task can undo. From it follow `WithdrawalTypes`, `OpOutcomesAreTrue` and
  `WithdrawalsAreSentOnce`.
* `AloneIInv` gives `WithdrawalsShareTheExecutor`. It follows a live transaction through the states in which
  no latch holds it (`OpsGuarded`): its call is in the executor's section or about to be handled, the
  process is down, its record waits for `recover()`, or `recover()` is looking it up at this moment.
* `OpFundsIInv` gives `WithdrawalsNeverOverdraw`: what the final policy check has read of an account is
  still there at the hand-over, and until the transaction is mined. Another holder of the
  executor's key may send a signed action first (`Stolen`); then the account is not answered for until
  this process hands the same transaction over itself. Like
  `MakersStaySolvent` it assumes that no account starts with a debt.

**Both engines in one process** (`RfqEngine_proofs`), from the assumptions of both and
`ServiceAssumption`, that RFQs and withdrawals have different ids (all are `randomUUID()`s). Neither
engine's invariant is repeated: the lemmas of both are cited for the steps of either. This needs two arguments.

* `Beside`: a step of one engine concerns one operation of its own. It leaves the call, the transaction,
  the latch and the account key of every other operation alone, and takes its own turn of `recover()` only.
  The hash latch and `LostBroadcast` are one each for all operations: another operation's hash is only replaced by
  a call that is past the guard, where nothing else is live, and `LostBroadcast` is not cleared while a call that lost
  its answer is still to be handled. Hence what one engine keeps alone survives any step of the other.
* A call that passes the executor's guard finds nothing in the air (`RfqsFindItClear`,
  `WithdrawalsFindItClear`). Each engine alone knew this of its own operations; of the other's it follows
  from the other's invariant: whatever is live there is latched, is at the front of the queue, or belongs to a
  record that `recover()` has yet to look up, and until then nothing is served.

So `SharedIInv` is kept (`ServiceInvariant`), and gives `ServiceIsExclusive`, `ServiceSendsOnce`,
`ServiceOutcomesAreTrue` and `ServiceReservesExactly`.

`QuotesStayCovered` is the property `ReservationsStayCovered` of the `service` run. Its invariant
`ServiceIInv` adds what a withdrawal's task knows of its account. The task holds the account key until it ends
(`HoldsKey`); the cash that its policy check read stays until it has summed (`SnapshotOK`), because only a
transaction could take it and the check has the front place of the executor's queue; what it sums is at least what is owed,
because a serving engine reserves exactly the standing quotes (`ReservedCoversOwed`). So once cleared a withdrawal is
payable besides all quotes, until it is settled (`ClearedOK`): quotes of the account wait for the key, and a
match takes the same cost out of what is owed. A withdrawal whose task gave it up no longer holds the key, which is the
property's stated exception. The hypothesis is `KeyIsOwn`, that this process alone holds the
executor's key, as in the run: another holder's withdrawals pass no check of this process.

**The web application** (`WebApp_proofs`): four parts that share no variable, each with an invariant
of its own. For repayments and sales it says what the one call under way knows of storage and of the
form, and that nothing else is under way that could change it. For withdrawals it follows a signed
operation through every answer that may be lost or late (`Followed`). For accounts no control is locked: the
invariant says of every answer under way whose it is (`OwnStore`). None of the four theorems has a hypothesis on
the constants, so `SelectionsAreOwn` is about any user, any connection and any storage, and `DebtsAreRepaidOnce`,
`SignaturesAreShown` and `SignaturesAreRemembered` are too, for every behaviour up to the step that sets
`overlapped`, `crossed` or `overtaken`: what the code does not prevent is in the model, and the claim ends there
and not before. The last theorem says under `~overtaken` also that there is no second withdrawal. That these
claims cannot be made for whole behaviours is what `web_sale`, `web_withdraw` and the five steps noted for `repay` show.

**Quote admission** (`Services_proofs`). A worker's decision was taken on a snapshot, and is about the
ledger as it is only while the ledger has the snapshot's version. The invariant says of an attempt what its
snapshot was, or what its quote would give, just while that is so; every change of the ledger makes all
other attempts stale. No measure is negative, so whichever quotes are filled measure no more than all of
them, and a fill moves its measures from the quotes to the positions: `FillsStayWithinLimits`.

**The settlement feed** (`Oracle_proofs`). What the binary search returns is proved by induction
over the length of its interval, for any number of rounds of which any may be incomplete: every round
before the one found is too early, up to an incomplete one just before it. `RoundsInOrder` says that
complete rounds are in order within a phase and after those of earlier phases, hence `AnchorsAreFirst`. A
proposal is executable no sooner than the shortest delay after it was made, whatever the delay
has been set to since (`ProposalsWait`), hence `PricesAreFixedOnceAndWaited`. `FeedAssumption` asks that the
owner's delays are finitely many, so that there is a shortest, and that an owner's price is not
taken for an anchored one, which is a matter of the model's values only.

**The settlement integral** (`Oracle_proofs`). The property compares whole numbers only: both sides are taken
times the factorial of the expiry, a multiple of every distance, which is proved to exist and to be
positive (`FactorialIs`, `FactorialPositive`). An observation in the window adds its interval's area but for a half
(`InsideDrift`); where the window starts inside the interval, the price there is rounded once and counts for
no more than the window (`StraddleDrift`). The property is not inductive: a stop between the two
saves of a first observation leaves a series with no integral and an area. `TwapIInv` says that every series is either
such a first one or has the area of its observations, and that an unfilled one is met only by a later
observation, which fills it (`BackfillIs`), never by one of its own block, whose answer would be posted as it
is. Hence `PostsAreTheArea`. The clock cannot be at the same block after a failure: the interval and the
start take longer than a block.

**The expiry index** (`Oracle_proofs`). What a replay returns is proved by induction over the blocks replayed:
replays of equal blocks are equal (`AfterAgrees`), and one that goes on where another ended is one replay
(`AfterComposes`). `CheckpointVouches` is not inductive, since it says nothing of a state whose block was
dropped, and another block may be mined at its height. `StateOK` says whose hash that state carries: of an
earlier fork than any later block has. So the comparison of `ensureCheckpointCanonical` tells the two
apart, and `PassOK` says that a pass that was let through replays onto exact balances, in blocks
that stay while it lasts. Hence `CheckpointsVouch`, for any number of reorganisations of any depth.

**The multiplier registry** (`Oracle_proofs`). Up to the pending checkpoint the history is what the token
applied; from it on the pending checkpoint is, or its time is still to come and so is the change it is for,
or the one that replaced it (`Faithful`). `HistoryExact` is kept by every call alone; what needs more is the
clock: when a change takes effect it must be pending already. That is what a whole pass of the keeper
leaves behind (`HeardOK`), and a pass that begins after a change reads the token as it still is when it ends.
With a faithful history `checkpointCurrent` only reconciles (`CurrentIs`). Hence `HistoriesAreExact`.
`MultiplierAssumption` asks that the model's value for a revert is neither a checkpoint nor a history.

**The hedge** (`Services_proofs`). A plan rounds to within half a lot of its target and moves by a lot at
least, so no point on the way is further from the target than the start (`OnTheWayIsNearer`). That the
position stays on the way is not inductive for the two orders of a crossing: it needs that only the
second one can take the position past zero (`Filled`). Hence `HedgesOnlyImprove`.

**The maker channel** (`Services_proofs`). `onMakerMessage` supersedes the maker's other sessions and names
the new one in one tick, hence one session. The auctions to replay are listed in the same tick, so an
auction is among them or is announced to the session later. From then on every step that takes it from the
replay, the queue or the bot's work puts it into the next of these (`Reached`), unless the auction is
over; for that the invariant needs that `rfq_closed` is only sent of a closed auction (`ClosedIsTrue`), and
that no two bots share a connection. Hence `AuctionsReachMaker`. `MakerAssumption` asks for finitely many
auctions, so that a replay is a sequence.

**The preparation of a withdrawal** (`Services_proofs`). The bisection is proved, by induction over the length of
its interval, to find the most that passes (`FindMaximumIsMost`); with the roundings of
`toTokenUnitsFloor` and of the quanta, whole quanta up to `maximum` are exactly what is withdrawable
(`JudgedByTheMaximum`). The block of a number may change between the reads. `RequestOK` says that what a
request computed is about its pin if the pin is the block of its number: a replacement is never a block that was
read before, so a read of another block is noticed by the last look. Whoever is past the gate is its first and
the key is free, which failing puts and stops keep. Hence `WithdrawalsArePreparedAsAsked`. The margin's
answer is assumed to be monotone in the amount, as the code assumes it.

**The directory's checkpoint** (`Services_proofs`). The comparison at the start of a pass tells whether the
checkpoint's history is on the chain. The checkpoint and what the pass reads are confirmed blocks, which a
reorganisation within the confirmations keeps (`ChainKeeps`), so this stays true, while calls fail and
chunks are saved, until the pass has replaced the checkpoint or dropped it (`DirectoryPassOK`). Hence
`CheckpointsOnlyExtend`, under the hypothesis `~DeepAnytime` of the run: a reorganisation deeper than the
confirmations falls between two passes.

**The directory's rows** (`Services_proofs`). `Sorted` is proved, by counting (`EveryPlaceIsTaken`), to list
each log once and in order (`SortedIs`), and the projection of a list to give each account the newest of its logs
(`ProjectionIs`). Neither is inductive: a chunk that was applied and not saved leaves rows ahead of the
checkpoint, and the next pass applies its logs again. `RowsOK` says that the rows are always those of the first
logs of the chain: of all up to the checkpoint, of none beyond the confirmed head, and of no log
without those before it (`Ahead`). A log that is newer than its account's row is then the next one, and one that
is not is among them already (`AppliesNext`), so repeating is harmless; after a whole pass they are exactly
the checkpoint's (`Exact`). A deep reorganisation leaves rows that are not the chain's, which the
comparison finds and the reset drops before anything is applied. Hence `RowsAreTheProjection`, and
`AnswersAreExact`, since an answer is read in one step from rows of which this holds; both under
`~DeepAnytime`. `RowAssumption` asks that the model's value for no row is not a row.

**Only model-checked**: all liveness, and with it the deadlock-freedom of nested keys, since the prover
does not know ENABLED and fairness; and the type invariants of
the two composed runs (`OracleTypeOK`, `PartsTypeOK`).

## 5. Plan

1. Done: lock, executor, RFQ engine, withdrawals from their preparation on, service, journal,
   subaccount directory, maker channel, the oracle side's index, loops, windows, feed and registry, quote
   admission, hedge plans, and the web application's funds, accounts and sales; the proofs above.
2. Left to TLC: what section 4 lists as only model-checked.

### Not modelled

* The market catalogue and configuration: pure functions of the environment and the clock.
* The volatility models, option pricing and the pricing half of `quote-engine.ts`: floating point,
  where TLC has integers.
* The publisher's sources and its transaction queue, the signed and the benchmark settlement of
  `settlement.ts`, and the feeds that read and scale one value: what they send is fetched elsewhere, and
  they keep no history a later step depends on.
* The server's taker channel, its rate limiter and the parsing of requests; the pages of a DynamoDB
  query and the in-memory store of the tests.
* The shared library with its ABIs, and the web application's components that only show state, with its
  position and price queries.
* The deployment scripts and the end-to-end harness: run once, in order, by one actor.

Much of the repository's volume is of these kinds, ABIs, components, pricing and command lines above
all, so the share of lines that definitions map to stays well below that of the behaviour covered.
