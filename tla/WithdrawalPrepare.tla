------------------------- MODULE WithdrawalPrepare -------------------------
(***************************************************************************)
(* WithdrawalEngine.prepare and putIfIdempotencyAbsent, inside: a request  *)
(* for an amount of cash under an idempotency key is looked up, judged by  *)
(* the largest amount that can be withdrawn at the latest block, and       *)
(* recorded once.  Requests, blocks, one-block reorganisations,            *)
(* reservations of the RFQ engine and stops of the process interleave.     *)
(*                                                                         *)
(* External: the chain, and WithdrawalModule as simulateAssetWithdrawal    *)
(* shows it.  Wrapped assets take the same path without the reservation.   *)
(* Nothing here is near the 96 rounds after which the search gives up.     *)
(***************************************************************************)
EXTENDS Integers, SequencesExt

CONSTANTS
    Askers,         \* concurrent requests
    AskKeys,        \* idempotency keys, with their owner
    Amounts,        \* token units asked for
    CashStates,     \* what a block may say of the subaccount
    Reservations,   \* what reservedCash may say
    Conversions,    \* 18-decimal units a token unit holds, or the reverse
    NoAsk,          \* no request
    NoOperation,    \* no operation has the key
    MaxAsks,        \* bound: requests
    MaxPins,        \* bound: blocks
    MaxUndone       \* bound: reorganisations, failed puts and stops

ASSUME PrepareAssumption ==
    /\ Amounts \subseteq Nat \ {0} /\ Reservations \subseteq Nat
    /\ CashStates \subseteq [cash : Int, liquidity : Nat, free : Nat]
    /\ Conversions \subseteq [scale : Nat \ {0}, quantum : Nat \ {0}]
    /\ NoOperation \notin [key : AskKeys, amount : Amounts, id : Nat, by : Askers]
    /\ MaxAsks \in Nat /\ MaxPins \in Nat \ {0} /\ MaxUndone \in Nat

VARIABLES
    units,          \* one of Conversions, throughout
    pins,           \* the chain: its blocks
    ask,            \* ask[c]: the request c
    gate,           \* idempotencyTail: the requests chained on it, in order
    operationOf,    \* idsByKey and the operation it leads to
    asked,          \* requests so far
    undone,         \* reorganisations, failed puts and stops so far
    prepared,       \* history: the operations ever answered
    verdict         \* history: the last amount judged, and where

prepareVars == <<units, pins, ask, gate, operationOf, asked, undone, prepared,
                 verdict>>

-----------------------------------------------------------------------------
AtLeastZero(n) == IF n > 0 THEN n ELSE 0
Least(a, b) == IF a <= b THEN a ELSE b

\* toTokenUnitsFloor
TokenUnitsFloor(amount) == (AtLeastZero(amount) \div units.scale) * units.quantum

\* The upper end of the search: the cash no quote is counted on, what the
\* token contract holds, in whole quanta.
Upper(s, reserved) ==
    LET most == Least(TokenUnitsFloor(s.cash - reserved), s.liquidity)
    IN  (most \div units.quantum) * units.quantum

\* simulateAssetWithdrawal at a block: the margin allows it.
Simulated(s, amount) == amount <= s.free

\* findMaximum: the whole amount, else a bisection between one that passes and
\* one that fails.
FindMaximum(s, upper) ==
    LET search[r \in (0..upper) \X (0..upper)] ==
            LET candidate == (r[1] + r[2]) \div 2
            IN  IF r[1] + 1 >= r[2] THEN r[1]
                ELSE IF Simulated(s, candidate) THEN search[<<candidate, r[2]>>]
                     ELSE search[<<r[1], candidate>>]
    IN  IF Simulated(s, upper) THEN upper ELSE search[<<0, upper>>]

-----------------------------------------------------------------------------
PrepareInit ==
    /\ units \in Conversions
    /\ pins \in {<<[fork |-> 0, state |-> s]>> : s \in CashStates}
    /\ ask = [c \in Askers |-> NoAsk] /\ gate = <<>>
    /\ operationOf = [k \in AskKeys |-> NoOperation]
    /\ asked = 0 /\ undone = 0 /\ prepared = {} /\ verdict = NoAsk

\* The request ends with the operation, or with an error.
Answered(c, o) ==
    /\ ask' = [ask EXCEPT ![c] = NoAsk]
    /\ prepared' = prepared \cup {o}
Failed(c) == ask' = [ask EXCEPT ![c] = NoAsk] /\ UNCHANGED prepared

\* The operation the key already has: the answer, if it was asked for alike.
Replayed(c, k, amount) ==
    IF operationOf[k].amount = amount THEN Answered(c, operationOf[k]) ELSE Failed(c)

\* prepare, up to its first lookup of the key
Asks(c, k, amount) ==
    /\ ask[c] = NoAsk /\ asked < MaxAsks
    /\ asked' = asked + 1
    /\ IF operationOf[k] # NoOperation
       THEN Replayed(c, k, amount)
       ELSE /\ ask' = [ask EXCEPT ![c] = [at |-> "pin", key |-> k, amount |-> amount]]
            /\ UNCHANGED prepared
    /\ UNCHANGED <<units, pins, gate, operationOf, undone, verdict>>

\* The previewed block stands and is fresh, and latestBlock pins another; or
\* PREVIEW_EXPIRED.
Pins(c) ==
    /\ ask[c] # NoAsk /\ ask[c].at = "pin"
    /\ \/ /\ ask' = [ask EXCEPT ![c] =
                [at |-> "snapshot", key |-> @.key, amount |-> @.amount,
                 number |-> Len(pins), pin |-> Last(pins)]]
          /\ UNCHANGED prepared
       \/ Failed(c)
    /\ UNCHANGED <<units, pins, gate, operationOf, asked, undone, verdict>>

\* snapshot reads the block of that number, and reservedCash what the RFQ
\* engine holds back by then; or the snapshot shows a blocker.
ReadsSnapshot(c, held) ==
    /\ ask[c] # NoAsk /\ ask[c].at = "snapshot"
    /\ \/ /\ ask' = [ask EXCEPT ![c] =
                [at |-> "search", key |-> @.key, amount |-> @.amount, number |-> @.number,
                 pin |-> @.pin, reserved |-> held,
                 upper |-> Upper(pins[@.number].state, held)]]
          /\ UNCHANGED prepared
       \/ Failed(c)
    /\ UNCHANGED <<units, pins, gate, operationOf, asked, undone, verdict>>

\* The largest amount that a withdrawal of whole quanta can have.
ProtocolMax(c, s) ==
    (FindMaximum(s, ask[c].upper) \div units.quantum) * units.quantum

\* The simulations at the block of that number.
Searches(c) ==
    /\ ask[c] # NoAsk /\ ask[c].at = "search"
    /\ ask' = [ask EXCEPT ![c] =
            [at |-> "canonical", key |-> @.key, amount |-> @.amount, number |-> @.number,
             pin |-> @.pin, reserved |-> @.reserved,
             maximum |-> ProtocolMax(c, pins[@.number].state)]]
    /\ UNCHANGED <<units, pins, gate, operationOf, asked, undone, prepared, verdict>>

\* The pinned block is still the block of its number.
Canonical(c) == pins[ask[c].number] = ask[c].pin

\* Unaligned or above the maximum, the request is refused.
Allowed(c) == ask[c].amount % units.quantum = 0 /\ ask[c].amount <= ask[c].maximum

\* The last look at the chain, the verdict, and putIfIdempotencyAbsent up to
\* its wait for the earlier calls.
Judges(c) ==
    /\ ask[c] # NoAsk /\ ask[c].at = "canonical"
    /\ verdict' = IF Canonical(c)
                  THEN [amount |-> ask[c].amount, of |-> ask[c].pin.state,
                        reserved |-> ask[c].reserved, allowed |-> Allowed(c)]
                  ELSE verdict
    /\ IF Canonical(c) /\ Allowed(c)
       THEN /\ ask' = [ask EXCEPT ![c] = [at |-> "gate", key |-> @.key, amount |-> @.amount]]
            /\ gate' = Append(gate, c)
            /\ UNCHANGED prepared
       ELSE Failed(c) /\ UNCHANGED gate
    /\ UNCHANGED <<units, pins, operationOf, asked, undone>>

\* Mutant: nobody waits for the calls before.
GateOpensAnyway(c) == TRUE

\* The calls chained before this one have settled.
GateOpens(c) == Head(gate) = c

\* getByIdempotencyKey once more; with an operation there, the call is over.
ChecksKey(c) ==
    /\ ask[c] # NoAsk /\ ask[c].at = "gate" /\ GateOpens(c)
    /\ IF operationOf[ask[c].key] # NoOperation
       THEN Replayed(c, ask[c].key, ask[c].amount) /\ gate' = Tail(gate)
       ELSE /\ ask' = [ask EXCEPT ![c].at = "put"]
            /\ UNCHANGED <<gate, prepared>>
    /\ UNCHANGED <<units, pins, operationOf, asked, undone, verdict>>

\* put: the operation is on file and in memory, or the put throws and leaves
\* nothing of it; either way the gate opens.
Puts(c) ==
    /\ ask[c] # NoAsk /\ ask[c].at = "put"
    /\ LET o == [key |-> ask[c].key, amount |-> ask[c].amount, id |-> asked, by |-> c]
       IN  \/ /\ operationOf' = [operationOf EXCEPT ![o.key] = o]
              /\ Answered(c, o)
              /\ UNCHANGED undone
           \/ /\ undone < MaxUndone /\ undone' = undone + 1
              /\ Failed(c)
              /\ UNCHANGED operationOf
    /\ gate' = Tail(gate)
    /\ UNCHANGED <<units, pins, asked, verdict>>

-----------------------------------------------------------------------------
\* A block with another state of the subaccount.
PinMined(s) ==
    /\ Len(pins) < MaxPins
    /\ pins' = Append(pins, [fork |-> undone, state |-> s])
    /\ UNCHANGED <<units, ask, gate, operationOf, asked, undone, prepared, verdict>>

\* The last block is replaced.
PinReplaced(s) ==
    /\ undone < MaxUndone /\ undone' = undone + 1
    /\ pins' = [pins EXCEPT ![Len(pins)] = [fork |-> undone', state |-> s]]
    /\ UNCHANGED <<units, ask, gate, operationOf, asked, prepared, verdict>>

\* The process stops and comes back with its journal.
PrepareStops ==
    /\ undone < MaxUndone /\ undone' = undone + 1
    /\ ask' = [c \in Askers |-> NoAsk] /\ gate' = <<>>
    /\ UNCHANGED <<units, pins, operationOf, asked, prepared, verdict>>

PrepareNext ==
    \/ \E c \in Askers :
          \/ \E k \in AskKeys, n \in Amounts : Asks(c, k, n)
          \/ \E n \in Reservations : ReadsSnapshot(c, n)
          \/ Pins(c) \/ Searches(c) \/ Judges(c)
          \/ ChecksKey(c) \/ Puts(c)
    \/ \E s \in CashStates : PinMined(s) \/ PinReplaced(s)
    \/ PrepareStops

PrepareSpec == PrepareInit /\ [][PrepareNext]_prepareVars

-----------------------------------------------------------------------------
\* Requests, the gate and the operations have their types.
PrepareTypeOK ==
    /\ units \in Conversions /\ Len(pins) \in 1..MaxPins
    /\ \A c \in Askers : ask[c] = NoAsk \/ (ask[c].key \in AskKeys /\ ask[c].amount \in Amounts)
    /\ ToSet(gate) \subseteq Askers /\ IsInjective(gate)
    /\ \A k \in AskKeys : operationOf[k] = NoOperation \/ operationOf[k].key = k
    /\ asked \in 0..MaxAsks /\ undone \in 0..MaxUndone

\* The amounts a withdrawal may have in a state of the subaccount: whole
\* quanta, out of unreserved cash that the token contract can pay, and with
\* the margin's consent.
Withdrawable(s, reserved) ==
    {n \in 1..s.liquidity :
        /\ n % units.quantum = 0
        /\ n * units.scale <= (s.cash - reserved) * units.quantum
        /\ Simulated(s, n)}

\* A key leads to one operation in every answer, for the amount asked, whoever
\* asks at once, fails or asks again after a stop; and an amount is allowed
\* exactly when it is withdrawable at the block that was pinned (prepare,
\* findMaximum, putIfIdempotencyAbsent).
PreparedAsAsked ==
    /\ \A o, q \in prepared : o.key = q.key => o = q
    /\ \A o \in prepared : operationOf[o.key] = o
    /\ verdict # NoAsk =>
          (verdict.allowed <=> verdict.amount \in Withdrawable(verdict.of, verdict.reserved))
=============================================================================
