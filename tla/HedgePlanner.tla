---------------------------- MODULE HedgePlanner ----------------------------
(***************************************************************************)
(* The market maker's delta hedge: planHyperliquidHedge                    *)
(* (hyperliquid-plan.ts, order-book.ts) as a function of the position, and *)
(* the orders of its plans at the venue.  The venue and the coordinator    *)
(* that submits and reconciles are external, as docs/HYPERLIQUID_HEDGING.md *)
(* requires them: orders arrive in any order, may be sent again or never   *)
(* arrive, fill once and in part, and the next plan waits until they are   *)
(* all reconciled.  Quantities are whole units, a lot several of them; the *)
(* book is the quantity inside the slippage cap.                           *)
(***************************************************************************)
EXTENDS Integers, Sequences, SequencesExt

CONSTANTS
    Lot,          \* hedge.lotSizeUnderlying
    Band,         \* hedge.noTradeBandUnderlying
    MinimumOrder, \* hedge.minimumOrderNotionalUsd over the oracle price
    Deltas,       \* confirmed option deltas the portfolio goes through
    Depths,       \* what the book may hold inside the slippage cap
    Permitted,    \* equity times maximumCollateralUsageFraction, in units
    UsedMargins,  \* market.currentMarginUsedUsd, in units
    MaxRevision,  \* bound: portfolio revisions
    NoPlan

ASSUME HedgeAssumption ==
    /\ Lot \in Nat \ {0} /\ Band \in Nat /\ MinimumOrder \in Nat
    /\ Deltas \subseteq Int /\ Depths \subseteq Nat /\ UsedMargins \subseteq Nat
    /\ Permitted \in Nat /\ MaxRevision \in Nat

VARIABLES
    optionDelta,  \* confirmedOptionDeltaUnderlying
    perp,         \* the venue's position, long positive
    revision,     \* portfolioRevision
    hedge,        \* the plan being carried out, or NoPlan
    answered      \* client order ids the venue has seen

hedgeVars == <<optionDelta, perp, revision, hedge, answered>>

-----------------------------------------------------------------------------
Abs(q) == IF q < 0 THEN -q ELSE q
Sign(q) == IF q > 0 THEN 1 ELSE IF q = 0 THEN 0 ELSE -1
SmallerOf(a, b) == IF a <= b THEN a ELSE b
LargerOf(a, b) == IF a <= b THEN b ELSE a

\* Mutant: always up to the next lot.
NearestLotUp(q) == Sign(q) * Lot * ((Abs(q) + Lot - 1) \div Lot)

\* nearestLotQuantity: ties go to the smaller quantity.
NearestLot(q) ==
    LET lower == (Abs(q) \div Lot) * Lot
        upper == ((Abs(q) + Lot - 1) \div Lot) * Lot
    IN  Sign(q) * (IF Abs(q) - lower <= upper - Abs(q) THEN lower ELSE upper)

CrossesZero(from, to) == from # 0 /\ to # 0 /\ Sign(from) # Sign(to)

\* Toward zero without crossing it: a reduction needs no margin.
Reduces(from, to) == Abs(to) < Abs(from) /\ ~CrossesZero(from, to)

\* Projected stressed margin: what is used, the initial margin of an increase
\* and a stress buffer on the whole position, each at a rate of one.
StressedMargin(used, from, to) == used + LargerOf(0, Abs(to) - Abs(from)) + Abs(to)

\* One IOC order, or two when the position changes sign.
Orders(from, to) ==
    LET side == Sign(to - from)
        order(qty, reduceOnly) == [side |-> side, qty |-> qty, reduceOnly |-> reduceOnly]
    IN  IF CrossesZero(from, to)
        THEN <<order(Abs(from), TRUE), order(Abs(to), FALSE)>>
        ELSE <<order(Abs(to - from), Reduces(from, to))>>

\* simulateBoundedIoc: the book holds the quantity within the slippage cap.
Executable(quantity, depth) == Abs(quantity) <= depth

HedgeInit ==
    /\ optionDelta = 0 /\ perp = 0 /\ revision = 0
    /\ hedge = NoPlan /\ answered = {}

\* Fills and the market move the confirmed delta of the options.
DeltaMoves(d) ==
    /\ d # optionDelta /\ optionDelta' = d
    /\ UNCHANGED <<perp, revision, hedge, answered>>

\* planHyperliquidHedge once the snapshot has passed its gates (identity,
\* health, age, confidence, divergence, spread): a plan, or nothing to do, or
\* blocked for the minimum order, the depth or the margin, which change nothing.
\* The pending quantity is zero: the orders of the last plan are reconciled.
Plan(depth, used) ==
    /\ hedge = NoPlan
    /\ LET residual == -optionDelta - perp
           quantity == NearestLot(residual)
           projected == perp + quantity
       IN  /\ Abs(residual) > Band
           /\ Abs(quantity) >= Lot /\ Abs(quantity) >= MinimumOrder
           /\ Executable(quantity, depth)
           /\ Reduces(perp, projected) \/ StressedMargin(used, perp, projected) <= Permitted
           /\ hedge' = [target |-> -optionDelta, start |-> perp, projected |-> projected,
                        orders |-> Orders(perp, projected)]
    /\ UNCHANGED <<optionDelta, perp, revision, answered>>

\* The venue takes an order of the plan that it has not seen by its client id
\* and fills a part of it; a reduce-only order reduces the position at most to
\* nothing.  Sent again, the order is refused.
Fill(i, lots) ==
    /\ hedge # NoPlan /\ i \in DOMAIN hedge.orders /\ i \notin answered
    /\ LET o == hedge.orders[i]
           most == IF ~o.reduceOnly THEN o.qty
                   ELSE IF Sign(perp) = -o.side THEN SmallerOf(o.qty, Abs(perp)) ELSE 0
       IN  /\ lots * Lot <= most
           /\ perp' = perp + o.side * lots * Lot
    /\ answered' = answered \cup {i}
    /\ UNCHANGED <<optionDelta, revision, hedge>>

\* Every order was answered or is found never to have arrived before its
\* expiresAt: the position is read again, under the next revision.
Reconcile ==
    /\ hedge # NoPlan /\ revision < MaxRevision
    /\ hedge' = NoPlan /\ answered' = {} /\ revision' = revision + 1
    /\ UNCHANGED <<optionDelta, perp>>

MostLots == Max({0} \cup Depths) \div Lot

HedgeNext ==
    \/ \E d \in Deltas : DeltaMoves(d)
    \/ \E depth \in Depths, used \in UsedMargins : Plan(depth, used)
    \/ \E i \in 1..2, lots \in 0..MostLots : Fill(i, lots)
    \/ Reconcile

HedgeSpec == HedgeInit /\ [][HedgeNext]_hedgeVars

-----------------------------------------------------------------------------
\* The portfolio, the position and the plan have their types; the position is
\* of whole lots.
HedgeTypeOK ==
    /\ optionDelta \in Deltas \cup {0} /\ revision \in 0..MaxRevision
    /\ perp \in Int /\ perp % Lot = 0
    /\ hedge = NoPlan \/ DOMAIN hedge.orders \in {1..1, 1..2}
    /\ answered \subseteq 1..2

\* However the orders of a plan arrive and fill, alone, in part, in either
\* order, the position is nearer the plan's target than it was, and never past
\* the planned position, which is within half a lot of the target
\* (planHyperliquidHedge: the rounding, the reduce-only order of a crossing).
HedgeOnlyImproves ==
    hedge # NoPlan =>
        /\ 2 * Abs(hedge.projected - hedge.target) <= Lot
        /\ Abs(perp - hedge.target) <= Abs(hedge.start - hedge.target)
        /\ SmallerOf(hedge.start, hedge.projected) <= perp
        /\ perp <= LargerOf(hedge.start, hedge.projected)
=============================================================================
