----------------------- MODULE AnchoredSettlementFeed -----------------------
(***************************************************************************)
(* The settlement feed that fixes one price per expiry, once: anybody      *)
(* anchors it to a Chainlink round found by binary search, or the owner's  *)
(* proposal is executed after its delay (AnchoredSettlementFeed.sol).      *)
(* Every external function is one transaction.                             *)
(*                                                                         *)
(* The aggregator is external: rounds in phases, their updatedAt never     *)
(* decreasing in a phase, zero for a round that is incomplete and stays    *)
(* so.  A price is the round it comes from, or what the owner proposed;    *)
(* an answer is usable or not.                                             *)
(***************************************************************************)
EXTENDS Naturals, SequencesExt

CONSTANTS
    FeedExpiries,   \* expiries to settle
    OwnerPrices,    \* prices an owner may propose
    NoPrice,        \* not settled
    NoProposal,
    CheckWindow,    \* pythCheckWindow
    RoundDelays,    \* values the owner gives maxRoundDelay
    OverrideDelays, \* values the owner gives overrideDelay
    Skips,          \* rounds may stay incomplete
    MaxFeedTime,    \* bound: the chain's clock
    MaxRounds,      \* bound: rounds of a phase
    MaxPhases       \* bound: phases

ASSUME FeedAssumption ==
    /\ FeedExpiries \subseteq Nat \ {0}
    /\ CheckWindow \in Nat /\ MaxFeedTime \in Nat /\ MaxRounds \in Nat \ {0}
    /\ MaxPhases \in Nat \ {0}
    /\ RoundDelays \subseteq Nat \ {0} /\ OverrideDelays \subseteq Nat \ {0}
    /\ IsFiniteSet(OverrideDelays) /\ OverrideDelays # {}
    /\ OwnerPrices \cap [phase : Nat, round : Nat, at : Nat] = {}
    /\ Skips \in BOOLEAN

VARIABLES
    feedTime,        \* block.timestamp
    rounds,          \* the rounds of the current phase
    phase,
    older,           \* history: updatedAt of complete rounds of earlier phases
    maxRoundDelay,
    overrideDelay,
    settlementPrices,
    proposals,       \* overrideProposals
    proposedAt       \* history: when the standing proposal was made

aggregatorVars == <<rounds, phase, older>>
feedParams == <<maxRoundDelay, overrideDelay>>
feedVars == <<feedTime, aggregatorVars, feedParams, settlementPrices, proposals, proposedAt>>

-----------------------------------------------------------------------------
\* The aggregator answers a round, or leaves it incomplete.
NewRound ==
    /\ Len(rounds) < MaxRounds
    /\ \E round \in [at : {feedTime} \cup (IF Skips THEN {0} ELSE {}), usable : BOOLEAN] :
          /\ round.at = 0 => ~round.usable
          /\ rounds' = Append(rounds, round)
    /\ UNCHANGED <<feedTime, phase, older, feedParams, settlementPrices, proposals, proposedAt>>

\* The proxy is given a new aggregator, whose round ids start over.
NewPhase ==
    /\ phase < MaxPhases
    /\ phase' = phase + 1
    /\ older' = older \cup ({rounds[i].at : i \in DOMAIN rounds} \ {0})
    /\ rounds' = <<>>
    /\ UNCHANGED <<feedTime, feedParams, settlementPrices, proposals, proposedAt>>

FeedTick ==
    /\ feedTime < MaxFeedTime
    /\ feedTime' = feedTime + 1
    /\ UNCHANGED <<aggregatorVars, feedParams, settlementPrices, proposals, proposedAt>>

-----------------------------------------------------------------------------
FeedInit ==
    /\ feedTime = 1
    /\ rounds = <<>> /\ phase = 1 /\ older = {}
    /\ maxRoundDelay = Max(RoundDelays) /\ overrideDelay = Max(OverrideDelays)
    /\ settlementPrices = [e \in FeedExpiries |-> NoPrice]
    /\ proposals = [e \in FeedExpiries |-> NoProposal]
    /\ proposedAt = [e \in FeedExpiries |-> 0]

\* Mutant: a probe at the expiry counts as before it.
SearchAfter(e) ==
    LET probe[p \in (DOMAIN rounds) \X (DOMAIN rounds)] ==
            IF p[1] >= p[2] THEN p[1]
            ELSE LET mid == p[1] + (p[2] - p[1]) \div 2
                 IN  IF rounds[mid].at > e THEN probe[<<p[1], mid>>]
                     ELSE probe[<<mid + 1, p[2]>>]
    IN  probe[<<1, Len(rounds)>>]

\* The binary search for the first round with updatedAt >= expiry; an
\* incomplete round counts as earlier.  probe[<<lo, hi>>] is the loop's.
Search(e) ==
    LET probe[p \in (DOMAIN rounds) \X (DOMAIN rounds)] ==
            IF p[1] >= p[2] THEN p[1]
            ELSE LET mid == p[1] + (p[2] - p[1]) \div 2
                 IN  IF rounds[mid].at >= e THEN probe[<<p[1], mid>>]
                     ELSE probe[<<mid + 1, p[2]>>]
    IN  probe[<<1, Len(rounds)>>]

\* _findAnchorRound does not revert: a usable round past the expiry is the
\* latest, the phase began before it, and what the search finds is in time.
AnchorFound(e) ==
    /\ rounds # <<>>
    /\ Last(rounds).at >= e /\ Last(rounds).usable
    /\ Head(rounds).at = 0 \/ Head(rounds).at < e
    /\ LET found == rounds[Search(e)]
       IN  found.usable /\ found.at >= e /\ found.at <= e + maxRoundDelay

\* fixSettlementPrice.  Near the expiry a fresh Pyth price may disagree.
FixSettlementPrice(e, disagrees) ==
    /\ settlementPrices[e] = NoPrice
    /\ feedTime >= e
    /\ AnchorFound(e)
    /\ feedTime > e + CheckWindow \/ ~disagrees
    /\ settlementPrices' = [settlementPrices EXCEPT ![e] =
            [phase |-> phase, round |-> Search(e), at |-> rounds[Search(e)].at]]
    /\ UNCHANGED <<feedTime, aggregatorVars, feedParams, proposals, proposedAt>>

\* proposeOverride; a new proposal starts the delay again.
ProposeOverride(e, price) ==
    /\ feedTime >= e
    /\ settlementPrices[e] = NoPrice
    /\ proposals' = [proposals EXCEPT ![e] =
            [price |-> price, executableAt |-> feedTime + overrideDelay]]
    /\ proposedAt' = [proposedAt EXCEPT ![e] = feedTime]
    /\ UNCHANGED <<feedTime, aggregatorVars, feedParams, settlementPrices>>

CancelOverride(e) ==
    /\ proposals[e] # NoProposal
    /\ proposals' = [proposals EXCEPT ![e] = NoProposal]
    /\ proposedAt' = [proposedAt EXCEPT ![e] = 0]
    /\ UNCHANGED <<feedTime, aggregatorVars, feedParams, settlementPrices>>

\* Mutant: a price that is fixed is not looked for.
ExecuteOverrideAnyway(e) ==
    /\ proposals[e] # NoProposal
    /\ feedTime >= proposals[e].executableAt
    /\ proposals' = [proposals EXCEPT ![e] = NoProposal]
    /\ settlementPrices' = [settlementPrices EXCEPT ![e] = proposals[e].price]
    /\ UNCHANGED <<feedTime, aggregatorVars, feedParams, proposedAt>>

\* executeOverride, by anybody
ExecuteOverride(e) ==
    /\ proposals[e] # NoProposal
    /\ feedTime >= proposals[e].executableAt
    /\ settlementPrices[e] = NoPrice
    /\ proposals' = [proposals EXCEPT ![e] = NoProposal]
    /\ settlementPrices' = [settlementPrices EXCEPT ![e] = proposals[e].price]
    /\ UNCHANGED <<feedTime, aggregatorVars, feedParams, proposedAt>>

SetMaxRoundDelay(d) ==
    /\ maxRoundDelay' = d
    /\ UNCHANGED <<feedTime, aggregatorVars, overrideDelay, settlementPrices, proposals, proposedAt>>

SetOverrideDelay(d) ==
    /\ overrideDelay' = d
    /\ UNCHANGED <<feedTime, aggregatorVars, maxRoundDelay, settlementPrices, proposals, proposedAt>>

FeedNext ==
    \/ NewRound \/ NewPhase \/ FeedTick
    \/ \E e \in FeedExpiries :
          \/ \E disagrees \in BOOLEAN : FixSettlementPrice(e, disagrees)
          \/ \E price \in OwnerPrices : ProposeOverride(e, price)
          \/ CancelOverride(e) \/ ExecuteOverride(e)
    \/ \E d \in RoundDelays : SetMaxRoundDelay(d)
    \/ \E d \in OverrideDelays : SetOverrideDelay(d)

\* Anybody who wants the price fixes it when it can be fixed.
FeedSpec ==
    /\ FeedInit /\ [][FeedNext]_feedVars
    /\ \A e \in FeedExpiries : WF_feedVars(FixSettlementPrice(e, FALSE))

-----------------------------------------------------------------------------
Anchored(e) == settlementPrices[e] \notin OwnerPrices \cup {NoPrice}

\* The feed's prices and proposals have their types.
FeedTypeOK ==
    /\ feedTime \in 1..MaxFeedTime /\ phase \in 1..MaxPhases
    /\ older \subseteq 1..MaxFeedTime
    /\ \A e \in FeedExpiries :
          /\ Anchored(e) => settlementPrices[e] \in [phase : 1..phase, round : 1..MaxRounds,
                                                    at : e..feedTime]
          /\ proposals[e] = NoProposal \/ proposals[e] \in
                [price : OwnerPrices, executableAt : Nat]

\* Complete rounds at or after e that come before a round of this phase.
Earlier(e, round) ==
    {i \in 1..round - 1 : rounds[i].at >= e} \cup {t \in older : t >= e}

\* The anchor a call would find is the first complete round at or after the
\* expiry, in this phase or an earlier one, or it follows an incomplete round
\* of its phase at once: whoever fixes the price, and when, chooses nothing
\* else (_findAnchorRound).
AnchorIsFirst ==
    \A e \in FeedExpiries :
        AnchorFound(e) =>
            \/ Earlier(e, Search(e)) = {}
            \/ rounds[Search(e) - 1].at = 0

\* A price is fixed once.  The owner's is one that has stood as a proposal,
\* neither replaced nor cancelled, for the shortest delay at least, while
\* the anchor was free to be fixed (executeOverride, proposeOverride).
FixedOnceAndWaited ==
    [][\A e \in FeedExpiries :
         settlementPrices'[e] # settlementPrices[e] =>
             /\ settlementPrices[e] = NoPrice
             /\ settlementPrices'[e] \in OwnerPrices =>
                    /\ proposals[e].price = settlementPrices'[e]
                    /\ feedTime >= proposedAt[e] + Min(OverrideDelays)]_feedVars
=============================================================================
