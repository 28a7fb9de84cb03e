---------------------------- MODULE Oracle_proofs ----------------------------
(***************************************************************************)
(* Proofs about the oracle side.                                           *)
(*                                                                         *)
(* The settlement feed (AnchoredSettlementFeed): what its binary search    *)
(* returns is proved by induction over the length of the interval, for     *)
(* rounds of any number that may be incomplete (ProbeFinds).  Complete     *)
(* rounds are in order within a phase and after those of earlier phases    *)
(* (RoundsInOrder), so what precedes the round found is too early.  A      *)
(* proposal can be executed no sooner than the shortest delay after it was *)
(* made, whatever the delay has been set to since (ProposalsWait).         *)
(*                                                                         *)
(* The expiry index (ActiveExpiryIndex, under OracleDaemon): a replay is a *)
(* fold, so replays of equal blocks are equal (AfterAgrees) and one that   *)
(* goes on where another ended is one replay (AfterComposes).  A state in  *)
(* memory or on disk carries a hash of some fork there has been; if its    *)
(* block is gone, of an earlier one, which no block mined later can repeat *)
(* (StateOK).  What a pass has come to rely on is final (PassOK).          *)
(*                                                                         *)
(* The multiplier registry (MultiplierRegistry): its history is exact up   *)
(* to the pending checkpoint, and the pending checkpoint is what applies   *)
(* from its time on, or that time is still to come (Faithful).  The clock  *)
(* moves only after a whole pass, which has left pending what lies ahead   *)
(* (HeardOK).                                                              *)
(*                                                                         *)
(* The settlement integral (SettlementTwap): every division loses less     *)
(* than one, so another observation adds its interval's area but for a     *)
(* half, and but for the window's length where the price at its start is   *)
(* rounded (InsideDrift, StraddleDrift).  What is kept is a series whose   *)
(* integral is the area under its observations, or a first observation     *)
(* still to be filled, and that one is only ever met by a later            *)
(* observation, which fills it (TwapIInv).                                 *)
(***************************************************************************)
EXTENDS AnchoredSettlementFeed, OracleDaemon, MultiplierRegistry, SettlementTwap, FiniteSums

-----------------------------------------------------------------------------
(* The settlement feed: the binary search. *)

\* The round the search probes.
Halfway(lo, hi) == lo + (hi - lo) \div 2

\* One step of the search, with f for the searches it leads to.
ProbeStep(seq, e, f, p) ==
    IF p[1] >= p[2] THEN p[1]
    ELSE IF seq[Halfway(p[1], p[2])].at >= e THEN f[<<p[1], Halfway(p[1], p[2])>>]
    ELSE f[<<Halfway(p[1], p[2]) + 1, p[2]>>]

\* A function computes the search on D.
IsProbe(seq, e, f, D) == f = [p \in D |-> ProbeStep(seq, e, f, p)]

\* The search of all rounds.
Probe(seq, e) == CHOOSE f : IsProbe(seq, e, f, (DOMAIN seq) \X (DOMAIN seq))

\* Search, unfolded.
LEMMA SearchIsProbe ==
    ASSUME NEW e
    PROVE  Search(e) = Probe(rounds, e)[<<1, Len(rounds)>>]
<1> DEFINE Body(f) ==
      [p \in (DOMAIN rounds) \X (DOMAIN rounds) |->
            IF p[1] >= p[2] THEN p[1]
            ELSE IF rounds[p[1] + (p[2] - p[1]) \div 2].at >= e
                 THEN f[<<p[1], p[1] + (p[2] - p[1]) \div 2>>]
                 ELSE f[<<p[1] + (p[2] - p[1]) \div 2 + 1, p[2]>>]]
<1>1. \A f : (f = Body(f)) <=> IsProbe(rounds, e, f, (DOMAIN rounds) \X (DOMAIN rounds))
  BY DEF IsProbe, ProbeStep, Halfway
<1>2. (CHOOSE f : f = Body(f)) = Probe(rounds, e)
  BY <1>1 DEF Probe
<1> QED
  BY <1>2 DEF Search

\* The probe is never the upper bound, so both halves are shorter.
LEMMA HalfwayBetween ==
    ASSUME NEW lo \in Nat, NEW hi \in Nat, lo < hi
    PROVE  /\ Halfway(lo, hi) \in Nat
           /\ lo <= Halfway(lo, hi) /\ Halfway(lo, hi) < hi
BY DEF Halfway

\* The recursion defines a function.
LEMMA ProbeExists ==
    ASSUME NEW seq, NEW e, NEW n \in Nat, DOMAIN seq = 1..n
    PROVE  IsProbe(seq, e, Probe(seq, e), (1..n) \X (1..n))
<1> DEFINE All == (1..n) \X (1..n)
           Level(k) == {p \in All : p[2] - p[1] <= k}
           G == {k \in Nat : \E f : IsProbe(seq, e, f, Level(k))}
<1>0. \A p \in All : p[1] \in 1..n /\ p[2] \in 1..n
  OBVIOUS
<1>1. 0 \in G
  <2>1. \A p \in Level(0) : p[1] >= p[2]
    BY <1>0
  <2>2. IsProbe(seq, e, [p \in Level(0) |-> p[1]], Level(0))
    BY <2>1 DEF IsProbe, ProbeStep
  <2> QED
    BY <2>2
<1>2. ASSUME NEW k \in Nat, k \in G PROVE k + 1 \in G
  <2>1. PICK g : IsProbe(seq, e, g, Level(k))
    BY <1>2
  <2> DEFINE h == [p \in Level(k + 1) |-> IF p \in Level(k) THEN g[p] ELSE ProbeStep(seq, e, g, p)]
  <2>2. ASSUME NEW p \in Level(k + 1), ~(p[1] >= p[2])
        PROVE  /\ <<p[1], Halfway(p[1], p[2])>> \in Level(k)
               /\ <<Halfway(p[1], p[2]) + 1, p[2]>> \in Level(k)
    <3>1. p[1] \in 1..n /\ p[2] \in 1..n /\ p[2] - p[1] <= k + 1
      BY <1>0
    <3>2. /\ Halfway(p[1], p[2]) \in Nat
          /\ p[1] <= Halfway(p[1], p[2]) /\ Halfway(p[1], p[2]) < p[2]
      BY <2>2, <3>1, HalfwayBetween
    <3> QED
      BY <3>1, <3>2
  <2>3. \A p \in Level(k) : p \in Level(k + 1)
    BY <1>0
  <2>4. \A p \in Level(k) : g[p] = ProbeStep(seq, e, g, p)
    BY <2>1 DEF IsProbe
  <2>5. ASSUME NEW p \in Level(k + 1) PROVE h[p] = ProbeStep(seq, e, h, p)
    <3>1. h[p] = ProbeStep(seq, e, g, p)
      BY <2>4
    <3>2. \A q \in Level(k) : h[q] = g[q]
      BY <2>3
    <3> HIDE DEF h, Level
    <3> QED
      BY <2>2, <3>1, <3>2 DEF ProbeStep
  <2>6. IsProbe(seq, e, h, Level(k + 1))
    <3>1. h = [p \in Level(k + 1) |-> h[p]]
      OBVIOUS
    <3> HIDE DEF h
    <3> QED
      BY <3>1, <2>5 DEF IsProbe
  <2> HIDE DEF h, Level
  <2> QED
    BY <2>6
<1>3. n \in G
  <2> HIDE DEF G
  <2> QED BY <1>1, <1>2, NatSetInduction
<1>4. Level(n) = All
  BY <1>0
<1>5. \E f : IsProbe(seq, e, f, All)
  BY <1>3, <1>4
<1>6. (DOMAIN seq) \X (DOMAIN seq) = All
  OBVIOUS
<1>7. IsProbe(seq, e, Probe(seq, e), (DOMAIN seq) \X (DOMAIN seq))
  <2>1. \E f : IsProbe(seq, e, f, (DOMAIN seq) \X (DOMAIN seq))
    <3> HIDE DEF All
    <3> QED BY <1>5, <1>6, Zenon
  <2> QED
    BY <2>1, Zenon DEF Probe
<1> QED
  <2> HIDE DEF All
  <2>1. IsProbe(seq, e, Probe(seq, e), All)
    BY <1>6, <1>7, Zenon
  <2> QED
    BY <2>1, Zenon DEF All

\* The search ends on a round that is late enough, unless it is the last, and
\* whose predecessor, if the search began before it, is not.
LEMMA ProbeFinds ==
    ASSUME NEW seq, NEW e, NEW n \in Nat, DOMAIN seq = 1..n
    PROVE  \A lo, hi \in 1..n : lo <= hi =>
              LET k == Probe(seq, e)[<<lo, hi>>]
              IN  /\ k \in lo..hi
                  /\ k < hi => seq[k].at >= e
                  /\ k > lo => ~(seq[k - 1].at >= e)
<1> DEFINE f == Probe(seq, e)
           Good(lo, hi) == /\ f[<<lo, hi>>] \in lo..hi
                           /\ f[<<lo, hi>>] < hi => seq[f[<<lo, hi>>]].at >= e
                           /\ f[<<lo, hi>>] > lo => ~(seq[f[<<lo, hi>>] - 1].at >= e)
           G == {k \in Nat : \A lo, hi \in 1..n : lo <= hi /\ hi - lo <= k => Good(lo, hi)}
<1>1. \A lo, hi \in 1..n :
         f[<<lo, hi>>] =
            IF lo >= hi THEN lo
            ELSE IF seq[Halfway(lo, hi)].at >= e THEN f[<<lo, Halfway(lo, hi)>>]
            ELSE f[<<Halfway(lo, hi) + 1, hi>>]
  <2> HIDE DEF f
  <2>1. IsProbe(seq, e, f, (1..n) \X (1..n))
    BY ProbeExists DEF f
  <2>2. ASSUME NEW lo \in 1..n, NEW hi \in 1..n
        PROVE  f[<<lo, hi>>] = ProbeStep(seq, e, f, <<lo, hi>>)
    BY <2>1 DEF IsProbe
  <2> QED
    BY <2>2 DEF ProbeStep
<1> HIDE DEF f
<1>2. ASSUME NEW lo \in 1..n, NEW hi \in 1..n, lo = hi PROVE Good(lo, hi)
  <2>1. f[<<lo, hi>>] = lo
    <3>1. lo >= hi
      BY <1>2
    <3> QED
      BY <1>1, <3>1, Zenon
  <2> QED
    BY <1>2, <2>1
<1>3. 0 \in G
  <2>1. \A lo, hi \in 1..n : lo <= hi /\ hi - lo <= 0 => lo = hi
    OBVIOUS
  <2> HIDE DEF Good
  <2> QED BY <1>2, <2>1
<1>4. ASSUME NEW k \in Nat, k \in G PROVE k + 1 \in G
  <2> SUFFICES ASSUME NEW lo \in 1..n, NEW hi \in 1..n, lo <= hi, hi - lo <= k + 1
               PROVE  Good(lo, hi)
    OBVIOUS
  <2> DEFINE mid == Halfway(lo, hi)
  <2>1. CASE lo >= hi
    <3>1. lo = hi
      BY <2>1
    <3> HIDE DEF Good
    <3> QED BY <1>2, <3>1
  <2>2. CASE lo < hi
    <3>1. mid \in Nat /\ lo <= mid /\ mid < hi
      BY <2>2, HalfwayBetween
    <3>2. Good(lo, mid) /\ Good(mid + 1, hi)
      BY <1>4, <3>1
    <3> HIDE DEF mid
    <3>3. f[<<lo, hi>>] = IF seq[mid].at >= e THEN f[<<lo, mid>>] ELSE f[<<mid + 1, hi>>]
      BY <1>1, <2>2 DEF mid
    <3>4. CASE seq[mid].at >= e
      <4>1. f[<<lo, hi>>] = f[<<lo, mid>>]
        BY <3>3, <3>4
      <4> QED
        BY <3>1, <3>2, <3>4, <4>1
    <3>5. CASE ~(seq[mid].at >= e)
      <4>1. f[<<lo, hi>>] = f[<<mid + 1, hi>>]
        BY <3>3, <3>5
      <4> QED
        BY <3>1, <3>2, <3>5, <4>1
    <3> QED
      BY <3>4, <3>5
  <2> QED
    BY <2>1, <2>2
<1>5. n \in G
  <2> HIDE DEF G
  <2> QED BY <1>3, <1>4, NatSetInduction
<1>6. ASSUME NEW lo \in 1..n, NEW hi \in 1..n, lo <= hi PROVE Good(lo, hi)
  <2>1. hi - lo <= n
    OBVIOUS
  <2> HIDE DEF Good
  <2> QED BY <1>5, <1>6, <2>1
<1> QED
  BY <1>6 DEF f

-----------------------------------------------------------------------------
(* The settlement feed: its state. *)

\* The prices found in the aggregator, and its rounds.
AnchorPrices == [phase : Nat, round : Nat, at : Nat]
Rounds == [at : Nat, usable : BOOLEAN]

\* The types the proof needs.
FeedTypes ==
    /\ feedTime \in Nat /\ phase \in Nat /\ overrideDelay \in OverrideDelays
    /\ settlementPrices \in [FeedExpiries -> AnchorPrices \cup OwnerPrices \cup {NoPrice}]
    /\ proposals \in [FeedExpiries -> [price : OwnerPrices, executableAt : Nat] \cup {NoProposal}]
    /\ proposedAt \in [FeedExpiries -> Nat]
    /\ rounds \in Seq(Rounds)
    /\ older \subseteq Nat

\* A proposal can be executed after the shortest delay at the earliest.
ProposalsWait ==
    \A e \in FeedExpiries :
        proposals[e] # NoProposal =>
            proposals[e].executableAt >= proposedAt[e] + Min(OverrideDelays)

\* Complete rounds are in the order of their times, over all phases.
RoundsInOrder ==
    /\ \A i \in DOMAIN rounds : rounds[i].at <= feedTime
    /\ \A t \in older : t <= feedTime
    /\ \A i, j \in DOMAIN rounds : i < j /\ rounds[j].at # 0 => rounds[i].at <= rounds[j].at
    /\ \A i \in DOMAIN rounds, t \in older : rounds[i].at # 0 => t <= rounds[i].at

\* The inductive invariant.
FeedIInv == FeedTypes /\ ProposalsWait /\ RoundsInOrder

\* There is a shortest and a longest delay.
LEMMA DelayBounds ==
    /\ Min(OverrideDelays) \in OverrideDelays /\ Max(OverrideDelays) \in OverrideDelays
    /\ \A d \in OverrideDelays : d \in Nat /\ Min(OverrideDelays) <= d
<1>0. /\ OverrideDelays \subseteq Nat /\ OverrideDelays # {} /\ IsFiniteSet(OverrideDelays)
  BY FeedAssumption
<1>1. \E low \in OverrideDelays : \A y \in OverrideDelays : low <= y
  BY <1>0, HasLeast
<1>2. \E top \in OverrideDelays : \A y \in OverrideDelays : top >= y
  BY <1>0, HasGreatest
<1>3. Min(OverrideDelays) \in OverrideDelays /\ \A y \in OverrideDelays : Min(OverrideDelays) <= y
  BY <1>1 DEF Min
<1>4. Max(OverrideDelays) \in OverrideDelays
  BY <1>2 DEF Max
<1> QED
  BY <1>0, <1>3, <1>4

\* The round before the one the search finds is not at or after e.
LEMMA SearchFinds ==
    ASSUME NEW e, rounds \in Seq(Rounds), rounds # <<>>
    PROVE  /\ Search(e) \in 1..Len(rounds)
           /\ Search(e) > 1 => ~(rounds[Search(e) - 1].at >= e)
<1>1. Len(rounds) \in Nat /\ DOMAIN rounds = 1..Len(rounds) /\ Len(rounds) > 0
  OBVIOUS
<1>2. PICK n \in Nat : n = Len(rounds)
  BY <1>1
<1>3. DOMAIN rounds = 1..n /\ 1 \in 1..n /\ n \in 1..n /\ 1 <= n
  BY <1>1, <1>2
<1>4. LET k == Probe(rounds, e)[<<1, n>>]
      IN  k \in 1..n /\ (k > 1 => ~(rounds[k - 1].at >= e))
  BY <1>3, ProbeFinds
<1>5. Search(e) = Probe(rounds, e)[<<1, n>>]
  BY <1>2, SearchIsProbe
<1> QED
  BY <1>2, <1>4, <1>5

\* A round has its type.
LEMMA RoundsAreTyped ==
    ASSUME rounds \in Seq(Rounds)
    PROVE  /\ DOMAIN rounds = 1..Len(rounds) /\ Len(rounds) \in Nat
           /\ \A i \in DOMAIN rounds : rounds[i] \in Rounds /\ rounds[i].at \in Nat
<1>1. \A r \in Rounds : r.at \in Nat
  BY DEF Rounds
<1>2. DOMAIN rounds = 1..Len(rounds) /\ Len(rounds) \in Nat
  OBVIOUS
<1>3. \A i \in DOMAIN rounds : rounds[i] \in Rounds
  BY <1>2
<1> QED
  BY <1>1, <1>2, <1>3

\* In rounds that are in order, nothing at or after e precedes a complete round
\* that is before e.
LEMMA OrderedRoundsAnchorFirst ==
    ASSUME FeedTypes, RoundsInOrder
    PROVE  AnchorIsFirst
<1> SUFFICES ASSUME NEW e \in FeedExpiries, AnchorFound(e), rounds[Search(e) - 1].at # 0
             PROVE  Earlier(e, Search(e)) = {}
  BY DEF AnchorIsFirst
<1> DEFINE k == Search(e)
<1>1. /\ rounds \in Seq(Rounds) /\ rounds # <<>> /\ older \subseteq Nat
      /\ e \in Nat /\ e > 0
      /\ rounds[k].at >= e
      /\ Head(rounds) = rounds[1] /\ (rounds[1].at = 0 \/ rounds[1].at < e)
  BY FeedAssumption DEF FeedTypes, AnchorFound
<1>2. /\ DOMAIN rounds = 1..Len(rounds) /\ Len(rounds) \in Nat
      /\ \A i \in DOMAIN rounds : rounds[i].at \in Nat
  BY <1>1, RoundsAreTyped
<1>3. k \in 1..Len(rounds) /\ (k > 1 => ~(rounds[k - 1].at >= e))
  BY <1>1, SearchFinds
<1> HIDE DEF k
<1>4. k > 1
  <2>1. k # 1
    <3>1. 1 \in DOMAIN rounds
      BY <1>2, <1>3
    <3> QED
      BY <1>1, <1>2, <3>1
  <2> QED
    BY <1>2, <1>3, <2>1
<1>5. /\ k - 1 \in DOMAIN rounds /\ rounds[k - 1].at \in Nat /\ rounds[k - 1].at < e
      /\ rounds[k - 1].at # 0
  <2>1. k - 1 \in DOMAIN rounds
    BY <1>2, <1>3, <1>4
  <2>2. rounds[k - 1].at # 0
    BY DEF k
  <2> QED
    BY <1>1, <1>2, <1>3, <1>4, <2>1, <2>2
<1>6. ASSUME NEW i \in 1..k - 1 PROVE ~(rounds[i].at >= e)
  <2>1. i \in DOMAIN rounds /\ rounds[i].at \in Nat
    BY <1>2, <1>3
  <2>2. CASE i = k - 1
    BY <1>1, <1>5, <2>2
  <2>3. CASE i < k - 1
    <3>1. rounds[i].at <= rounds[k - 1].at
      BY <1>5, <2>1, <2>3 DEF RoundsInOrder
    <3> QED
      BY <1>1, <1>5, <2>1, <3>1
  <2> QED
    BY <1>3, <2>2, <2>3
<1>7. ASSUME NEW t \in older PROVE ~(t >= e)
  <2>1. t <= rounds[k - 1].at
    BY <1>5 DEF RoundsInOrder
  <2> QED
    BY <1>1, <1>5, <2>1
<1>8. Earlier(e, k) = {}
  BY <1>6, <1>7 DEF Earlier
<1> QED
  BY <1>8 DEF k

\* What the aggregator does keeps its rounds in order.
LEMMA NewRoundKeeps ==
    ASSUME FeedIInv, NewRound
    PROVE  FeedIInv'
<1>1. PICK round \in Rounds : /\ round.at \in {feedTime, 0}
                              /\ rounds' = Append(rounds, round)
  <2>1. PICK round \in [at : {feedTime} \cup (IF Skips THEN {0} ELSE {}), usable : BOOLEAN] :
           rounds' = Append(rounds, round)
    BY DEF NewRound
  <2>2. feedTime \in Nat
    BY DEF FeedIInv, FeedTypes
  <2>3. round \in Rounds /\ round.at \in {feedTime, 0}
    BY <2>2 DEF Rounds
  <2> QED
    BY <2>1, <2>3
<1>2. UNCHANGED <<feedTime, phase, older, feedParams, settlementPrices, proposals, proposedAt>>
  BY DEF NewRound
<1>3. rounds \in Seq(Rounds) /\ feedTime \in Nat /\ older \subseteq Nat
  BY DEF FeedIInv, FeedTypes
<1>4. /\ DOMAIN rounds = 1..Len(rounds) /\ Len(rounds) \in Nat
      /\ \A i \in DOMAIN rounds : rounds[i] \in Rounds /\ rounds[i].at \in Nat
  BY <1>3, RoundsAreTyped
<1>5. /\ rounds' \in Seq(Rounds) /\ DOMAIN rounds' = 1..Len(rounds) + 1
      /\ \A i \in 1..Len(rounds) : rounds'[i] = rounds[i]
      /\ rounds'[Len(rounds) + 1] = round
  BY <1>1, <1>3
<1>6. FeedTypes'
  BY <1>2, <1>5 DEF FeedIInv, FeedTypes, feedParams
<1>7. ProposalsWait'
  BY <1>2 DEF FeedIInv, ProposalsWait
<1>8. RoundsInOrder'
  <2>1. \A i \in DOMAIN rounds' : \/ i \in DOMAIN rounds /\ rounds'[i] = rounds[i]
                                  \/ i = Len(rounds) + 1 /\ rounds'[i] = round
    BY <1>4, <1>5
  <2>2. \A i \in DOMAIN rounds' : rounds'[i].at <= feedTime
    BY <1>1, <1>3, <2>1 DEF FeedIInv, RoundsInOrder
  <2>3. ASSUME NEW i \in DOMAIN rounds', NEW j \in DOMAIN rounds', i < j, rounds'[j].at # 0
        PROVE  rounds'[i].at <= rounds'[j].at
    <3>1. i \in DOMAIN rounds /\ rounds'[i] = rounds[i]
      BY <1>4, <1>5, <2>1, <2>3
    <3>2. CASE j \in DOMAIN rounds /\ rounds'[j] = rounds[j]
      BY <2>3, <3>1, <3>2 DEF FeedIInv, RoundsInOrder
    <3>3. CASE rounds'[j] = round
      <4>1. rounds'[j].at = feedTime
        BY <1>1, <2>3, <3>3
      <4> QED
        BY <2>2, <4>1
    <3> QED
      BY <2>1, <3>2, <3>3
  <2>4. ASSUME NEW i \in DOMAIN rounds', NEW t \in older, rounds'[i].at # 0
        PROVE  t <= rounds'[i].at
    <3>1. CASE i \in DOMAIN rounds /\ rounds'[i] = rounds[i]
      BY <2>4, <3>1 DEF FeedIInv, RoundsInOrder
    <3>2. CASE rounds'[i] = round
      <4>1. rounds'[i].at = feedTime
        BY <1>1, <2>4, <3>2
      <4> QED
        BY <4>1 DEF FeedIInv, RoundsInOrder
    <3> QED
      BY <2>1, <3>1, <3>2
  <2> QED
    BY <1>2, <2>2, <2>3, <2>4 DEF FeedIInv, RoundsInOrder
<1> QED
  BY <1>6, <1>7, <1>8 DEF FeedIInv

\* A new phase starts after every round of the earlier ones.
LEMMA NewPhaseKeeps ==
    ASSUME FeedIInv, NewPhase
    PROVE  FeedIInv'
<1>1. /\ phase' = phase + 1 /\ rounds' = <<>>
      /\ older' = older \cup ({rounds[i].at : i \in DOMAIN rounds} \ {0})
      /\ UNCHANGED <<feedTime, feedParams, settlementPrices, proposals, proposedAt>>
  BY DEF NewPhase
<1>2. rounds \in Seq(Rounds) /\ feedTime \in Nat /\ older \subseteq Nat
  BY DEF FeedIInv, FeedTypes
<1>3. \A i \in DOMAIN rounds : rounds[i].at \in Nat /\ rounds[i].at <= feedTime
  BY <1>2, RoundsAreTyped DEF FeedIInv, RoundsInOrder
<1>4. older' \subseteq Nat /\ \A t \in older' : t <= feedTime
  BY <1>1, <1>2, <1>3 DEF FeedIInv, RoundsInOrder
<1>5. <<>> \in Seq(Rounds) /\ DOMAIN <<>> = {}
  OBVIOUS
<1>6. FeedTypes'
  BY <1>1, <1>4, <1>5 DEF FeedIInv, FeedTypes, feedParams
<1>7. RoundsInOrder'
  BY <1>1, <1>4, <1>5 DEF RoundsInOrder
<1>8. ProposalsWait'
  BY <1>1 DEF FeedIInv, ProposalsWait
<1> QED
  BY <1>6, <1>7, <1>8 DEF FeedIInv

\* Time passes.
LEMMA FeedTickKeeps ==
    ASSUME FeedIInv, FeedTick
    PROVE  FeedIInv'
<1>1. /\ feedTime' = feedTime + 1 /\ feedTime \in Nat
      /\ UNCHANGED <<rounds, older, phase, feedParams, settlementPrices, proposals, proposedAt>>
  BY DEF FeedIInv, FeedTypes, FeedTick, aggregatorVars
<1>2. /\ \A i \in DOMAIN rounds : rounds[i].at \in Nat
      /\ older \subseteq Nat
  BY RoundsAreTyped DEF FeedIInv, FeedTypes
<1>3. FeedTypes'
  BY <1>1 DEF FeedIInv, FeedTypes, feedParams
<1>4. RoundsInOrder'
  BY <1>1, <1>2 DEF FeedIInv, RoundsInOrder
<1>5. ProposalsWait'
  BY <1>1 DEF FeedIInv, ProposalsWait
<1> QED
  BY <1>3, <1>4, <1>5 DEF FeedIInv

\* The rounds stay as they are while prices and proposals change.
LEMMA RoundsStay ==
    ASSUME RoundsInOrder, UNCHANGED <<feedTime, aggregatorVars>>
    PROVE  RoundsInOrder'
BY DEF RoundsInOrder, aggregatorVars

\* The price that is fixed is an anchor.
LEMMA FixKeeps ==
    ASSUME FeedIInv, NEW e \in FeedExpiries, NEW disagrees, FixSettlementPrice(e, disagrees)
    PROVE  /\ FeedIInv'
           /\ settlementPrices[e] = NoPrice
           /\ \E price \in AnchorPrices :
                 settlementPrices' = [settlementPrices EXCEPT ![e] = price]
<1>1. /\ rounds \in Seq(Rounds) /\ rounds # <<>> /\ phase \in Nat
      /\ settlementPrices \in [FeedExpiries -> AnchorPrices \cup OwnerPrices \cup {NoPrice}]
  BY DEF FeedIInv, FeedTypes, FixSettlementPrice, AnchorFound
<1>2. Search(e) \in DOMAIN rounds /\ Search(e) \in Nat
  BY <1>1, SearchFinds, RoundsAreTyped
<1>3. rounds[Search(e)].at \in Nat
  BY <1>1, <1>2, RoundsAreTyped
<1>4. PICK price \in AnchorPrices :
         price = [phase |-> phase, round |-> Search(e), at |-> rounds[Search(e)].at]
  BY <1>1, <1>2, <1>3 DEF AnchorPrices
<1>5. /\ settlementPrices[e] = NoPrice
      /\ settlementPrices' = [settlementPrices EXCEPT ![e] = price]
      /\ UNCHANGED <<feedTime, aggregatorVars, feedParams, proposals, proposedAt>>
  BY <1>4 DEF FixSettlementPrice
<1>6. settlementPrices' \in [FeedExpiries -> AnchorPrices \cup OwnerPrices \cup {NoPrice}]
  BY <1>1, <1>5
<1>7. FeedTypes'
  BY <1>5, <1>6 DEF FeedIInv, FeedTypes, feedParams, aggregatorVars
<1>8. ProposalsWait' /\ RoundsInOrder'
  BY <1>5, RoundsStay DEF FeedIInv, ProposalsWait
<1> QED
  BY <1>5, <1>7, <1>8 DEF FeedIInv

\* A proposal, also one that replaces another, waits from now on.
LEMMA ProposeKeeps ==
    ASSUME FeedIInv, NEW e \in FeedExpiries, NEW price \in OwnerPrices, ProposeOverride(e, price)
    PROVE  FeedIInv'
<1>1. /\ proposals \in [FeedExpiries -> [price : OwnerPrices, executableAt : Nat] \cup {NoProposal}]
      /\ proposedAt \in [FeedExpiries -> Nat] /\ feedTime \in Nat
      /\ overrideDelay \in Nat /\ Min(OverrideDelays) <= overrideDelay /\ Min(OverrideDelays) \in Nat
  BY DelayBounds DEF FeedIInv, FeedTypes
<1>2. PICK p \in [price : OwnerPrices, executableAt : Nat] :
         p = [price |-> price, executableAt |-> feedTime + overrideDelay]
  <2>1. feedTime + overrideDelay \in Nat
    BY <1>1
  <2> QED
    BY <2>1, Zenon
<1>3. p.executableAt = feedTime + overrideDelay
  BY <1>2
<1>4. /\ proposals' = [proposals EXCEPT ![e] = p] /\ proposedAt' = [proposedAt EXCEPT ![e] = feedTime]
      /\ UNCHANGED <<feedTime, aggregatorVars, feedParams, settlementPrices>>
  BY <1>2 DEF ProposeOverride
<1>5. proposals' \in [FeedExpiries -> [price : OwnerPrices, executableAt : Nat] \cup {NoProposal}]
  BY <1>1, <1>4
<1>6. proposedAt' \in [FeedExpiries -> Nat]
  BY <1>1, <1>4
<1>7. FeedTypes'
  BY <1>4, <1>5, <1>6 DEF FeedIInv, FeedTypes, feedParams, aggregatorVars
<1>8. ProposalsWait'
  <2>1. \A d \in FeedExpiries : \/ proposals'[d] = proposals[d] /\ proposedAt'[d] = proposedAt[d]
                                \/ proposals'[d] = p /\ proposedAt'[d] = feedTime
    BY <1>1, <1>4
  <2>2. p.executableAt >= feedTime + Min(OverrideDelays)
    BY <1>1, <1>3
  <2> QED
    BY <2>1, <2>2 DEF FeedIInv, ProposalsWait
<1> QED
  BY <1>4, <1>7, <1>8, RoundsStay DEF FeedIInv

\* A proposal is withdrawn.
LEMMA CancelKeeps ==
    ASSUME FeedIInv, NEW e \in FeedExpiries, CancelOverride(e)
    PROVE  FeedIInv'
<1>1. /\ proposals \in [FeedExpiries -> [price : OwnerPrices, executableAt : Nat] \cup {NoProposal}]
      /\ proposedAt \in [FeedExpiries -> Nat]
  BY DEF FeedIInv, FeedTypes
<1>2. /\ proposals' = [proposals EXCEPT ![e] = NoProposal] /\ proposedAt' = [proposedAt EXCEPT ![e] = 0]
      /\ UNCHANGED <<feedTime, aggregatorVars, feedParams, settlementPrices>>
  BY DEF CancelOverride
<1>3. proposals' \in [FeedExpiries -> [price : OwnerPrices, executableAt : Nat] \cup {NoProposal}]
  BY <1>1, <1>2
<1>4. proposedAt' \in [FeedExpiries -> Nat]
  BY <1>1, <1>2
<1>5. FeedTypes'
  BY <1>2, <1>3, <1>4 DEF FeedIInv, FeedTypes, feedParams, aggregatorVars
<1>6. \A d \in FeedExpiries : \/ proposals'[d] = proposals[d] /\ proposedAt'[d] = proposedAt[d]
                              \/ proposals'[d] = NoProposal
  BY <1>1, <1>2
<1>7. ProposalsWait'
  BY <1>6 DEF FeedIInv, ProposalsWait
<1> QED
  BY <1>2, <1>5, <1>7, RoundsStay DEF FeedIInv

\* The owner's price has waited.
LEMMA ExecuteKeeps ==
    ASSUME FeedIInv, NEW e \in FeedExpiries, ExecuteOverride(e)
    PROVE  /\ FeedIInv'
           /\ settlementPrices[e] = NoPrice
           /\ settlementPrices' = [settlementPrices EXCEPT ![e] = proposals[e].price]
           /\ feedTime >= proposedAt[e] + Min(OverrideDelays)
<1>1. /\ proposals \in [FeedExpiries -> [price : OwnerPrices, executableAt : Nat] \cup {NoProposal}]
      /\ settlementPrices \in [FeedExpiries -> AnchorPrices \cup OwnerPrices \cup {NoPrice}]
      /\ proposedAt[e] \in Nat /\ feedTime \in Nat /\ Min(OverrideDelays) \in Nat
  BY DelayBounds DEF FeedIInv, FeedTypes
<1>2. /\ proposals[e] # NoProposal /\ feedTime >= proposals[e].executableAt
      /\ settlementPrices[e] = NoPrice
      /\ proposals' = [proposals EXCEPT ![e] = NoProposal]
      /\ settlementPrices' = [settlementPrices EXCEPT ![e] = proposals[e].price]
      /\ UNCHANGED <<feedTime, aggregatorVars, feedParams, proposedAt>>
  BY DEF ExecuteOverride
<1>3. PICK p \in [price : OwnerPrices, executableAt : Nat] : p = proposals[e]
  BY <1>1, <1>2
<1>4. p.price \in OwnerPrices /\ p.executableAt \in Nat
  OBVIOUS
<1>5. proposals' \in [FeedExpiries -> [price : OwnerPrices, executableAt : Nat] \cup {NoProposal}]
  BY <1>1, <1>2
<1>6. settlementPrices' \in [FeedExpiries -> AnchorPrices \cup OwnerPrices \cup {NoPrice}]
  <2>1. proposals[e].price \in OwnerPrices
    BY <1>3, <1>4
  <2> QED
    BY <1>1, <1>2, <2>1
<1>7. FeedTypes'
  BY <1>2, <1>5, <1>6 DEF FeedIInv, FeedTypes, feedParams, aggregatorVars
<1>8. \A d \in FeedExpiries : proposals'[d] \in {proposals[d], NoProposal}
  BY <1>1, <1>2
<1>9. ProposalsWait'
  BY <1>2, <1>8 DEF FeedIInv, ProposalsWait
<1>10. feedTime >= proposedAt[e] + Min(OverrideDelays)
  BY <1>1, <1>2, <1>3, <1>4 DEF FeedIInv, ProposalsWait
<1> QED
  BY <1>2, <1>7, <1>9, <1>10, RoundsStay DEF FeedIInv

\* The owner changes the delays, of later proposals.
LEMMA DelaysKeep ==
    ASSUME FeedIInv, \/ \E d \in RoundDelays : SetMaxRoundDelay(d)
                     \/ \E d \in OverrideDelays : SetOverrideDelay(d)
    PROVE  FeedIInv'
<1>1. /\ overrideDelay' \in OverrideDelays
      /\ UNCHANGED <<feedTime, aggregatorVars, settlementPrices, proposals, proposedAt>>
  BY DEF SetMaxRoundDelay, SetOverrideDelay, FeedIInv, FeedTypes
<1>2. FeedTypes'
  BY <1>1 DEF FeedIInv, FeedTypes, aggregatorVars
<1>3. ProposalsWait' /\ RoundsInOrder'
  BY <1>1, RoundsStay DEF FeedIInv, ProposalsWait
<1> QED
  BY <1>2, <1>3 DEF FeedIInv

\* Nothing is settled or proposed.
LEMMA FeedInitial == FeedInit => FeedIInv
<1> SUFFICES ASSUME FeedInit PROVE FeedIInv
  OBVIOUS
<1>1. <<>> \in Seq(Rounds) /\ DOMAIN <<>> = {}
  OBVIOUS
<1>2. FeedTypes
  BY <1>1, DelayBounds DEF FeedInit, FeedTypes
<1>3. ProposalsWait /\ RoundsInOrder
  BY <1>1 DEF FeedInit, ProposalsWait, RoundsInOrder
<1> QED
  BY <1>2, <1>3 DEF FeedIInv

\* Every step keeps the invariant.
LEMMA FeedInductive == FeedIInv /\ [FeedNext]_feedVars => FeedIInv'
<1>1. FeedIInv /\ UNCHANGED feedVars => FeedIInv'
  BY DEF FeedIInv, FeedTypes, ProposalsWait, RoundsInOrder, feedVars, feedParams, aggregatorVars
<1> QED
  BY <1>1, NewRoundKeeps, NewPhaseKeeps, FeedTickKeeps, FixKeeps, ProposeKeeps, CancelKeeps,
     ExecuteKeeps, DelaysKeep DEF FeedNext

\* The inductive invariant of the feed holds throughout (FeedIInv).
THEOREM FeedInvariant == FeedSpec => []FeedIInv
BY FeedInitial, FeedInductive, PTL DEF FeedSpec

\* AnchorIsFirst (_findAnchorRound): whoever fixes a price, and when, finds the
\* first complete round at or after the expiry, or one that follows an
\* incomplete round, for any number of rounds and phases.
THEOREM AnchorsAreFirst == FeedSpec => []AnchorIsFirst
<1>1. FeedIInv => AnchorIsFirst
  BY OrderedRoundsAnchorFirst DEF FeedIInv
<1> QED
  BY <1>1, FeedInvariant, PTL

\* A price changes when it is fixed, from none.
LEMMA PricesAreFixedOnce ==
    ASSUME FeedIInv, [FeedNext]_feedVars, NEW e \in FeedExpiries,
           settlementPrices'[e] # settlementPrices[e]
    PROVE  /\ settlementPrices[e] = NoPrice
           /\ settlementPrices'[e] \in OwnerPrices =>
                 /\ proposals[e].price = settlementPrices'[e]
                 /\ feedTime >= proposedAt[e] + Min(OverrideDelays)
<1>1. settlementPrices \in [FeedExpiries -> AnchorPrices \cup OwnerPrices \cup {NoPrice}]
  BY DEF FeedIInv, FeedTypes
<1>2. AnchorPrices \cap OwnerPrices = {}
  BY FeedAssumption DEF AnchorPrices
<1>3. settlementPrices' # settlementPrices
  OBVIOUS
<1>4. ASSUME NEW d \in FeedExpiries, NEW disagrees \in BOOLEAN, FixSettlementPrice(d, disagrees)
      PROVE  settlementPrices[e] = NoPrice /\ settlementPrices'[e] \notin OwnerPrices
  <2>1. PICK price \in AnchorPrices : settlementPrices' = [settlementPrices EXCEPT ![d] = price]
    BY <1>4, FixKeeps
  <2>2. settlementPrices[d] = NoPrice
    BY <1>4, FixKeeps
  <2>3. d = e /\ settlementPrices'[e] = price
    BY <1>1, <2>1
  <2> QED
    BY <1>2, <2>2, <2>3
<1>5. ASSUME NEW d \in FeedExpiries, ExecuteOverride(d)
      PROVE  /\ settlementPrices[e] = NoPrice
             /\ proposals[e].price = settlementPrices'[e]
             /\ feedTime >= proposedAt[e] + Min(OverrideDelays)
  <2>1. /\ settlementPrices[d] = NoPrice
        /\ settlementPrices' = [settlementPrices EXCEPT ![d] = proposals[d].price]
        /\ feedTime >= proposedAt[d] + Min(OverrideDelays)
    BY <1>5, ExecuteKeeps
  <2>2. d = e /\ settlementPrices'[e] = proposals[d].price
    BY <1>1, <2>1
  <2> QED
    BY <2>1, <2>2
<1>6. \/ \E d \in FeedExpiries, disagrees \in BOOLEAN : FixSettlementPrice(d, disagrees)
      \/ \E d \in FeedExpiries : ExecuteOverride(d)
  BY <1>3 DEF FeedNext, feedVars, NewRound, NewPhase, FeedTick, ProposeOverride, CancelOverride,
              SetMaxRoundDelay, SetOverrideDelay
<1> QED
  BY <1>4, <1>5, <1>6

\* FixedOnceAndWaited (executeOverride, proposeOverride): a price is fixed once,
\* and the owner's has stood for the shortest delay.
THEOREM PricesAreFixedOnceAndWaited == FeedSpec => FixedOnceAndWaited
<1>1. FeedIInv /\ [FeedNext]_feedVars =>
         [\A e \in FeedExpiries :
            settlementPrices'[e] # settlementPrices[e] =>
                /\ settlementPrices[e] = NoPrice
                /\ settlementPrices'[e] \in OwnerPrices =>
                       /\ proposals[e].price = settlementPrices'[e]
                       /\ feedTime >= proposedAt[e] + Min(OverrideDelays)]_feedVars
  BY PricesAreFixedOnce
<1> QED
  BY <1>1, FeedInvariant, PTL DEF FeedSpec, FixedOnceAndWaited

-----------------------------------------------------------------------------
(* The expiry index: what a replay computes. *)

\* The fold of the community modules, unfolded: its value for a set of places.
ReplayStep(held, s, g, D) ==
    IF D = {} THEN held ELSE Adjusted(g[D \ {Max(D)}], s[Max(D)].event)

IsReplay(held, s, g, P) == g = [D \in SUBSET P |-> ReplayStep(held, s, g, D)]

ReplayOf(held, s) == CHOOSE g : IsReplay(held, s, g, DOMAIN s)

\* The balances after the first k blocks of s are applied to held.
After(held, s, k) == ReplayOf(held, s)[1..k]

LEMMA ReplayedIs ==
    \A held, f, t : Replayed(held, f, t) =
        ReplayOf(held, SubSeq(blocks, f, t))[DOMAIN SubSeq(blocks, f, t)]
BY DEF Replayed, FoldLeft, MapThenFoldSet, ReplayOf, IsReplay, ReplayStep

\* A set of places has a last one.
LEMMA LastPlace ==
    ASSUME NEW n \in Nat, NEW D \in SUBSET (1..n), D # {}
    PROVE  Max(D) \in D /\ \A i \in D : i <= Max(D)
<1>1. IsFiniteSet(D)
  <2>1. IsFiniteSet(1..n)
    BY FS_Interval
  <2> QED BY <2>1, FS_Subset
<1>2. D \subseteq Nat
  OBVIOUS
<1>3. \E x \in D : \A y \in D : x >= y
  BY <1>1, <1>2, HasGreatest
<1>4. Max(D) \in D /\ \A y \in D : Max(D) >= y
  BY <1>3 DEF Max
<1> DEFINE x == Max(D)
<1>5. x \in D /\ \A y \in D : x >= y
  BY <1>4
<1> HIDE DEF x
<1>6. ASSUME NEW i \in D PROVE i <= x
  BY <1>2, <1>5
<1> QED
  BY <1>5, <1>6 DEF x

\* The recursion defines a function on all sets of places of a sequence.
LEMMA ReplayExists ==
    ASSUME NEW held, NEW s, NEW n \in Nat, DOMAIN s = 1..n
    PROVE  IsReplay(held, s, ReplayOf(held, s), 1..n)
<1> DEFINE Below(m) == SUBSET (1..m)
           G == {m \in Nat : m <= n => \E g : IsReplay(held, s, g, 1..m)}
<1>1. 0 \in G
  <2>1. \A D \in SUBSET (1..0) : D = {}
    OBVIOUS
  <2>2. IsReplay(held, s, [D \in SUBSET (1..0) |-> held], 1..0)
    BY <2>1 DEF IsReplay, ReplayStep
  <2> QED
    BY <2>2
<1>2. ASSUME NEW m \in Nat, m \in G PROVE m + 1 \in G
  <2> SUFFICES ASSUME m + 1 <= n PROVE \E g : IsReplay(held, s, g, 1..m + 1)
    OBVIOUS
  <2>1. PICK g : IsReplay(held, s, g, 1..m)
    BY <1>2
  <2> DEFINE h == [D \in SUBSET (1..m + 1) |->
                      IF D \in SUBSET (1..m) THEN g[D] ELSE ReplayStep(held, s, g, D)]
  <2>2. ASSUME NEW D \in SUBSET (1..m + 1), D # {} PROVE D \ {Max(D)} \in SUBSET (1..m)
    <3>1. Max(D) \in D /\ \A i \in D : i <= Max(D)
      <4> DEFINE k == m + 1
      <4>1. k \in Nat /\ D \in SUBSET (1..k)
        OBVIOUS
      <4> HIDE DEF k, G, h
      <4> QED BY <2>2, <4>1, LastPlace
    <3>2. \A i \in D \ {Max(D)} : i \in 1..m
      <4>1. ASSUME NEW i \in D, i # Max(D) PROVE i \in 1..m
        <5>1. i <= Max(D) /\ Max(D) \in 1..m + 1 /\ i \in 1..m + 1
          BY <3>1
        <5> QED BY <4>1, <5>1
      <4> QED BY <4>1
    <3> QED
      BY <3>2
  <2>3. \A D \in SUBSET (1..m) : D \in SUBSET (1..m + 1)
    OBVIOUS
  <2>4. \A D \in SUBSET (1..m) : g[D] = ReplayStep(held, s, g, D)
    BY <2>1 DEF IsReplay
  <2>5. ASSUME NEW D \in SUBSET (1..m + 1) PROVE h[D] = ReplayStep(held, s, h, D)
    <3>1. h[D] = ReplayStep(held, s, g, D)
      BY <2>4
    <3>2. D # {} => h[D \ {Max(D)}] = g[D \ {Max(D)}]
      BY <2>2, <2>3
    <3> QED
      BY <3>1, <3>2 DEF ReplayStep
  <2>6. IsReplay(held, s, h, 1..m + 1)
    <3>1. h = [D \in SUBSET (1..m + 1) |-> h[D]]
      OBVIOUS
    <3> HIDE DEF h
    <3> QED
      BY <3>1, <2>5 DEF IsReplay
  <2> HIDE DEF h
  <2> QED
    BY <2>6
<1>3. n \in G
  <2> HIDE DEF G
  <2> QED BY <1>1, <1>2, NatSetInduction
<1>4. \E g : IsReplay(held, s, g, DOMAIN s)
  BY <1>3
<1> QED
  BY <1>4 DEF ReplayOf

Unfolds(held, s, n) ==
    /\ After(held, s, 0) = held
    /\ \A k \in 1..n : After(held, s, k) = Adjusted(After(held, s, k - 1), s[k].event)

\* Nothing is applied, or one block more.
LEMMA AfterUnfolds ==
    ASSUME NEW held, NEW s, NEW n \in Nat, DOMAIN s = 1..n
    PROVE  Unfolds(held, s, n)
<1> DEFINE g == ReplayOf(held, s)
<1>1. \A D \in SUBSET (1..n) : g[D] = ReplayStep(held, s, g, D)
  <2>1. IsReplay(held, s, g, 1..n)
    BY ReplayExists
  <2> HIDE DEF g
  <2> QED BY <2>1 DEF IsReplay
<1> HIDE DEF g
<1>2. g[1..0] = held
  <2>1. 1..0 = {} /\ 1..0 \in SUBSET (1..n)
    OBVIOUS
  <2> QED BY <1>1, <2>1 DEF ReplayStep
<1>3. ASSUME NEW k \in 1..n PROVE g[1..k] = Adjusted(g[1..k - 1], s[k].event)
  <2>1. 1..k \in SUBSET (1..n) /\ k \in 1..k
    OBVIOUS
  <2>2. Max(1..k) = k
    <3>1. Max(1..k) \in 1..k /\ \A i \in 1..k : i <= Max(1..k)
      <4>1. 1..k # {}
        BY <2>1
      <4> QED BY <2>1, <4>1, LastPlace
    <3> QED BY <2>1, <3>1
  <2>3. (1..k) \ {k} = 1..k - 1
    OBVIOUS
  <2>4. 1..k # {}
    BY <2>1
  <2> QED
    BY <1>1, <2>1, <2>2, <2>3, <2>4 DEF ReplayStep
<1> QED
  BY <1>2, <1>3 DEF After, Unfolds, g

\* Two chains have their first k blocks in common.
Common(s, t, k) ==
    \E n, m \in Nat : /\ DOMAIN s = 1..n /\ DOMAIN t = 1..m
                      /\ k \in Nat /\ k <= n /\ k <= m
                      /\ \A i \in 1..k : s[i] = t[i]

\* Only the blocks that are applied matter.
LEMMA AfterAgrees ==
    ASSUME NEW held, NEW s, NEW t, NEW k, Common(s, t, k)
    PROVE  After(held, s, k) = After(held, t, k)
<1>0. PICK n \in Nat, m \in Nat :
          /\ DOMAIN s = 1..n /\ DOMAIN t = 1..m
          /\ k \in Nat /\ k <= n /\ k <= m
          /\ \A i \in 1..k : s[i] = t[i]
  BY DEF Common
<1> DEFINE G == {j \in Nat : j <= k => After(held, s, j) = After(held, t, j)}
<1>1. 0 \in G
  BY <1>0, AfterUnfolds DEF Unfolds
<1>2. ASSUME NEW j \in Nat, j \in G PROVE j + 1 \in G
  <2> SUFFICES ASSUME j + 1 <= k PROVE After(held, s, j + 1) = After(held, t, j + 1)
    OBVIOUS
  <2>1. j + 1 \in 1..n /\ j + 1 \in 1..m /\ (j + 1) - 1 = j /\ s[j + 1] = t[j + 1]
    BY <1>0
  <2>2. After(held, s, j) = After(held, t, j)
    BY <1>0, <1>2
  <2>3. After(held, s, j + 1) = Adjusted(After(held, s, j), s[j + 1].event)
    <3>1. Unfolds(held, s, n)
      BY <1>0, AfterUnfolds
    <3> QED BY <2>1, <3>1 DEF Unfolds
  <2>4. After(held, t, j + 1) = Adjusted(After(held, t, j), t[j + 1].event)
    <3>1. Unfolds(held, t, m)
      BY <1>0, AfterUnfolds
    <3> QED BY <2>1, <3>1 DEF Unfolds
  <2> QED
    BY <2>1, <2>2, <2>3, <2>4
<1>3. k \in G
  <2> HIDE DEF G
  <2> QED BY <1>0, <1>1, <1>2, NatSetInduction
<1> QED
  BY <1>0, <1>3

\* The m blocks of t are those of s after its first l.
Follows(s, t, l, m) ==
    /\ l \in Nat /\ m \in Nat
    /\ DOMAIN t = 1..m
    /\ \E n \in Nat : DOMAIN s = 1..n /\ l + m <= n
    /\ \A i \in 1..m : t[i] = s[l + i]

\* A replay that goes on where another ended is one replay.
LEMMA AfterComposes ==
    ASSUME NEW s, NEW t, NEW l, NEW m, Follows(s, t, l, m)
    PROVE  After(After({}, s, l), t, m) = After({}, s, l + m)
<1>0. /\ l \in Nat /\ m \in Nat /\ DOMAIN t = 1..m
      /\ \A i \in 1..m : t[i] = s[l + i]
  BY DEF Follows
<1>a. PICK n \in Nat : DOMAIN s = 1..n /\ l + m <= n
  BY DEF Follows
<1> DEFINE H == After({}, s, l)
           G == {j \in Nat : j <= m => After(H, t, j) = After({}, s, l + j)}
<1>1. 0 \in G
  <2>1. After(H, t, 0) = H
    <3> HIDE DEF H
    <3> QED BY <1>0, AfterUnfolds DEF Unfolds
  <2> QED BY <1>0, <2>1
<1>2. ASSUME NEW j \in Nat, j \in G PROVE j + 1 \in G
  <2> SUFFICES ASSUME j + 1 <= m PROVE After(H, t, j + 1) = After({}, s, l + (j + 1))
    OBVIOUS
  <2>1. /\ j + 1 \in 1..m /\ (j + 1) - 1 = j /\ t[j + 1] = s[l + (j + 1)]
        /\ l + (j + 1) \in 1..n /\ (l + (j + 1)) - 1 = l + j
    BY <1>0, <1>a
  <2>2. After(H, t, j) = After({}, s, l + j)
    BY <1>0, <1>2
  <2> HIDE DEF H
  <2>3. After(H, t, j + 1) = Adjusted(After(H, t, j), t[j + 1].event)
    <3>1. Unfolds(H, t, m)
      BY <1>0, AfterUnfolds
    <3> QED BY <2>1, <3>1 DEF Unfolds
  <2>4. After({}, s, l + (j + 1)) = Adjusted(After({}, s, l + j), s[l + (j + 1)].event)
    <3>1. Unfolds({}, s, n)
      BY <1>a, AfterUnfolds
    <3> QED BY <2>1, <3>1 DEF Unfolds
  <2> QED
    BY <2>1, <2>2, <2>3, <2>4
<1>3. m \in G
  <2> HIDE DEF G
  <2> QED BY <1>0, <1>1, <1>2, NatSetInduction
<1> QED
  BY <1>0, <1>3

-----------------------------------------------------------------------------
(* The expiry index: its state. *)

\* Blocks carry the fork they were mined on.
ChainOK(b, f) ==
    /\ \E E : b \in Seq(E)
    /\ f \in Nat
    /\ \A n \in DOMAIN b : b[n].fork \in 0..f

\* A state's hash is of a fork there has been, of an earlier one when its
\* block is no longer there; a block of that fork still there vouches for it.
StateOK(s, b, f) ==
    /\ s.last \in Nat
    /\ s.last = 0 => s.held = {}
    /\ s.last > 0 => \E g \in 0..f :
          /\ s.hash = <<s.last, g>>
          /\ s.last > Len(b) => g < f
          /\ s.last \in DOMAIN b /\ b[s.last].fork = g => s.held = After({}, b, s.last)

\* What the pass relies on is final, and what it has replayed is so far exact.
PassOK ==
    /\ safeHead \in 0..Len(blocks)
    /\ at = "check" => memory # NoState
    /\ at \in {"logs", "hash"} => /\ memory.last \in 0..safeHead - 1
                                 /\ memory.held = After({}, blocks, memory.last)
    /\ at = "hash" => fetched = After({}, blocks, ToBlock)

\* The inductive invariant.
IndexIInv ==
    /\ ChainOK(blocks, fork)
    /\ memory # NoState => StateOK(memory, blocks, fork)
    /\ file # NoState => StateOK(file, blocks, fork)
    /\ PassOK

-----------------------------------------------------------------------------
\* Chain b at fork f became chain c at fork g: the first n blocks and all that
\* is known of a state still stand.
Stands(b, f, c, g, n) ==
    /\ ChainOK(c, g) /\ Len(c) \in Nat /\ n <= Len(c)
    /\ \A i \in 0..n : After({}, c, i) = After({}, b, i)
    /\ \A s : StateOK(s, b, f) => StateOK(s, c, g)

\* A new block changes nothing below it, and has a fork no lost block had.
LEMMA ChainGrows ==
    ASSUME NEW b, NEW f, ChainOK(b, f), NEW e
    PROVE  Stands(b, f, Append(b, [fork |-> f, event |-> e]), f, Len(b))
<1> DEFINE new == [fork |-> f, event |-> e]
           c == Append(b, new)
<1>1. PICK E : b \in Seq(E)
  BY DEF ChainOK
<1>2. f \in Nat /\ \A n \in DOMAIN b : b[n].fork \in 0..f
  BY DEF ChainOK
<1>3. PICK k \in Nat : k = Len(b)
  BY <1>1
<1>4. DOMAIN b = 1..k
  BY <1>1, <1>3
<1>5. /\ c \in Seq(E \cup {new}) /\ Len(c) = k + 1 /\ DOMAIN c = 1..k + 1
      /\ \A i \in 1..k : c[i] = b[i]
      /\ c[k + 1] = new
  BY <1>1, <1>3
<1> HIDE DEF c
<1>6. ASSUME NEW n \in 0..k PROVE After({}, c, n) = After({}, b, n)
  <2>1. \A i \in 1..n : c[i] = b[i] /\ i \in 1..k
    BY <1>5
  <2>2. n \in Nat /\ n <= k + 1 /\ n <= k /\ k + 1 \in Nat
    OBVIOUS
  <2>3. Common(c, b, n)
    BY <1>4, <1>5, <2>1, <2>2 DEF Common
  <2> QED
    BY <2>3, AfterAgrees
<1>7. ChainOK(c, f)
  BY <1>2, <1>4, <1>5 DEF ChainOK
<1>8. ASSUME NEW s, StateOK(s, b, f) PROVE StateOK(s, c, f)
  <2>1. s.last \in Nat /\ (s.last = 0 => s.held = {})
    BY <1>8 DEF StateOK
  <2>2. ASSUME s.last > 0
        PROVE  \E g \in 0..f :
                  /\ s.hash = <<s.last, g>>
                  /\ s.last > Len(c) => g < f
                  /\ s.last \in DOMAIN c /\ c[s.last].fork = g => s.held = After({}, c, s.last)
    <3>1. PICK g \in 0..f :
                  /\ s.hash = <<s.last, g>>
                  /\ s.last > Len(b) => g < f
                  /\ s.last \in DOMAIN b /\ b[s.last].fork = g => s.held = After({}, b, s.last)
      BY <1>8, <2>2 DEF StateOK
    <3>2. s.last > Len(c) => g < f
      BY <1>3, <1>5, <2>1, <3>1
    <3>3. ASSUME s.last \in DOMAIN c, c[s.last].fork = g PROVE s.held = After({}, c, s.last)
      <4>1. s.last # k + 1
        BY <1>2, <1>3, <1>5, <3>1, <3>3
      <4>2. s.last \in 1..k
        BY <1>5, <2>1, <3>3, <4>1
      <4> QED
        BY <1>4, <1>5, <1>6, <3>1, <3>3, <4>2
    <3> QED
      BY <3>1, <3>2, <3>3
  <2> QED
    BY <2>1, <2>2 DEF StateOK
<1>9. Len(c) = k + 1 /\ Len(b) = k /\ k <= k + 1 /\ k + 1 \in Nat
  BY <1>3, <1>5
<1>10. Stands(b, f, c, f, k)
  BY <1>6, <1>7, <1>8, <1>9 DEF Stands
<1> QED
  BY <1>9, <1>10 DEF c

\* Blocks that are dropped leave those below as they were.
LEMMA ChainShrinks ==
    ASSUME NEW b, NEW f, ChainOK(b, f), NEW d \in 1..Len(b)
    PROVE  Stands(b, f, SubSeq(b, 1, Len(b) - d), f + 1, Len(b) - d)
<1> DEFINE c == SubSeq(b, 1, Len(b) - d)
<1>1. PICK E : b \in Seq(E)
  BY DEF ChainOK
<1>2. f \in Nat /\ \A n \in DOMAIN b : b[n].fork \in 0..f
  BY DEF ChainOK
<1>3. PICK k \in Nat : k = Len(b)
  BY <1>1
<1>4. DOMAIN b = 1..k
  BY <1>1, <1>3
<1>5. PICK l \in Nat : l = k - d /\ l <= k
  <2>1. k - d \in Nat /\ k - d <= k
    <3> HIDE DEF c
    <3> QED BY <1>3
  <2> QED BY <2>1
<1>6. /\ c \in Seq(E) /\ Len(c) = l /\ DOMAIN c = 1..l
      /\ \A i \in 1..l : c[i] = b[i]
  BY <1>1, <1>3, <1>5
<1> HIDE DEF c
<1>7. ASSUME NEW n \in 0..l PROVE After({}, c, n) = After({}, b, n)
  <2>1. \A i \in 1..n : c[i] = b[i] /\ i \in 1..k
    BY <1>5, <1>6
  <2>2. n \in Nat /\ n <= l /\ n <= k
    BY <1>5
  <2>3. Common(c, b, n)
    BY <1>4, <1>5, <1>6, <2>1, <2>2 DEF Common
  <2> QED
    BY <2>3, AfterAgrees
<1>8. ChainOK(c, f + 1)
  <2>1. ASSUME NEW n \in DOMAIN c PROVE c[n].fork \in 0..f + 1
    <3>1. n \in DOMAIN b /\ c[n] = b[n]
      BY <1>4, <1>5, <1>6
    <3>2. b[n].fork \in 0..f
      BY <1>2, <3>1
    <3> QED
      BY <1>2, <3>1, <3>2
  <2>2. \E F : c \in Seq(F)
    BY <1>6
  <2>3. f + 1 \in Nat
    BY <1>2
  <2> QED
    BY <2>1, <2>2, <2>3 DEF ChainOK
<1>9. ASSUME NEW s, StateOK(s, b, f) PROVE StateOK(s, c, f + 1)
  <2>1. s.last \in Nat /\ (s.last = 0 => s.held = {})
    BY <1>9 DEF StateOK
  <2>2. ASSUME s.last > 0
        PROVE  \E g \in 0..f + 1 :
                  /\ s.hash = <<s.last, g>>
                  /\ s.last > Len(c) => g < f + 1
                  /\ s.last \in DOMAIN c /\ c[s.last].fork = g => s.held = After({}, c, s.last)
    <3>1. PICK g \in 0..f :
                  /\ s.hash = <<s.last, g>>
                  /\ s.last > Len(b) => g < f
                  /\ s.last \in DOMAIN b /\ b[s.last].fork = g => s.held = After({}, b, s.last)
      BY <1>9, <2>2 DEF StateOK
    <3>2. g \in 0..f + 1 /\ g < f + 1
      BY <1>2
    <3>3. ASSUME s.last \in DOMAIN c, c[s.last].fork = g PROVE s.held = After({}, c, s.last)
      <4>1. s.last \in 0..l /\ s.last \in DOMAIN b /\ c[s.last] = b[s.last]
        BY <1>4, <1>5, <1>6, <3>3
      <4> QED
        BY <1>7, <3>1, <3>3, <4>1
    <3> QED
      BY <3>1, <3>2, <3>3
  <2> QED
    BY <2>1, <2>2 DEF StateOK
<1>10. Len(c) = l /\ Len(b) - d = l /\ l \in Nat
  BY <1>3, <1>5, <1>6
<1>11. Stands(b, f, c, f + 1, l)
  BY <1>7, <1>8, <1>9, <1>10 DEF Stands
<1> QED
  BY <1>10, <1>11 DEF c

\* A replay of the blocks f to t onto what is held below f.
LEMMA ReplayOn ==
    ASSUME ChainOK(blocks, fork), NEW l \in Nat, NEW t \in Nat, l <= t, t <= Len(blocks)
    PROVE  Replayed(After({}, blocks, l), l + 1, t) = After({}, blocks, t)
<1>1. PICK E : blocks \in Seq(E)
  BY DEF ChainOK
<1>2. PICK n \in Nat : n = Len(blocks)
  BY <1>1
<1>3. PICK m \in Nat : m = t - l
  OBVIOUS
<1> DEFINE q == SubSeq(blocks, l + 1, t)
<1>4. DOMAIN blocks = 1..n /\ l + m = t /\ t <= n
  BY <1>1, <1>2, <1>3
<1>5. q \in Seq(E) /\ Len(q) = m /\ DOMAIN q = 1..m
  BY <1>1, <1>2, <1>3, <1>4
<1>6. \A i \in 1..m : q[i] = blocks[l + i]
  BY <1>1, <1>2, <1>3, <1>4
<1> HIDE DEF q
<1>7. After(After({}, blocks, l), q, m) = After({}, blocks, t)
  <2>1. Follows(blocks, q, l, m)
    BY <1>4, <1>5, <1>6 DEF Follows
  <2> QED
    BY <1>4, <2>1, AfterComposes
<1> QED
  BY <1>5, <1>7, ReplayedIs DEF After, q

\* What is held at a block.
LEMMA HeldIs ==
    ASSUME ChainOK(blocks, fork), NEW n \in 0..Len(blocks)
    PROVE  HeldAt(n) = After({}, blocks, n)
<1>1. PICK E : blocks \in Seq(E)
  BY DEF ChainOK
<1>2. PICK k \in Nat : k = Len(blocks) /\ DOMAIN blocks = 1..k
  BY <1>1
<1>3. After({}, blocks, 0) = {}
  BY <1>2, AfterUnfolds DEF Unfolds
<1>4. Replayed(After({}, blocks, 0), 0 + 1, n) = After({}, blocks, n)
  BY <1>2, ReplayOn
<1> QED
  BY <1>3, <1>4 DEF HeldAt

-----------------------------------------------------------------------------
(* The expiry index: its steps. *)

LEMMA IndexInitial == DaemonInit => IndexIInv
<1> SUFFICES ASSUME DaemonInit PROVE IndexIInv
  OBVIOUS
<1>1. blocks = <<>> /\ fork = 0 /\ memory = NoState /\ file = NoState /\ at = "idle" /\ safeHead = 0
  BY DEF DaemonInit, IndexInit
<1>2. ChainOK(blocks, fork)
  <2>1. blocks \in Seq({})
    BY <1>1
  <2> QED
    BY <1>1, <2>1 DEF ChainOK
<1>3. PassOK
  BY <1>1 DEF PassOK
<1> QED
  BY <1>1, <1>2, <1>3 DEF IndexIInv

\* Nothing the invariant reads has changed.
LEMMA IndexFrame ==
    ASSUME IndexIInv, UNCHANGED <<blocks, fork, memory, file, at, safeHead, fetched>>
    PROVE  IndexIInv'
BY DEF IndexIInv, PassOK, ToBlock

\* The chunk's last block is above the checkpoint and final.
LEMMA ChunkIsFinal ==
    ASSUME safeHead \in Nat, memory.last \in 0..safeHead - 1
    PROVE  ToBlock \in memory.last + 1..safeHead
<1> DEFINE x == memory.last + ChunkSize
<1>1. x \in Nat /\ x >= memory.last + 1
  BY IndexAssumption
<1> HIDE DEF x
<1>2. Min({x, safeHead}) = IF x <= safeHead THEN x ELSE safeHead
  BY <1>1 DEF Min
<1> QED
  BY <1>1, <1>2 DEF ToBlock, x

\* A block is mined.
LEMMA MineKeeps ==
    ASSUME IndexIInv, NEW event, MineBlock(event),
           UNCHANGED <<fork, memory, file, at, safeHead, fetched>>
    PROVE  IndexIInv'
<1>1. ChainOK(blocks, fork) /\ blocks' = Append(blocks, [fork |-> fork, event |-> event])
  BY DEF IndexIInv, MineBlock
<1>2. /\ ChainOK(blocks', fork) /\ Len(blocks') \in Nat /\ Len(blocks) <= Len(blocks')
      /\ \A n \in 0..Len(blocks) : After({}, blocks', n) = After({}, blocks, n)
      /\ \A s : StateOK(s, blocks, fork) => StateOK(s, blocks', fork)
  <2>1. Stands(blocks, fork, blocks', fork, Len(blocks))
    BY <1>1, ChainGrows
  <2> QED BY <2>1 DEF Stands
<1>3. Len(blocks) \in Nat
  BY <1>1 DEF ChainOK
<1>4. PassOK'
  <2>1. safeHead \in 0..Len(blocks) /\ (at = "check" => memory # NoState)
    BY DEF IndexIInv, PassOK
  <2>2. ASSUME at \in {"logs", "hash"}
        PROVE  /\ memory.last \in 0..safeHead - 1
               /\ memory.held = After({}, blocks', memory.last)
    BY <1>2, <1>3, <2>1, <2>2 DEF IndexIInv, PassOK
  <2>3. ASSUME at = "hash" PROVE fetched = After({}, blocks', ToBlock)
    <3>1. ToBlock \in 0..Len(blocks)
      <4>1. ToBlock \in memory.last + 1..safeHead /\ memory.last \in 0..safeHead - 1
        BY <1>3, <2>1, <2>2, <2>3, ChunkIsFinal
      <4> QED BY <1>3, <2>1, <4>1
    <3>2. fetched = After({}, blocks, ToBlock)
      BY <2>3 DEF IndexIInv, PassOK
    <3> QED
      BY <1>2, <3>1, <3>2
  <2>4. safeHead \in 0..Len(blocks')
    BY <1>2, <1>3, <2>1
  <2>5. ToBlock' = ToBlock
    BY DEF ToBlock
  <2> QED
    BY <2>1, <2>2, <2>3, <2>4, <2>5 DEF PassOK
<1> QED
  BY <1>2, <1>4 DEF IndexIInv

\* The chain is reorganised.
LEMMA DropKeeps ==
    ASSUME IndexIInv, NEW d, DropBlocks(d)
    PROVE  IndexIInv'
<1>1. /\ ChainOK(blocks, fork) /\ d \in 1..Len(blocks)
      /\ blocks' = SubSeq(blocks, 1, Len(blocks) - d) /\ fork' = fork + 1
      /\ Len(blocks) - d >= safeHead
      /\ UNCHANGED <<memory, file, at, safeHead, fetched>>
  BY DEF IndexIInv, DropBlocks, passVars, syncVars
<1>2. /\ ChainOK(blocks', fork') /\ Len(blocks') \in Nat /\ Len(blocks) - d <= Len(blocks')
      /\ \A n \in 0..Len(blocks) - d : After({}, blocks', n) = After({}, blocks, n)
      /\ \A s : StateOK(s, blocks, fork) => StateOK(s, blocks', fork')
  <2>1. Stands(blocks, fork, blocks', fork', Len(blocks) - d)
    BY <1>1, ChainShrinks
  <2> QED BY <2>1 DEF Stands
<1>3. Len(blocks) \in Nat
  BY <1>1 DEF ChainOK
<1>4. PassOK'
  <2>1. safeHead \in 0..Len(blocks) - d /\ (at = "check" => memory # NoState)
    BY <1>1, <1>3 DEF IndexIInv, PassOK
  <2>2. ASSUME at \in {"logs", "hash"}
        PROVE  /\ memory.last \in 0..safeHead - 1
               /\ memory.held = After({}, blocks', memory.last)
    <3>1. memory.last \in 0..safeHead - 1 /\ memory.held = After({}, blocks, memory.last)
      BY <2>2 DEF IndexIInv, PassOK
    <3>2. memory.last \in 0..Len(blocks) - d
      BY <1>1, <1>3, <2>1, <3>1
    <3> QED BY <1>2, <3>1, <3>2
  <2>3. ASSUME at = "hash" PROVE fetched = After({}, blocks', ToBlock)
    <3>1. ToBlock \in 0..Len(blocks) - d
      <4>1. ToBlock \in memory.last + 1..safeHead /\ memory.last \in 0..safeHead - 1
        BY <1>1, <1>3, <2>1, <2>2, <2>3, ChunkIsFinal
      <4> QED BY <1>1, <1>3, <2>1, <4>1
    <3>2. fetched = After({}, blocks, ToBlock)
      BY <2>3 DEF IndexIInv, PassOK
    <3> QED
      BY <1>2, <3>1, <3>2
  <2>4. ToBlock' = ToBlock
    BY <1>1 DEF ToBlock
  <2> QED
    BY <1>1, <1>2, <2>1, <2>2, <2>3, <2>4 DEF PassOK
<1> QED
  BY <1>1, <1>2, <1>4 DEF IndexIInv

\* A pass that has ended relies on nothing.
LEMMA PassIsOver ==
    ASSUME ChainOK(blocks, fork), UNCHANGED <<blocks, fork>>,
           at' \in {"idle", "head"}, safeHead' = 0
    PROVE  ChainOK(blocks', fork') /\ PassOK'
<1>1. Len(blocks) \in Nat
  BY DEF ChainOK
<1> QED
  BY <1>1 DEF PassOK

\* The index's own steps.
LEMMA SyncKeeps ==
    ASSUME IndexIInv, SyncStep \/ SyncThrows
    PROVE  IndexIInv'
<1>1. /\ ChainOK(blocks, fork) /\ PassOK
      /\ memory # NoState => StateOK(memory, blocks, fork)
      /\ file # NoState => StateOK(file, blocks, fork)
  BY DEF IndexIInv
<1>2. Len(blocks) \in Nat /\ safeHead \in 0..Len(blocks)
  BY <1>1 DEF ChainOK, PassOK
<1>3. UNCHANGED <<blocks, fork>>
  BY DEF SyncStep, SyncThrows, ReadLatest, Check, Reset, QueryLogs, Checkpoint, chainVars
<1>4. \A how : SyncReturns(how) => at' \in {"idle", "head"} /\ safeHead' = 0
  BY DEF SyncReturns
<1>5. CASE ReadLatest
  <2>1. UNCHANGED file /\ memory' \in {memory, file}
    BY <1>5 DEF ReadLatest
  <2>2. ChainOK(blocks', fork') /\ PassOK'
    <3>1. CASE Len(blocks) < Confirmations
      BY <1>1, <1>3, <1>4, <1>5, <3>1, PassIsOver DEF ReadLatest
    <3>2. CASE ~(Len(blocks) < Confirmations)
      <4>1. safeHead' = FinalHead /\ at' = IF memory' = NoState THEN "reset" ELSE "check"
        BY <1>5, <3>2 DEF ReadLatest
      <4>2. FinalHead \in 0..Len(blocks)
        BY <1>2, IndexAssumption DEF FinalHead
      <4> QED
        BY <1>1, <1>3, <4>1, <4>2 DEF PassOK
    <3> QED BY <3>1, <3>2
  <2> QED
    BY <1>1, <1>3, <2>1, <2>2 DEF IndexIInv
<1>6. CASE Check
  <2>1. at = "check" /\ memory # NoState /\ UNCHANGED <<memory, file>>
    BY <1>1, <1>6 DEF Check, PassOK
  <2>2. ChainOK(blocks', fork') /\ PassOK'
    <3>1. CASE CheckpointStale
      <4>1. at' = "reset" /\ UNCHANGED safeHead
        BY <1>6, <3>1 DEF Check
      <4> QED BY <1>1, <1>2, <1>3, <4>1 DEF PassOK
    <3>2. CASE ~CheckpointStale /\ memory.last < safeHead
      <4>1. at' = "logs" /\ UNCHANGED safeHead
        BY <1>6, <3>2 DEF Check
      <4>2. memory.last \in Nat /\ StateOK(memory, blocks, fork)
        BY <1>1, <2>1 DEF StateOK
      <4>3. memory.last \in 0..safeHead - 1
        BY <1>2, <3>2, <4>2
      <4>4. memory.held = After({}, blocks, memory.last)
        <5>1. CASE memory.last = 0
          <6>1. After({}, blocks, 0) = {}
            <7>1. PICK k \in Nat : DOMAIN blocks = 1..k
              BY <1>1 DEF ChainOK
            <7> QED BY <7>1, AfterUnfolds DEF Unfolds
          <6> QED BY <4>2, <5>1, <6>1 DEF StateOK
        <5>2. CASE memory.last > 0
          <6>1. memory.hash = <<memory.last, blocks[memory.last].fork>>
            BY <3>2, <5>2 DEF CheckpointStale, HashOf
          <6>2. memory.last \in DOMAIN blocks
            <7>1. PICK E : blocks \in Seq(E)
              BY <1>1 DEF ChainOK
            <7>2. memory.last \in 1..Len(blocks)
              BY <1>2, <4>2, <4>3, <5>2
            <7> QED BY <7>1, <7>2
          <6>3. PICK g \in 0..fork :
                  /\ memory.hash = <<memory.last, g>>
                  /\ memory.last \in DOMAIN blocks /\ blocks[memory.last].fork = g
                        => memory.held = After({}, blocks, memory.last)
            BY <4>2, <5>2 DEF StateOK
          <6> QED BY <6>1, <6>2, <6>3
        <5> QED BY <4>2, <5>1, <5>2
      <4> QED
        BY <1>1, <1>2, <1>3, <2>1, <4>1, <4>3, <4>4 DEF PassOK
    <3>3. CASE ~CheckpointStale /\ ~(memory.last < safeHead)
      BY <1>1, <1>3, <1>4, <1>6, <3>3, PassIsOver DEF Check
    <3> QED BY <3>1, <3>2, <3>3
  <2> QED
    BY <1>1, <1>3, <2>1, <2>2 DEF IndexIInv
<1>7. CASE Reset
  <2> DEFINE s == [last |-> 0, hash |-> NoEvent, held |-> {}]
  <2>1. memory' = s /\ file' \in {file, s} /\ safeHead > 0
    BY <1>7 DEF Reset, Save
  <2>2. StateOK(s, blocks, fork)
    BY DEF StateOK
  <2>3. ChainOK(blocks', fork') /\ PassOK'
    <3>1. CASE Saved
      <4>1. at' = "logs" /\ UNCHANGED safeHead
        BY <1>7, <3>1 DEF Reset
      <4>2. memory'.last \in 0..safeHead - 1
        BY <1>2, <2>1
      <4>3. After({}, blocks, 0) = {}
        <5>1. PICK k \in Nat : DOMAIN blocks = 1..k
          BY <1>1 DEF ChainOK
        <5> QED BY <5>1, AfterUnfolds DEF Unfolds
      <4>4. memory'.held = After({}, blocks, memory'.last)
        BY <2>1, <4>3
      <4> QED
        BY <1>1, <1>2, <1>3, <4>1, <4>2, <4>4 DEF PassOK
    <3>2. CASE ~Saved
      BY <1>1, <1>3, <1>4, <1>7, <3>2, PassIsOver DEF Reset
    <3> QED BY <3>1, <3>2
  <2> HIDE DEF s
  <2> QED
    BY <1>1, <1>3, <2>1, <2>2, <2>3 DEF IndexIInv
<1>8. CASE QueryLogs
  <2>1. /\ at = "logs" /\ at' = "hash"
        /\ fetched' = Replayed(memory.held, memory.last + 1, ToBlock)
        /\ UNCHANGED <<memory, file, safeHead>>
    BY <1>8 DEF QueryLogs
  <2>2. memory.last \in 0..safeHead - 1 /\ memory.held = After({}, blocks, memory.last)
    BY <1>1, <2>1 DEF PassOK
  <2>3. ToBlock \in memory.last + 1..safeHead
    BY <1>2, <2>2, ChunkIsFinal
  <2>4. fetched' = After({}, blocks, ToBlock)
    <3>1. memory.last \in Nat /\ ToBlock \in Nat /\ memory.last <= ToBlock /\ ToBlock <= Len(blocks)
      BY <1>2, <2>2, <2>3
    <3> QED
      BY <1>1, <2>1, <2>2, <3>1, ReplayOn
  <2>5. ToBlock' = ToBlock
    BY <2>1 DEF ToBlock
  <2>6. PassOK'
    BY <1>2, <1>3, <2>1, <2>2, <2>4, <2>5 DEF PassOK
  <2> QED
    BY <1>1, <1>3, <2>1, <2>6 DEF IndexIInv
<1>9. CASE Checkpoint
  <2> DEFINE s == [last |-> ToBlock, hash |-> HashOf(ToBlock), held |-> fetched]
  <2>1. memory' = s /\ file' \in {file, s} /\ at = "hash"
    BY <1>9 DEF Checkpoint, Save
  <2>2. ToBlock \in 1..safeHead /\ fetched = After({}, blocks, ToBlock)
    <3>1. memory.last \in 0..safeHead - 1 /\ fetched = After({}, blocks, ToBlock)
      BY <1>1, <2>1 DEF PassOK
    <3>2. ToBlock \in memory.last + 1..safeHead
      BY <1>2, <3>1, ChunkIsFinal
    <3> QED BY <1>2, <3>1, <3>2
  <2>3. s.last = ToBlock /\ s.hash = <<ToBlock, blocks[ToBlock].fork>> /\ s.held = fetched
    BY DEF HashOf
  <2> HIDE DEF s
  <2>4. StateOK(s, blocks, fork)
    <3>1. ToBlock \in DOMAIN blocks /\ blocks[ToBlock].fork \in 0..fork
      <4>1. PICK E : blocks \in Seq(E)
        BY <1>1 DEF ChainOK
      <4>2. ToBlock \in 1..Len(blocks)
        BY <1>2, <2>2
      <4> QED BY <1>1, <4>1, <4>2 DEF ChainOK
    <3>2. ToBlock > 0 /\ ToBlock \in Nat /\ ~(ToBlock > Len(blocks))
      BY <1>2, <2>2
    <3> QED
      BY <2>2, <2>3, <3>1, <3>2 DEF StateOK
  <2>5. ChainOK(blocks', fork') /\ PassOK'
    <3>1. CASE Saved /\ memory'.last < safeHead
      <4>1. at' = "logs" /\ UNCHANGED safeHead
        BY <1>9, <3>1 DEF Checkpoint
      <4>2. memory'.last \in 0..safeHead - 1 /\ memory'.held = After({}, blocks, memory'.last)
        BY <1>2, <2>1, <2>2, <2>3, <3>1
      <4> QED
        BY <1>1, <1>2, <1>3, <4>1, <4>2 DEF PassOK
    <3>2. CASE ~(Saved /\ memory'.last < safeHead)
      <4>1. at' \in {"idle", "head"} /\ safeHead' = 0
        BY <1>4, <1>9, <3>2 DEF Checkpoint
      <4> QED BY <1>1, <1>3, <4>1, PassIsOver
    <3> QED BY <3>1, <3>2
  <2> QED
    BY <1>1, <1>3, <2>1, <2>4, <2>5 DEF IndexIInv
<1>10. CASE SyncThrows
  <2>1. at' \in {"idle", "head"} /\ safeHead' = 0 /\ UNCHANGED <<memory, file>>
    BY <1>4, <1>10 DEF SyncThrows
  <2> QED
    BY <1>1, <1>3, <2>1, PassIsOver DEF IndexIInv
<1> QED
  BY <1>5, <1>6, <1>7, <1>8, <1>9, <1>10 DEF SyncStep

\* A loop asks for a sync, or goes on without one.
LEMMA LoopKeeps ==
    ASSUME IndexIInv, FeedStep \/ WorkStep \/ \E e \in Expiries : CooldownEnds(e) \/ PeerFixes(e)
    PROVE  IndexIInv'
<1> USE DEF indexVars, chainVars, passVars, syncVars
<1>1. ASSUME NEW c, CallSync(c) PROVE IndexIInv'
  <2>1. UNCHANGED <<blocks, fork, memory, file, safeHead, fetched>> /\ at' \in {"head", at}
    BY <1>1 DEF CallSync
  <2>2. CASE at' = at
    BY <2>1, <2>2, IndexFrame
  <2>3. CASE at' = "head"
    <3>1. PassOK'
      BY <2>1, <2>3 DEF IndexIInv, PassOK
    <3> QED BY <2>1, <3>1 DEF IndexIInv
  <2> QED BY <2>1, <2>2, <2>3
<1>2. CASE FeedWakes \/ WorkWakes
  BY <1>1, <1>2 DEF FeedWakes, WorkWakes
<1>3. CASE FixPrice
  <2>1. MineBlock(Priced(Head(series).expiry)) /\ UNCHANGED <<fork, memory, file, at, safeHead, fetched>>
    BY <1>3 DEF FixPrice
  <2> QED BY <2>1, MineKeeps
<1>4. ASSUME NEW e, PeerFixes(e) PROVE IndexIInv'
  <2>1. MineBlock(Priced(e)) /\ UNCHANGED <<fork, memory, file, at, safeHead, fetched>>
    BY <1>4 DEF PeerFixes
  <2> QED BY <2>1, MineKeeps
<1>5. CASE Settle
  <2>1. /\ MineBlock(Closed(Min(unsettled))) \/ UNCHANGED blocks
        /\ UNCHANGED <<fork, memory, file, at, safeHead, fetched>>
    BY <1>5 DEF Settle
  <2> QED BY <2>1, MineKeeps, IndexFrame
<1>6. CASE FeedSynced \/ FeedPosts \/ WorkSynced \/ WorkLists \/ WorkNext \/ ReadPrice
  <2>1. UNCHANGED <<blocks, fork, memory, file, at, safeHead, fetched>>
    BY <1>6 DEF FeedSynced, FeedPosts, WorkSynced, WorkLists, WorkNext, ReadPrice, Forgotten
  <2> QED BY <2>1, IndexFrame
<1>7. CASE FixFails \/ SettleFails \/ SeriesSubmitted \/ \E e \in Expiries : CooldownEnds(e)
  <2>1. UNCHANGED <<blocks, fork, memory, file, at, safeHead, fetched>>
    BY <1>7 DEF FixFails, SettleFails, SeriesSubmitted, CooldownEnds
  <2> QED BY <2>1, IndexFrame
<1> QED
  BY <1>2, <1>3, <1>4, <1>5, <1>6, <1>7 DEF FeedStep, WorkStep

LEMMA IndexStep == IndexIInv /\ [DaemonNext]_daemonVars => IndexIInv'
<1> SUFFICES ASSUME IndexIInv, [DaemonNext]_daemonVars PROVE IndexIInv'
  OBVIOUS
<1> USE DEF daemonVars, indexVars, chainVars, passVars, syncVars
<1>1. CASE FeedStep \/ WorkStep \/ \E e \in Expiries : CooldownEnds(e) \/ PeerFixes(e)
  BY <1>1, LoopKeeps
<1>2. CASE SyncStep \/ SyncThrows
  BY <1>2, SyncKeeps
<1>3. CASE ChainStep
  <2>1. ASSUME NEW a \in Accounts, Trade(a) PROVE IndexIInv'
    <3>1. MineBlock(Opened(a)) /\ UNCHANGED <<fork, memory, file, at, safeHead, fetched>>
      BY <2>1 DEF Trade
    <3> QED BY <3>1, MineKeeps
  <2>2. CASE EmptyBlock
    <3>1. MineBlock(NoEvent) /\ UNCHANGED <<fork, memory, file, at, safeHead, fetched>>
      BY <2>2 DEF EmptyBlock
    <3> QED BY <3>1, MineKeeps
  <2>3. CASE Tick
    <3>1. UNCHANGED <<blocks, fork, memory, file, at, safeHead, fetched>>
      BY <2>3 DEF Tick
    <3> QED BY <3>1, IndexFrame
  <2> QED BY <1>3, <2>1, <2>2, <2>3 DEF ChainStep
<1>4. CASE \E d \in 1..MaxDepth : DropBlocks(d)
  BY <1>4, DropKeeps
<1>5. CASE DaemonCrash
  <2>1. at' \in {"idle", "head"} /\ safeHead' = 0 /\ memory' = NoState /\ UNCHANGED <<blocks, fork, file>>
    BY <1>5 DEF DaemonCrash, IndexForgets
  <2>2. ChainOK(blocks', fork') /\ PassOK'
    BY <2>1, PassIsOver DEF IndexIInv
  <2> QED
    BY <2>1, <2>2 DEF IndexIInv
<1>6. CASE UNCHANGED daemonVars
  <2>1. UNCHANGED <<blocks, fork, memory, file, at, safeHead, fetched>>
    BY <1>6
  <2> QED BY <2>1, IndexFrame
<1> QED
  BY <1>1, <1>2, <1>3, <1>4, <1>5, <1>6 DEF DaemonNext

\* The index keeps its invariant: what it holds, in memory, on disk and half
\* way through a pass, is what the events up to its checkpoint leave, on every
\* fork there has been (ActiveExpiryIndex.performSync).
THEOREM IndexInvariant == DaemonSpec => []IndexIInv
BY IndexInitial, IndexStep, PTL DEF DaemonSpec

\* A checkpoint whose block is canonical vouches for its positions, for any
\* accounts, loops, chunk size, confirmations, reorganisations and failures
\* (performSync, ensureCheckpointCanonical, resetState, saveState).
THEOREM CheckpointsVouch == DaemonSpec => []CheckpointVouches
<1>1. ASSUME IndexIInv PROVE CheckpointVouches
  <2>1. ASSUME NEW s \in {memory, file} \ {NoState},
               s.last \in DOMAIN blocks, s.hash = HashOf(s.last)
        PROVE  s.held = HeldAt(s.last)
    <3>1. StateOK(s, blocks, fork) /\ ChainOK(blocks, fork)
      BY <1>1, <2>1 DEF IndexIInv
    <3>2. PICK k \in Nat : DOMAIN blocks = 1..k /\ Len(blocks) = k
      BY <3>1 DEF ChainOK
    <3>3. s.last > 0 /\ s.last \in 0..Len(blocks)
      BY <2>1, <3>2
    <3>4. PICK g \in 0..fork :
            /\ s.hash = <<s.last, g>>
            /\ s.last \in DOMAIN blocks /\ blocks[s.last].fork = g
                  => s.held = After({}, blocks, s.last)
      BY <3>1, <3>3 DEF StateOK
    <3>5. s.hash = <<s.last, blocks[s.last].fork>>
      BY <2>1 DEF HashOf
    <3> QED
      BY <2>1, <3>1, <3>3, <3>4, <3>5, HeldIs
  <2> QED
    BY <2>1 DEF CheckpointVouches
<1> QED
  BY <1>1, IndexInvariant, PTL

-----------------------------------------------------------------------------
(* The multiplier registry: its state. *)

Points == [at : Nat, multiplier : Multipliers]
Announcements == [multiplier : Multipliers, at : Nat]

\* A change of the token's multiplier lies ahead.
Ahead == Announced /\ token.next.at > tokenTime

TokenOK ==
    /\ tokenTime \in Nat \ {0}
    /\ token \in [before : Multipliers, next : {None} \cup Announcements]
    /\ applied \in Seq(Multipliers) /\ Len(applied) = tokenTime
    /\ applied[tokenTime] = UiMultiplier

\* A history starts at zero and grows, and nothing in it is to come.
History(points) ==
    /\ points \in Seq(Points) /\ Len(points) > 0 /\ points[1].at = 0
    /\ \A i, j \in DOMAIN points : i < j => points[i].at < points[j].at
    /\ \A i \in DOMAIN points : points[i].at <= tokenTime

\* A pending checkpoint is later than the history.  Once its time has come it is
\* what the token applies since; until then a change lies ahead, it or another.
PendingOK(points, p) ==
    p # None =>
        /\ p \in Announcements
        /\ \A i \in DOMAIN points : points[i].at < p.at
        /\ p.at <= tokenTime => /\ UiMultiplier = p.multiplier
                               /\ \A t \in p.at..tokenTime : applied[t] = p.multiplier
        /\ p.at > tokenTime => Ahead

\* Below the pending checkpoint the history is exact.
AnswersOK(points, p) ==
    \A t \in 1..tokenTime : (p # None => t < p.at) => Newest(points, t) = applied[t]

Faithful(points, p) == History(points) /\ PendingOK(points, p) /\ AnswersOK(points, p)

\* A pass that started on the token as it is, and one that is further on.
FreshPass == [at |-> "now", current |-> UiMultiplier]
LaterPasses == [at : {"compare", "pending", "send pending"}, current : {UiMultiplier}, now : {tokenTime}]

\* When a whole pass has followed the last change, what lies ahead is pending;
\* such a pass has read the token as it is.
HeardOK ==
    /\ heard \in {"yes", "no", "listening"}
    /\ heard = "yes" /\ Ahead => pendingCheckpoint = token.next
    /\ heard = "listening" => keeper = FreshPass \/ keeper \in LaterPasses

\* The inductive invariant.
RegistryIInv == TokenOK /\ Faithful(checkpoints, pendingCheckpoint) /\ HeardOK

-----------------------------------------------------------------------------
(* The multiplier registry: its reads. *)

\* The newest point is the last one that is not later.
LEMMA NewestIs ==
    ASSUME NEW points, DOMAIN points \subseteq Nat, NEW time,
           NEW i \in DOMAIN points, points[i].at <= time,
           \A j \in DOMAIN points : points[j].at <= time => j <= i
    PROVE  Newest(points, time) = points[i].multiplier
<1> DEFINE P(k) == points[k].at <= time /\ \A j \in DOMAIN points : points[j].at <= time => j <= k
<1>1. \A k \in DOMAIN points : P(k) => k = i
  OBVIOUS
<1>2. P(i)
  OBVIOUS
<1>3. (CHOOSE k \in DOMAIN points : P(k)) = i
  <2> HIDE DEF P
  <2> QED BY <1>1, <1>2
<1> QED
  BY <1>3 DEF Newest

\* There is one.
LEMMA HasNewest ==
    ASSUME NEW points, History(points), NEW time \in Nat
    PROVE  \E i \in DOMAIN points : /\ points[i].at <= time
                                    /\ \A j \in DOMAIN points : points[j].at <= time => j <= i
<1> DEFINE D == {i \in DOMAIN points : points[i].at <= time}
<1>1. PICK k \in Nat : k > 0 /\ DOMAIN points = 1..k /\ points[1].at = 0
  BY DEF History
<1>2. 1 \in D /\ D \subseteq 1..k /\ D \subseteq Nat
  BY <1>1
<1>3. IsFiniteSet(D)
  <2>1. IsFiniteSet(1..k)
    BY FS_Interval
  <2> HIDE DEF D
  <2> QED BY <1>2, <2>1, FS_Subset
<1>4. PICK i \in D : \A j \in D : i >= j
  <2> HIDE DEF D
  <2> QED BY <1>2, <1>3, HasGreatest
<1> QED
  BY <1>1, <1>4

LEMMA TokenIs ==
    ASSUME TokenOK
    PROVE  /\ UiMultiplier \in Multipliers /\ UiMultiplier # None
           /\ Announced => token.next \in Announcements /\ token.next.at \in Nat
           /\ DOMAIN applied = 1..tokenTime
           /\ Ahead => UiMultiplier = token.before
<1>1. token.before \in Multipliers /\ (Announced => token.next \in Announcements)
  BY DEF TokenOK, Announced
<1>2. Announced => token.next.at \in Nat /\ token.next.multiplier \in Multipliers
  BY <1>1 DEF Announcements
<1> QED
  BY <1>1, <1>2, MultiplierAssumption DEF TokenOK, UiMultiplier, UiMultiplierAt, Ahead

\* What the registry answers is what was applied.
LEMMA FaithfulIsExact ==
    ASSUME TokenOK, NEW points, NEW p, Faithful(points, p), NEW t \in 1..tokenTime
    PROVE  ReadAt(points, p, t) = applied[t]
<1>1. CASE p # None /\ p.at <= t
  <2>1. p.at \in Nat /\ t \in Nat /\ tokenTime \in Nat /\ t <= tokenTime
    BY <1>1 DEF Faithful, PendingOK, Announcements, TokenOK
  <2>2. p.at <= tokenTime /\ t \in p.at..tokenTime
    BY <1>1, <2>1
  <2>3. UiMultiplier = p.multiplier /\ applied[t] = p.multiplier
    BY <1>1, <2>2 DEF Faithful, PendingOK
  <2>4. AlreadyEffective(p)
    BY <2>1, <2>2, <2>3 DEF AlreadyEffective
  <2> QED
    BY <1>1, <2>3, <2>4 DEF ReadAt
<1>2. CASE ~(p # None /\ p.at <= t)
  <2>1. p # None => t < p.at
    BY <1>2 DEF Faithful, PendingOK, Announcements, TokenOK
  <2>2. Newest(points, t) = applied[t]
    BY <2>1 DEF Faithful, AnswersOK
  <2> QED BY <1>2, <2>2 DEF ReadAt
<1> QED
  BY <1>1, <1>2

-----------------------------------------------------------------------------
(* The multiplier registry: its writes. *)

LEMMA PendingIs ==
    ASSUME TokenOK, NEW points, NEW p, Faithful(points, p), p # None
    PROVE  /\ p.at \in Nat /\ p.multiplier \in Multipliers
           /\ \A i \in DOMAIN points : points[i].at < p.at
           /\ AlreadyEffective(p) <=> p.at <= tokenTime
BY DEF Faithful, PendingOK, Announcements, AlreadyEffective, TokenOK

LEMMA HistoryIs ==
    ASSUME NEW points, History(points)
    PROVE  /\ points # None
           /\ \E k \in Nat : /\ k > 0 /\ Len(points) = k /\ DOMAIN points = 1..k
                             /\ Last(points) = points[k]
           /\ \A i \in DOMAIN points : points[i].at \in Nat /\ points[i] \in Points
<1>1. points \in Seq(Points) /\ Len(points) > 0
  BY DEF History
<1>2. points # None
  <2>1. None \notin Seq(Points)
    BY MultiplierAssumption DEF Points
  <2> QED BY <1>1, <2>1
<1>3. \A i \in DOMAIN points : points[i] \in Points
  BY <1>1
<1>4. \A i \in DOMAIN points : points[i].at \in Nat
  BY <1>3 DEF Points
<1> QED
  BY <1>1, <1>2, <1>3, <1>4 DEF Last

\* A pending checkpoint that took effect becomes part of the history.
LEMMA FinalisedIs ==
    ASSUME TokenOK, NEW points, NEW p, Faithful(points, p), p # None, p.at <= tokenTime
    PROVE  Faithful(RecordFinal(points, p.at, p.multiplier), None)
<1>1. /\ p.at \in Nat /\ p.multiplier \in Multipliers
      /\ \A i \in DOMAIN points : points[i].at < p.at
  BY PendingIs
<1>2. History(points)
  BY DEF Faithful
<1>3. PICK k \in Nat : /\ k > 0 /\ Len(points) = k /\ DOMAIN points = 1..k
                       /\ Last(points) = points[k]
  BY <1>2, HistoryIs
<1>4. \A i \in 1..k : points[i].at \in Nat /\ points[i] \in Points
  BY <1>2, <1>3, HistoryIs
<1>5. Last(points).at < p.at /\ Last(points).at \in Nat
  BY <1>1, <1>3, <1>4
<1>6. tokenTime \in Nat
  BY DEF TokenOK
<1>7. ASSUME NEW t \in 1..tokenTime, t < p.at PROVE Newest(points, t) = applied[t]
  BY <1>7 DEF Faithful, AnswersOK
<1>8. ASSUME NEW t \in 1..tokenTime, t >= p.at PROVE applied[t] = p.multiplier
  <2>1. t \in p.at..tokenTime
    BY <1>1, <1>6, <1>8
  <2> QED BY <2>1 DEF Faithful, PendingOK
<1>9. CASE Last(points).multiplier = p.multiplier
  <2>1. RecordFinal(points, p.at, p.multiplier) = points
    BY <1>1, <1>5, <1>9 DEF RecordFinal
  <2>2. ASSUME NEW t \in 1..tokenTime PROVE Newest(points, t) = applied[t]
    <3>1. CASE t >= p.at
      <4>1. Newest(points, t) = points[k].multiplier
        <5>1. /\ DOMAIN points \subseteq Nat /\ k \in DOMAIN points /\ points[k].at <= t
              /\ \A j \in DOMAIN points : points[j].at <= t => j <= k
          BY <1>1, <1>3, <1>4, <3>1
        <5> QED BY <5>1, NewestIs
      <4> QED BY <1>3, <1>8, <1>9, <3>1, <4>1
    <3>2. CASE t < p.at
      BY <1>7, <3>2
    <3> QED BY <1>1, <3>1, <3>2
  <2> QED
    BY <1>2, <2>1, <2>2 DEF Faithful, PendingOK, AnswersOK
<1>10. CASE Last(points).multiplier # p.multiplier
  <2> DEFINE new == [at |-> p.at, multiplier |-> p.multiplier]
             more == Append(points, new)
  <2>1. RecordFinal(points, p.at, p.multiplier) = more
    BY <1>1, <1>5, <1>10 DEF RecordFinal
  <2>2. /\ more \in Seq(Points) /\ Len(more) = k + 1 /\ DOMAIN more = 1..k + 1
        /\ \A i \in 1..k : more[i] = points[i]
        /\ more[k + 1] = new
    <3>1. new \in Points /\ points \in Seq(Points)
      BY <1>1, <1>2 DEF Points, History
    <3> HIDE DEF new
    <3> QED BY <1>3, <3>1
  <2>3. new.at = p.at /\ new.multiplier = p.multiplier
    OBVIOUS
  <2> HIDE DEF more, new
  <2>4. History(more)
    <3>1. ASSUME NEW i \in DOMAIN more, NEW j \in DOMAIN more, i < j
          PROVE  more[i].at < more[j].at
      <4>1. i \in 1..k
        BY <1>3, <2>2, <3>1
      <4>2. CASE j = k + 1
        BY <1>1, <1>3, <2>2, <2>3, <4>1, <4>2
      <4>3. CASE j # k + 1
        <5>1. j \in 1..k
          BY <1>3, <2>2, <4>3
        <5> QED BY <1>2, <1>3, <2>2, <3>1, <4>1, <5>1 DEF History
      <4> QED BY <4>2, <4>3
    <3>2. ASSUME NEW i \in DOMAIN more PROVE more[i].at <= tokenTime
      <4>1. CASE i = k + 1
        BY <2>2, <2>3, <4>1
      <4>2. CASE i # k + 1
        <5>1. i \in 1..k
          BY <1>3, <2>2, <4>2
        <5> QED BY <1>2, <1>3, <2>2, <5>1 DEF History
      <4> QED BY <4>1, <4>2
    <3>3. more[1].at = 0 /\ Len(more) > 0
      BY <1>2, <1>3, <2>2 DEF History
    <3> QED BY <2>2, <3>1, <3>2, <3>3 DEF History
  <2>5. ASSUME NEW t \in 1..tokenTime PROVE Newest(more, t) = applied[t]
    <3>1. CASE t >= p.at
      <4>1. Newest(more, t) = more[k + 1].multiplier
        <5>1. /\ DOMAIN more \subseteq Nat /\ k + 1 \in DOMAIN more /\ more[k + 1].at <= t
              /\ \A j \in DOMAIN more : more[j].at <= t => j <= k + 1
          BY <1>3, <2>2, <2>3, <3>1
        <5> QED BY <5>1, NewestIs
      <4> QED BY <1>8, <2>2, <2>3, <3>1, <4>1
    <3>2. CASE t < p.at
      <4>1. PICK i \in DOMAIN points :
                /\ points[i].at <= t
                /\ \A j \in DOMAIN points : points[j].at <= t => j <= i
        <5>1. t \in Nat
          BY <1>6
        <5> QED BY <1>2, <5>1, HasNewest
      <4>2. Newest(points, t) = points[i].multiplier
        <5>1. DOMAIN points \subseteq Nat
          BY <1>3
        <5> QED BY <4>1, <5>1, NewestIs
      <4>3. ASSUME NEW j \in DOMAIN more, more[j].at <= t PROVE j <= i
        <5>1. j # k + 1
          BY <1>1, <1>6, <2>2, <2>3, <3>2, <4>3
        <5>2. j \in 1..k
          BY <1>3, <2>2, <5>1
        <5> QED BY <1>3, <2>2, <4>1, <4>3, <5>2
      <4>4. Newest(more, t) = more[i].multiplier
        <5>1. DOMAIN more \subseteq Nat /\ i \in DOMAIN more /\ more[i].at <= t
          BY <1>3, <2>2, <4>1
        <5> QED BY <4>3, <5>1, NewestIs
      <4>5. Newest(more, t) = Newest(points, t)
        BY <1>3, <2>2, <4>1, <4>2, <4>4
      <4> QED BY <1>7, <3>2, <4>5
    <3> QED BY <1>1, <1>6, <3>1, <3>2
  <2> QED
    BY <2>1, <2>4, <2>5 DEF Faithful, PendingOK, AnswersOK
<1> QED
  BY <1>9, <1>10

\* A pending checkpoint that has not taken effect can be dropped or replaced.
LEMMA ReplacedIs ==
    ASSUME TokenOK, NEW points, NEW p, Faithful(points, p),
           p # None => p.at > tokenTime,
           NEW q, q = None \/ (Ahead /\ q = token.next)
    PROVE  Faithful(points, q)
<1>1. tokenTime \in Nat /\ History(points)
  BY DEF TokenOK, Faithful
<1>2. \A t \in 1..tokenTime : Newest(points, t) = applied[t]
  <2>1. p # None => p.at \in Nat
    BY PendingIs
  <2> QED BY <1>1, <2>1 DEF Faithful, AnswersOK
<1>3. PendingOK(points, q)
  <2>1. CASE q = None
    BY <2>1 DEF PendingOK
  <2>2. CASE Ahead /\ q = token.next
    <3>1. q \in Announcements /\ q.at \in Nat /\ q.at > tokenTime
      BY <2>2, TokenIs DEF Ahead
    <3>2. \A i \in DOMAIN points : points[i].at < q.at
      BY <1>1, <3>1, HistoryIs DEF History
    <3> QED BY <1>1, <2>2, <3>1, <3>2 DEF PendingOK
  <2> QED BY <2>1, <2>2
<1> QED
  BY <1>1, <1>2, <1>3 DEF Faithful, AnswersOK

\* What reconciling leaves: the history is as faithful, and only what lies ahead
\* is still pending.
LEMMA ReconciledIs ==
    ASSUME RegistryIInv
    PROVE  /\ Faithful(Reconciled.points, Reconciled.pending)
           /\ Reconciled.points # None
           /\ Reconciled.pending # None => Reconciled.pending.at > tokenTime
           /\ Ahead /\ pendingCheckpoint = token.next => Reconciled.pending = token.next
<1> DEFINE p == pendingCheckpoint
<1>1. TokenOK /\ Faithful(checkpoints, p)
  BY DEF RegistryIInv
<1>2. p # None => p.at \in Nat /\ (AlreadyEffective(p) <=> p.at <= tokenTime)
  BY <1>1, PendingIs
<1>3. tokenTime \in Nat
  BY <1>1 DEF TokenOK
<1>4. CASE p = None
  <2>1. Reconciled.points = checkpoints /\ Reconciled.pending = None
    BY <1>4 DEF Reconciled
  <2>2. checkpoints # None
    BY <1>1, HistoryIs DEF Faithful
  <2>3. Ahead => token.next # None
    BY DEF Ahead, Announced
  <2> QED BY <1>1, <1>4, <2>1, <2>2, <2>3
<1>5. CASE p # None /\ AlreadyEffective(p)
  <2>1. Reconciled.points = RecordFinal(checkpoints, p.at, p.multiplier) /\ Reconciled.pending = None
    BY <1>5 DEF Reconciled
  <2>2. Faithful(Reconciled.points, None)
    BY <1>1, <1>2, <1>5, <2>1, FinalisedIs
  <2>3. Reconciled.points # None
    BY <2>2, HistoryIs DEF Faithful
  <2>4. ~(Ahead /\ p = token.next)
    BY <1>2, <1>3, <1>5 DEF Ahead
  <2> QED BY <2>1, <2>2, <2>3, <2>4
<1>6. CASE p # None /\ ~AlreadyEffective(p)
  <2>1. /\ Reconciled.points = checkpoints
        /\ Reconciled.pending = IF StillAnnounced(p) THEN p ELSE None
    BY <1>6 DEF Reconciled
  <2>2. p.at > tokenTime
    BY <1>2, <1>3, <1>6
  <2>3. Faithful(checkpoints, None)
    BY <1>1, <2>2, ReplacedIs
  <2>4. checkpoints # None
    BY <1>1, HistoryIs DEF Faithful
  <2> QED BY <1>1, <1>6, <2>1, <2>2, <2>3, <2>4 DEF StillAnnounced
<1> QED
  BY <1>4, <1>5, <1>6

\* While the history is faithful checkpointCurrent only reconciles.
LEMMA CurrentIs ==
    ASSUME RegistryIInv
    PROVE  CurrentCheckpoint = Reconciled
<1>1. TokenOK /\ Faithful(Reconciled.points, Reconciled.pending) /\ Reconciled.points # None
  BY ReconciledIs DEF RegistryIInv
<1>2. tokenTime \in 1..tokenTime /\ applied[tokenTime] = UiMultiplier /\ UiMultiplier # None
  BY <1>1, TokenIs DEF TokenOK
<1>3. ReadAt(Reconciled.points, Reconciled.pending, tokenTime) = UiMultiplier
  BY <1>1, <1>2, FaithfulIsExact
<1> QED
  BY <1>1, <1>2, <1>3 DEF CurrentCheckpoint

\* checkpointPending makes what lies ahead pending.
LEMMA ScheduledIs ==
    ASSUME RegistryIInv
    PROVE  /\ Ahead <=> ScheduledCheckpoint.points # None
           /\ Ahead => /\ ScheduledCheckpoint.pending = token.next
                       /\ Faithful(ScheduledCheckpoint.points, token.next)
<1> DEFINE r == Reconciled
<1>1. TokenOK /\ Faithful(r.points, r.pending) /\ r.points # None
      /\ (r.pending # None => r.pending.at > tokenTime)
  BY ReconciledIs DEF RegistryIInv
<1>2. \E a, b : r = [points |-> a, pending |-> b]
  BY DEF Reconciled
<1> HIDE DEF r
<1>3. CASE Ahead
  <2>1. ScheduledCheckpoint = [r EXCEPT !.pending = token.next]
    BY <1>3 DEF ScheduledCheckpoint, Ahead, r
  <2>2. ScheduledCheckpoint.points = r.points /\ ScheduledCheckpoint.pending = token.next
    BY <1>2, <2>1
  <2>3. Faithful(r.points, token.next)
    BY <1>1, <1>3, ReplacedIs
  <2> QED BY <1>1, <1>3, <2>2, <2>3
<1>4. CASE ~Ahead
  <2>1. ScheduledCheckpoint = [r EXCEPT !.points = None]
    <3>1. Announced => token.next.at \in Nat /\ tokenTime \in Nat
      BY <1>1, TokenIs DEF TokenOK
    <3> QED BY <1>4, <3>1 DEF ScheduledCheckpoint, Ahead, r
  <2> QED BY <1>2, <1>4, <2>1
<1> QED
  BY <1>3, <1>4


\* The token stands still.
LEMMA TokenStands ==
    ASSUME UNCHANGED tokenVars
    PROVE  /\ Ahead' = Ahead /\ UiMultiplier' = UiMultiplier /\ token' = token /\ tokenTime' = tokenTime
           /\ TokenOK => TokenOK'
BY DEF TokenOK, tokenVars, UiMultiplier, UiMultiplierAt, Announced, Ahead

LEMMA FaithfulStands ==
    ASSUME UNCHANGED tokenVars, NEW points, NEW p, Faithful(points, p),
           checkpoints' = points, pendingCheckpoint' = p
    PROVE  Faithful(checkpoints, pendingCheckpoint)'
<1>1. UNCHANGED <<tokenTime, token, applied>> /\ UiMultiplier' = UiMultiplier /\ Ahead' = Ahead
  BY TokenStands DEF tokenVars
<1>2. History(checkpoints)'
  BY <1>1 DEF Faithful, History
<1>3. PendingOK(checkpoints, pendingCheckpoint)'
  BY <1>1 DEF Faithful, PendingOK
<1>4. AnswersOK(checkpoints, pendingCheckpoint)'
  BY <1>1 DEF Faithful, AnswersOK
<1> QED
  BY <1>2, <1>3, <1>4 DEF Faithful

\* A call of the registry, whoever makes it.
LEMMA WritesKeep ==
    ASSUME RegistryIInv, UNCHANGED tokenVars,
           Executes(CurrentCheckpoint) \/ Executes(ScheduledCheckpoint)
    PROVE  /\ TokenOK' /\ Faithful(checkpoints, pendingCheckpoint)'
           /\ Ahead /\ pendingCheckpoint = token.next => pendingCheckpoint' = token.next
           /\ Executes(ScheduledCheckpoint) => pendingCheckpoint' = token.next
<1>1. TokenOK'
  BY TokenStands DEF RegistryIInv
<1>2. CASE Executes(ScheduledCheckpoint)
  <2>1. /\ checkpoints' = ScheduledCheckpoint.points
        /\ pendingCheckpoint' = ScheduledCheckpoint.pending
        /\ Ahead
    BY <1>2, ScheduledIs DEF Executes
  <2>2. pendingCheckpoint' = token.next /\ Faithful(ScheduledCheckpoint.points, token.next)
    BY <2>1, ScheduledIs
  <2>3. Faithful(checkpoints, pendingCheckpoint)'
    BY <2>1, <2>2, FaithfulStands
  <2> QED BY <1>1, <2>2, <2>3
<1>3. CASE Executes(CurrentCheckpoint) /\ ~Executes(ScheduledCheckpoint)
  <2>1. checkpoints' = Reconciled.points /\ pendingCheckpoint' = Reconciled.pending
    BY <1>3, CurrentIs DEF Executes
  <2>2. Faithful(Reconciled.points, Reconciled.pending)
    BY ReconciledIs
  <2>3. Faithful(checkpoints, pendingCheckpoint)'
    BY <2>1, <2>2, FaithfulStands
  <2> QED BY <1>1, <1>3, <2>1, <2>3, ReconciledIs
<1> QED
  BY <1>2, <1>3

\* A pass ends knowing that what lies ahead is pending.
LEMMA PassEndsKeeps ==
    ASSUME HeardOK, PassEnds, UNCHANGED tokenVars,
           heard \in {"yes", "listening"} /\ Ahead => pendingCheckpoint' = token.next
    PROVE  HeardOK'
<1>1. heard' = IF heard = "listening" THEN "yes" ELSE heard
  BY DEF PassEnds
<1>2. Ahead' = Ahead /\ token' = token
  BY TokenStands
<1> QED
  BY <1>1, <1>2 DEF HeardOK

\* A pass goes on.
LEMMA PassGoesOn ==
    ASSUME HeardOK, UNCHANGED tokenVars, UNCHANGED heard,
           Ahead /\ pendingCheckpoint = token.next => pendingCheckpoint' = token.next,
           heard = "listening" => keeper' \in LaterPasses
    PROVE  HeardOK'
<1>1. Ahead' = Ahead /\ token' = token /\ tokenTime' = tokenTime /\ UiMultiplier' = UiMultiplier
  BY TokenStands
<1> QED
  BY <1>1 DEF HeardOK, LaterPasses

LEMMA KeeperKeeps ==
    ASSUME RegistryIInv, KeeperStep
    PROVE  RegistryIInv'
<1>1. TokenOK /\ Faithful(checkpoints, pendingCheckpoint) /\ HeardOK
  BY DEF RegistryIInv
<1>2. UNCHANGED tokenVars
  BY DEF KeeperStep, PassStarts, ReadsNow, Compares, SendsCurrent, ReadsPending, SendsPending
<1>3. TokenOK' /\ UiMultiplier' = UiMultiplier /\ token' = token /\ tokenTime' = tokenTime
  BY <1>1, <1>2, TokenStands
<1>4. UNCHANGED registryVars => Faithful(checkpoints, pendingCheckpoint)'
  BY <1>1, <1>2, FaithfulStands DEF registryVars
<1>5. heard = "listening" /\ keeper.at # "now" => keeper \in LaterPasses
  BY <1>1 DEF HeardOK, FreshPass
<1>6. CASE PassStarts
  <2>1. HeardOK'
    <3>1. keeper' = [at |-> "now", current |-> UiMultiplier] /\ UNCHANGED pendingCheckpoint
          /\ heard' = IF heard = "no" THEN "listening" ELSE heard
      BY <1>6 DEF PassStarts, registryVars
    <3>2. Ahead' = Ahead /\ LaterPasses' = LaterPasses /\ FreshPass' = FreshPass
      BY <1>2, <1>3, TokenStands DEF LaterPasses, FreshPass
    <3>3. keeper' = FreshPass
      BY <3>1 DEF FreshPass
    <3> QED BY <1>1, <1>3, <3>1, <3>2, <3>3 DEF HeardOK
  <2> QED BY <1>3, <1>4, <1>6, <2>1 DEF RegistryIInv, PassStarts
<1>7. CASE ReadsNow
  <2>1. /\ keeper' = [at |-> "compare", current |-> keeper.current, now |-> tokenTime]
        /\ UNCHANGED <<registryVars, heard>>
    BY <1>7 DEF ReadsNow
  <2>2. heard = "listening" => keeper.current = UiMultiplier
    <3>1. keeper \notin LaterPasses
      BY <1>7 DEF ReadsNow, LaterPasses
    <3>2. heard = "listening" => keeper = FreshPass
      BY <1>1, <3>1 DEF HeardOK
    <3> QED BY <3>2 DEF FreshPass
  <2>3. heard = "listening" => keeper' \in LaterPasses
    BY <2>1, <2>2 DEF LaterPasses
  <2>4. HeardOK'
    BY <1>1, <1>2, <2>1, <2>3, PassGoesOn DEF registryVars
  <2> QED BY <1>3, <1>4, <2>1, <2>4 DEF RegistryIInv
<1>8. CASE Compares
  <2>1. keeper.at = "compare" /\ UNCHANGED registryVars
    BY <1>8 DEF Compares
  <2>2. ASSUME heard = "listening" PROVE MultiplierAt(keeper.now) = keeper.current /\ keeper.current # None
    <3>1. keeper.now = tokenTime /\ keeper.current = UiMultiplier
      BY <1>5, <2>1, <2>2 DEF LaterPasses
    <3>2. tokenTime \in 1..tokenTime /\ applied[tokenTime] = UiMultiplier /\ UiMultiplier # None
      BY <1>1, TokenIs DEF TokenOK
    <3>3. MultiplierAt(tokenTime) = UiMultiplier
      BY <1>1, <3>2, FaithfulIsExact DEF MultiplierAt
    <3> QED BY <3>1, <3>2, <3>3
  <2>3. CASE heard = "listening"
    <3>1. keeper' = [keeper EXCEPT !.at = "pending"] /\ UNCHANGED heard
      BY <1>8, <2>2, <2>3 DEF Compares
    <3>2. keeper' \in LaterPasses
      BY <1>5, <2>1, <2>3, <3>1 DEF LaterPasses
    <3>3. HeardOK'
      BY <1>1, <1>2, <2>1, <3>1, <3>2, PassGoesOn DEF registryVars
    <3> QED BY <1>3, <1>4, <2>1, <3>3 DEF RegistryIInv
  <2>4. CASE heard # "listening"
    <3>1. UNCHANGED heard
      BY <1>8, <2>4 DEF Compares, PassEnds
    <3>2. HeardOK'
      BY <1>1, <1>2, <2>1, <2>4, <3>1, PassGoesOn DEF registryVars
    <3> QED BY <1>3, <1>4, <2>1, <3>2 DEF RegistryIInv
  <2> QED BY <2>3, <2>4
<1>9. CASE SendsCurrent
  <2>1. keeper.at = "send current" /\ heard # "listening"
    <3>1. keeper.at = "send current"
      BY <1>9 DEF SendsCurrent
    <3> QED BY <1>5, <3>1 DEF LaterPasses
  <2>2. Executes(CurrentCheckpoint) \/ UNCHANGED registryVars
    BY <1>9 DEF SendsCurrent, Sends
  <2>3. UNCHANGED heard
    BY <1>9, <2>1 DEF SendsCurrent, Sends, PassEnds
  <2>4. /\ Faithful(checkpoints, pendingCheckpoint)'
        /\ Ahead /\ pendingCheckpoint = token.next => pendingCheckpoint' = token.next
    BY <1>2, <1>4, <2>2, WritesKeep DEF registryVars
  <2>5. HeardOK'
    BY <1>1, <1>2, <2>1, <2>3, <2>4, PassGoesOn
  <2> QED BY <1>3, <2>4, <2>5 DEF RegistryIInv
<1>10. CASE ReadsPending
  <2>1. keeper.at = "pending" /\ UNCHANGED registryVars
    BY <1>10 DEF ReadsPending
  <2> DEFINE known == ToSet(checkpoints) \cup {pendingCheckpoint}
             Missing == Announced /\ token.next.at > keeper.now /\ token.next \notin known
  <2>2. CASE Missing
    <3>1. keeper' = [keeper EXCEPT !.at = "send pending"] /\ UNCHANGED heard
      BY <1>10, <2>2 DEF ReadsPending
    <3>2. heard = "listening" => keeper' \in LaterPasses
      BY <1>5, <2>1, <3>1 DEF LaterPasses
    <3>3. HeardOK'
      BY <1>1, <1>2, <2>1, <3>1, <3>2, PassGoesOn DEF registryVars
    <3> QED BY <1>3, <1>4, <2>1, <3>3 DEF RegistryIInv
  <2>3. CASE ~Missing
    <3>1. PassEnds
      BY <1>10, <2>3 DEF ReadsPending
    <3>2. ASSUME heard = "listening", Ahead PROVE pendingCheckpoint = token.next
      <4>1. keeper.now = tokenTime
        BY <1>5, <2>1, <3>2 DEF LaterPasses
      <4>2. token.next \in known
        BY <2>3, <3>2, <4>1 DEF Ahead
      <4>3. token.next \notin ToSet(checkpoints)
        <5>1. token.next.at \in Nat /\ token.next.at > tokenTime /\ tokenTime \in Nat
          BY <1>1, <3>2, TokenIs DEF Ahead, TokenOK
        <5>2. \A i \in DOMAIN checkpoints : checkpoints[i].at \in Nat /\ checkpoints[i].at <= tokenTime
          BY <1>1, HistoryIs DEF Faithful, History
        <5>3. \A i \in DOMAIN checkpoints : checkpoints[i] # token.next
          BY <5>1, <5>2
        <5> QED BY <5>3 DEF ToSet
      <4> QED BY <4>2, <4>3
    <3>3. HeardOK'
      <4>1. heard \in {"yes", "listening"} /\ Ahead => pendingCheckpoint' = token.next
        BY <1>1, <2>1, <3>2 DEF HeardOK, registryVars
      <4> QED BY <1>1, <1>2, <3>1, <4>1, PassEndsKeeps
    <3> QED BY <1>3, <1>4, <2>1, <3>3 DEF RegistryIInv
  <2> QED BY <2>2, <2>3
<1>11. CASE SendsPending
  <2>1. PassEnds
    BY <1>11 DEF SendsPending, Sends
  <2>2. \/ Executes(ScheduledCheckpoint)
        \/ ScheduledCheckpoint.points = None /\ UNCHANGED registryVars
    BY <1>11 DEF SendsPending, Sends
  <2>3. Faithful(checkpoints, pendingCheckpoint)'
    BY <1>2, <1>4, <2>2, WritesKeep
  <2>4. Ahead => pendingCheckpoint' = token.next
    BY <1>2, <2>2, WritesKeep, ScheduledIs
  <2>5. HeardOK'
    BY <1>1, <1>2, <2>1, <2>4, PassEndsKeeps
  <2> QED BY <1>3, <2>3, <2>5 DEF RegistryIInv
<1> QED
  BY <1>6, <1>7, <1>8, <1>9, <1>10, <1>11 DEF KeeperStep

\* Anybody's calls.
LEMMA CallsKeep ==
    ASSUME RegistryIInv, CheckpointCurrent \/ CheckpointPending
    PROVE  RegistryIInv'
<1>1. /\ UNCHANGED <<tokenVars, keeper, heard>>
      /\ Executes(CurrentCheckpoint) \/ Executes(ScheduledCheckpoint)
  BY DEF CheckpointCurrent, CheckpointPending
<1>2. /\ TokenOK' /\ Faithful(checkpoints, pendingCheckpoint)'
      /\ Ahead /\ pendingCheckpoint = token.next => pendingCheckpoint' = token.next
  BY <1>1, WritesKeep
<1>3. Ahead' = Ahead /\ token' = token /\ tokenTime' = tokenTime /\ UiMultiplier' = UiMultiplier
  BY <1>1, TokenStands
<1>4. HeardOK'
  BY <1>1, <1>2, <1>3 DEF RegistryIInv, HeardOK, LaterPasses, FreshPass
<1> QED
  BY <1>2, <1>4 DEF RegistryIInv

-----------------------------------------------------------------------------
(* The multiplier registry: the token and the clock. *)

\* The token's multiplier now stays what it is when only the schedule changes.
LEMMA ScheduleKeeps ==
    ASSUME RegistryIInv, UNCHANGED <<tokenTime, applied, registryVars, keeper>>,
           heard' = "no", UiMultiplier' = UiMultiplier,
           token' \in [before : Multipliers, next : {None} \cup Announcements],
           pendingCheckpoint # None /\ pendingCheckpoint.at > tokenTime => Ahead'
    PROVE  RegistryIInv'
<1>1. TokenOK'
  BY DEF RegistryIInv, TokenOK
<1>2. History(checkpoints)'
  BY DEF RegistryIInv, Faithful, History, registryVars
<1>3. PendingOK(checkpoints, pendingCheckpoint)'
  BY DEF RegistryIInv, Faithful, PendingOK, registryVars
<1>4. AnswersOK(checkpoints, pendingCheckpoint)'
  BY DEF RegistryIInv, Faithful, AnswersOK, registryVars
<1>5. HeardOK'
  BY DEF HeardOK
<1> QED
  BY <1>1, <1>2, <1>3, <1>4, <1>5 DEF RegistryIInv, Faithful

LEMMA AnnounceKeeps ==
    ASSUME RegistryIInv, NEW m \in Multipliers, NEW when \in 1..MaxTokenTime + 1, Announce(m, when)
    PROVE  RegistryIInv'
<1> DEFINE n == [multiplier |-> m, at |-> when]
<1>1. TokenOK /\ tokenTime \in Nat /\ when \in Nat /\ when > tokenTime
  BY MultiplierAssumption DEF RegistryIInv, TokenOK, Announce
<1>2. /\ token' = [before |-> UiMultiplier, next |-> n]
      /\ UNCHANGED <<tokenTime, applied, registryVars, keeper>> /\ heard' = "no"
  BY DEF Announce, Hears
<1>3. n \in Announcements /\ n # None /\ n.at = when
  BY <1>1, MultiplierAssumption DEF Announcements
<1> HIDE DEF n
<1>4. UiMultiplier \in Multipliers
  BY <1>1, TokenIs
<1>5. token'.next = n /\ token'.before = UiMultiplier
  BY <1>2
<1>6. Ahead'
  BY <1>1, <1>2, <1>3, <1>5 DEF Ahead, Announced
<1>7. UiMultiplier' = UiMultiplier
  BY <1>1, <1>2, <1>3, <1>5 DEF UiMultiplier, UiMultiplierAt
<1>8. token' \in [before : Multipliers, next : {None} \cup Announcements]
  BY <1>2, <1>3, <1>4
<1> QED
  BY <1>2, <1>6, <1>7, <1>8, ScheduleKeeps

LEMMA ClearKeeps ==
    ASSUME RegistryIInv, ClearAnnouncement
    PROVE  RegistryIInv'
<1>1. TokenOK /\ tokenTime \in Nat /\ Announced /\ tokenTime >= token.next.at
  BY DEF RegistryIInv, TokenOK, ClearAnnouncement
<1>2. /\ token' = [before |-> UiMultiplier, next |-> None]
      /\ UNCHANGED <<tokenTime, applied, registryVars, keeper>> /\ heard' = "no"
  BY DEF ClearAnnouncement, Hears
<1>3. UiMultiplier \in Multipliers
  BY <1>1, TokenIs
<1>4. token'.next = None /\ token'.before = UiMultiplier
  BY <1>2
<1>5. UiMultiplier' = UiMultiplier
  BY <1>4 DEF UiMultiplier, UiMultiplierAt, Announced
<1>6. ~Ahead
  <2>1. token.next.at \in Nat
    BY <1>1, TokenIs
  <2> QED BY <1>1, <2>1 DEF Ahead
<1>7. ~(pendingCheckpoint # None /\ pendingCheckpoint.at > tokenTime)
  BY <1>6 DEF RegistryIInv, Faithful, PendingOK
<1>8. token' \in [before : Multipliers, next : {None} \cup Announcements]
  BY <1>2, <1>3
<1> QED
  BY <1>2, <1>5, <1>7, <1>8, ScheduleKeeps

\* The clock moves when a pass has followed the last change: a multiplier that
\* takes effect now is pending.
LEMMA TokenTickKeeps ==
    ASSUME RegistryIInv, TokenTick
    PROVE  RegistryIInv'
<1> DEFINE p == pendingCheckpoint
           N == token.next
<1>1. /\ TokenOK /\ Faithful(checkpoints, p) /\ HeardOK
      /\ tokenTime' = tokenTime + 1 /\ UNCHANGED <<token, checkpoints, pendingCheckpoint>>
      /\ applied' = Append(applied, UiMultiplierAt(tokenTime + 1))
      /\ heard' = "no"
      /\ Ahead => p = N
  BY DEF RegistryIInv, TokenTick, Hears, HeardOK, registryVars
<1>2. tokenTime \in Nat \ {0} /\ applied \in Seq(Multipliers) /\ Len(applied) = tokenTime
      /\ applied[tokenTime] = UiMultiplier
  BY <1>1 DEF TokenOK
<1>3. /\ Announced => N.at \in Nat /\ N \in Announcements
      /\ p # None => p.at \in Nat /\ p.multiplier \in Multipliers
      /\ token.before \in Multipliers
  BY <1>1, TokenIs, PendingIs DEF TokenOK
<1>4. UiMultiplier' = UiMultiplierAt(tokenTime + 1)
  BY <1>1 DEF UiMultiplier, UiMultiplierAt, Announced
<1>5. UiMultiplierAt(tokenTime + 1) \in Multipliers
  BY <1>3 DEF UiMultiplierAt, Announcements
<1>6. /\ applied' \in Seq(Multipliers) /\ Len(applied') = tokenTime + 1
      /\ \A t \in 1..tokenTime : applied'[t] = applied[t]
      /\ applied'[tokenTime + 1] = UiMultiplierAt(tokenTime + 1)
  BY <1>1, <1>2, <1>5
<1>7. TokenOK'
  BY <1>1, <1>2, <1>4, <1>6 DEF TokenOK
<1>8. History(checkpoints)'
  <2>1. \A i \in DOMAIN checkpoints : checkpoints[i].at \in Nat
    BY <1>1, HistoryIs DEF Faithful
  <2> QED BY <1>1, <1>2, <2>1 DEF Faithful, History
\* Unless the announcement takes effect now the multiplier stays.
<1>9. ~(Announced /\ N.at = tokenTime + 1) => UiMultiplierAt(tokenTime + 1) = UiMultiplier
  BY <1>2, <1>3 DEF UiMultiplier, UiMultiplierAt
<1>10. Announced /\ N.at = tokenTime + 1 => p = N /\ p # None /\ UiMultiplierAt(tokenTime + 1) = p.multiplier
  BY <1>1, <1>2, <1>3 DEF Ahead, UiMultiplierAt, Announced
<1>11. PendingOK(checkpoints, pendingCheckpoint)'
  <2> SUFFICES ASSUME p # None
               PROVE  /\ p \in Announcements
                      /\ \A i \in DOMAIN checkpoints : checkpoints[i].at < p.at
                      /\ p.at <= tokenTime + 1 =>
                            /\ UiMultiplierAt(tokenTime + 1) = p.multiplier
                            /\ \A t \in p.at..tokenTime + 1 : applied'[t] = p.multiplier
                      /\ p.at > tokenTime + 1 => Ahead'
    BY <1>1, <1>4 DEF PendingOK
  <2>1. p \in Announcements /\ \A i \in DOMAIN checkpoints : checkpoints[i].at < p.at
    BY <1>1 DEF Faithful, PendingOK
  <2>2. CASE p.at <= tokenTime
    <3>1. UiMultiplier = p.multiplier /\ \A t \in p.at..tokenTime : applied[t] = p.multiplier
      BY <1>1, <2>2 DEF Faithful, PendingOK
    <3>2. UiMultiplierAt(tokenTime + 1) = p.multiplier
      BY <1>9, <1>10, <3>1
    <3>3. ASSUME NEW t \in p.at..tokenTime + 1 PROVE applied'[t] = p.multiplier
      <4>1. p.at \in Nat /\ p.at > 0
        <5>1. checkpoints[1].at = 0 /\ 1 \in DOMAIN checkpoints
          <6>1. checkpoints[1].at = 0 /\ \E k \in Nat : k > 0 /\ DOMAIN checkpoints = 1..k
            BY <1>1, HistoryIs DEF Faithful, History
          <6> QED BY <6>1
        <5> QED BY <1>3, <2>1, <5>1
      <4>2. CASE t = tokenTime + 1
        BY <1>6, <3>2, <4>2
      <4>3. CASE t # tokenTime + 1
        <5>1. t \in p.at..tokenTime /\ t \in 1..tokenTime
          BY <1>2, <4>1, <4>3
        <5> QED BY <1>6, <3>1, <5>1
      <4> QED BY <4>2, <4>3
    <3> QED BY <1>2, <1>3, <2>1, <2>2, <3>2, <3>3
  <2>3. CASE p.at > tokenTime
    <3>1. Ahead /\ p = N
      BY <1>1, <2>3 DEF Faithful, PendingOK
    <3>2. CASE p.at = tokenTime + 1
      <4>1. UiMultiplierAt(tokenTime + 1) = p.multiplier
        BY <1>10, <3>1, <3>2 DEF Ahead
      <4>2. \A t \in p.at..tokenTime + 1 : t = tokenTime + 1
        BY <1>2, <3>2
      <4> QED BY <1>2, <1>6, <2>1, <3>2, <4>1, <4>2
    <3>3. CASE p.at # tokenTime + 1
      <4>1. p.at > tokenTime + 1
        BY <1>2, <1>3, <2>3, <3>3
      <4>2. Ahead'
        BY <1>1, <3>1, <4>1 DEF Ahead, Announced
      <4> QED BY <1>2, <1>3, <2>1, <4>1, <4>2
    <3> QED BY <3>2, <3>3
  <2> QED BY <1>2, <1>3, <2>2, <2>3
<1>12. AnswersOK(checkpoints, pendingCheckpoint)'
  <2> SUFFICES ASSUME NEW t \in 1..tokenTime + 1, p # None => t < p.at
               PROVE  Newest(checkpoints, t) = applied'[t]
    BY <1>1 DEF AnswersOK
  <2>1. CASE t # tokenTime + 1
    <3>1. t \in 1..tokenTime
      BY <1>2, <2>1
    <3> QED BY <1>1, <1>6, <3>1 DEF Faithful, AnswersOK
  <2>2. CASE t = tokenTime + 1
    <3>1. UiMultiplierAt(tokenTime + 1) = UiMultiplier
      BY <1>2, <1>9, <1>10, <2>2
    <3>2. Newest(checkpoints, tokenTime) = applied[tokenTime]
      <4>1. p # None => tokenTime < p.at
        BY <1>2, <1>3, <2>2
      <4>2. tokenTime \in 1..tokenTime
        BY <1>2
      <4> QED BY <1>1, <4>1, <4>2 DEF Faithful, AnswersOK
    <3>3. PICK k \in Nat : k > 0 /\ DOMAIN checkpoints = 1..k
      BY <1>1, HistoryIs DEF Faithful
    <3>4. \A i \in DOMAIN checkpoints : checkpoints[i].at <= tokenTime /\ checkpoints[i].at <= tokenTime + 1
      <4>1. \A i \in DOMAIN checkpoints : checkpoints[i].at \in Nat /\ checkpoints[i].at <= tokenTime
        BY <1>1, HistoryIs DEF Faithful, History
      <4> QED BY <1>2, <4>1
    <3>5. DOMAIN checkpoints \subseteq Nat /\ k \in DOMAIN checkpoints /\ \A j \in DOMAIN checkpoints : j <= k
      BY <3>3
    <3>6. Newest(checkpoints, tokenTime) = checkpoints[k].multiplier
      BY <3>4, <3>5, NewestIs
    <3>7. Newest(checkpoints, tokenTime + 1) = checkpoints[k].multiplier
      BY <3>4, <3>5, NewestIs
    <3> QED BY <1>2, <1>6, <2>2, <3>1, <3>2, <3>6, <3>7
  <2> QED BY <2>1, <2>2
<1>13. HeardOK'
  BY <1>1 DEF HeardOK
<1> QED
  BY <1>7, <1>8, <1>11, <1>12, <1>13 DEF RegistryIInv, Faithful

LEMMA RegistryInitial == MultiplierInit => RegistryIInv
<1> SUFFICES ASSUME MultiplierInit PROVE RegistryIInv
  OBVIOUS
<1>1. PICK m \in Multipliers :
          /\ token = [before |-> m, next |-> None]
          /\ applied = <<m>>
          /\ checkpoints = <<[at |-> 0, multiplier |-> m]>>
  BY DEF MultiplierInit
<1>2. tokenTime = 1 /\ pendingCheckpoint = None /\ heard = "no"
  BY DEF MultiplierInit
<1>3. UiMultiplier = m
  BY <1>1 DEF UiMultiplier, UiMultiplierAt, Announced
<1>4. TokenOK
  BY <1>1, <1>2, <1>3 DEF TokenOK
<1> DEFINE first == [at |-> 0, multiplier |-> m]
<1>5. first \in Points /\ first.at = 0 /\ first.multiplier = m
  BY DEF Points
<1> HIDE DEF first
<1>6. checkpoints = <<first>>
  BY <1>1 DEF first
<1>7. checkpoints \in Seq(Points) /\ Len(checkpoints) = 1 /\ DOMAIN checkpoints = {1} /\ checkpoints[1] = first
  BY <1>5, <1>6
<1>8. History(checkpoints)
  BY <1>2, <1>5, <1>7 DEF History
<1>9. AnswersOK(checkpoints, pendingCheckpoint)
  <2>1. Newest(checkpoints, 1) = m
    <3>1. DOMAIN checkpoints \subseteq Nat /\ 1 \in DOMAIN checkpoints /\ checkpoints[1].at <= 1
      BY <1>5, <1>7
    <3>2. \A j \in DOMAIN checkpoints : checkpoints[j].at <= 1 => j <= 1
      BY <1>7
    <3>3. Newest(checkpoints, 1) = checkpoints[1].multiplier
      BY <3>1, <3>2, NewestIs
    <3> QED BY <1>5, <1>7, <3>3
  <2>2. 1..tokenTime = {1} /\ applied[1] = m
    BY <1>1, <1>2
  <2> QED BY <2>1, <2>2 DEF AnswersOK
<1>10. PendingOK(checkpoints, pendingCheckpoint) /\ HeardOK
  BY <1>2 DEF PendingOK, HeardOK
<1> QED
  BY <1>4, <1>8, <1>9, <1>10 DEF RegistryIInv, Faithful

LEMMA RegistryInductive == RegistryIInv /\ [MultiplierNext]_multiplierVars => RegistryIInv'
<1> SUFFICES ASSUME RegistryIInv, [MultiplierNext]_multiplierVars PROVE RegistryIInv'
  OBVIOUS
<1>1. CASE \E m \in Multipliers, when \in 1..MaxTokenTime + 1 : Announce(m, when)
  BY <1>1, AnnounceKeeps
<1>2. CASE ClearAnnouncement \/ TokenTick
  BY <1>2, ClearKeeps, TokenTickKeeps
<1>3. CASE CheckpointCurrent \/ CheckpointPending
  BY <1>3, CallsKeep
<1>4. CASE KeeperStep
  BY <1>4, KeeperKeeps
<1>5. CASE UNCHANGED multiplierVars
  <2>1. UNCHANGED <<tokenVars, checkpoints, pendingCheckpoint, keeper, heard>>
    BY <1>5 DEF multiplierVars, registryVars
  <2>2. TokenOK' /\ Faithful(checkpoints, pendingCheckpoint)'
    BY <2>1, TokenStands, FaithfulStands DEF RegistryIInv
  <2>3. HeardOK'
    <3>1. Ahead' = Ahead /\ token' = token /\ tokenTime' = tokenTime /\ UiMultiplier' = UiMultiplier
      BY <2>1, TokenStands
    <3>2. LaterPasses' = LaterPasses /\ FreshPass' = FreshPass
      BY <3>1 DEF LaterPasses, FreshPass
    <3> QED BY <2>1, <3>1, <3>2 DEF RegistryIInv, HeardOK
  <2> QED BY <2>2, <2>3 DEF RegistryIInv
<1> QED
  BY <1>1, <1>2, <1>3, <1>4, <1>5 DEF MultiplierNext

\* The registry keeps its invariant: below the pending checkpoint its history is
\* what the token applied, from it on the pending checkpoint is, and after a
\* whole pass whatever lies ahead is pending (MultiplierCheckpointRegistry.sol).
THEOREM RegistryInvariant == MultiplierSpec => []RegistryIInv
BY RegistryInitial, RegistryInductive, PTL DEF MultiplierSpec

\* What the history answers for any time so far is what the token applied, for
\* any multipliers, announcements, callers and length of time (multiplierAt).
THEOREM HistoriesAreExact == MultiplierSpec => []HistoryExact
<1>1. RegistryIInv => HistoryExact
  BY FaithfulIsExact DEF RegistryIInv, HistoryExact, MultiplierAt
<1> QED
  BY <1>1, RegistryInvariant, PTL

-----------------------------------------------------------------------------
(* The settlement integral: arithmetic. *)

\* A positive factor on both sides of a comparison.
LEMMA Cancels ==
    ASSUME NEW d \in Nat \ {0}, NEW a \in Int, NEW b \in Int
    PROVE  /\ d * a < d * b => a < b
           /\ d * a <= d * b => a <= b
           /\ a < b => d * a < d * b
           /\ a <= b => d * a <= d * b
OBVIOUS

\* Division rounds down, and is exact for a multiple.
LEMMA DivIs ==
    ASSUME NEW n \in Int, NEW d \in Nat \ {0}
    PROVE  /\ n \div d \in Int
           /\ d * (n \div d) <= n /\ n < d * (n \div d) + d
           /\ n >= 0 => n \div d >= 0
OBVIOUS

LEMMA ExactDiv ==
    ASSUME NEW k \in Int, NEW d \in Nat \ {0}
    PROVE  (d * k) \div d = k
<1> DEFINE q == (d * k) \div d
<1>1. q \in Int /\ d * q <= d * k /\ d * k < d * q + d
  BY DivIs
<1> HIDE DEF q
<1>2. d * q + d = d * (q + 1)
  BY <1>1
<1>3. q <= k /\ k < q + 1
  BY <1>1, <1>2, Cancels
<1> QED
  BY <1>1, <1>3 DEF q

\* Quotient rounds towards zero.
LEMMA QuotientIs ==
    ASSUME NEW n \in Int, NEW d \in Nat \ {0}
    PROVE  /\ Quotient(n, d) \in Int
           /\ n - d < d * Quotient(n, d) /\ d * Quotient(n, d) < n + d
           /\ n >= 0 => Quotient(n, d) >= 0
           /\ n < 0 => d * Quotient(n, d) >= n
<1>1. CASE n >= 0
  <2>1. PICK q \in Int : q = n \div d /\ d * q <= n /\ n < d * q + d /\ q >= 0
    BY <1>1, DivIs
  <2>2. Quotient(n, d) = q
    BY <1>1, <2>1 DEF Quotient
  <2> QED
    BY <1>1, <2>1, <2>2
<1>2. CASE n < 0
  <2>1. PICK q \in Int : q = (-n) \div d /\ d * q <= -n /\ -n < d * q + d
    BY DivIs
  <2>2. Quotient(n, d) = -q
    BY <1>2, <2>1 DEF Quotient
  <2>3. d * (-q) = -(d * q)
    OBVIOUS
  <2> QED
    BY <1>2, <2>1, <2>2, <2>3
<1> QED
  BY <1>1, <1>2

\* A trapezoid, doubled, loses less than one.
LEMMA TrapezoidIs ==
    ASSUME NEW l \in Nat, NEW r \in Nat, NEW e \in Nat
    PROVE  /\ Trapezoid(l, r, e) \in Nat
           /\ 2 * Trapezoid(l, r, e) <= (l + r) * e
           /\ 2 * Trapezoid(l, r, e) >= (l + r) * e - 1
           /\ e = 0 => Trapezoid(l, r, e) = 0
           /\ l > 0 /\ r > 0 /\ e > 0 => Trapezoid(l, r, e) >= 1
<1>1. PICK n \in Nat : n = (l + r) * e
  OBVIOUS
<1>2. PICK q \in Int : q = n \div 2 /\ 2 * q <= n /\ n < 2 * q + 2 /\ q >= 0
  BY <1>1, DivIs
<1>3. e = 0 => n = 0
  BY <1>1
<1>4. l > 0 /\ r > 0 /\ e > 0 => n >= 2
  <2> SUFFICES ASSUME l > 0, r > 0, e > 0 PROVE n >= 2
    OBVIOUS
  <2>1. (l + r) * 1 <= (l + r) * e
    BY Cancels
  <2> QED
    BY <1>1, <2>1
<1> QED
  BY <1>1, <1>2, <1>3, <1>4 DEF Trapezoid

\* The interpolated price, times the distance, is off by less than it, and lies
\* between the two prices.
LEMMA InterpolateIs ==
    ASSUME NEW pa \in Nat \ {0}, NEW pb \in Nat \ {0}, NEW ta \in Nat, NEW tb \in Nat,
           ta < WindowStart, WindowStart <= tb, WindowStart \in Nat
    PROVE  LET d == tb - ta
               n == (pb - pa) * (WindowStart - ta)
               x == Interpolate(ta, pa, tb, pb, WindowStart)
           IN  /\ x \in Nat \ {0}
               /\ pa * d + n - d < d * x /\ d * x < pa * d + n + d
<1> DEFINE d == tb - ta
           k == WindowStart - ta
           n == (pb - pa) * k
           q == Quotient(n, d)
           x == Interpolate(ta, pa, tb, pb, WindowStart)
<1>1. /\ d \in Nat \ {0} /\ k \in Nat \ {0} /\ k <= d /\ n \in Int /\ x = pa + q
  BY DEF Interpolate
<1>2. /\ q \in Int /\ n - d < d * q /\ d * q < n + d
      /\ n >= 0 => q >= 0
      /\ n < 0 => d * q >= n
  BY <1>1, QuotientIs
<1>3. d * x = pa * d + d * q
  BY <1>1, <1>2
<1>4. x >= 1
  <2>1. CASE n >= 0
    BY <1>1, <1>2, <2>1
  <2>2. CASE n < 0
    <3>1. pb < pa
      <4> SUFFICES ASSUME pb >= pa PROVE FALSE
        OBVIOUS
      <4>1. pb - pa \in Nat
        OBVIOUS
      <4> QED
        BY <1>1, <2>2, <4>1
    <3>2. PICK c \in Nat : c = pa - pb
      BY <3>1
    <3>3. n = -(c * k) /\ c * k <= c * d
      <4>1. c * k <= c * d
        BY <1>1, <3>2
      <4> QED
        BY <3>2, <4>1
    <3>4. d * (-c) <= d * q
      <4>1. d * (-c) = -(c * d)
        BY <1>1
      <4> QED
        BY <1>1, <1>2, <2>2, <3>3, <4>1
    <3>5. -c <= q
      BY <1>1, <1>2, <3>4, Cancels
    <3> QED
      BY <1>1, <1>2, <3>2, <3>5
  <2> QED
    BY <1>1, <2>1, <2>2
<1> QED
  BY <1>1, <1>2, <1>3, <1>4

\* Inside the window a trapezoid is the area, but for a half.
LEMMA InsideDrift ==
    ASSUME NEW a \in Nat \X Nat, NEW b \in Nat \X Nat, NEW m \in Nat,
           WindowStart <= a[1], a[1] < b[1], WindowStart \in Nat
    PROVE  LET area == (AreaBetween(a, b) * m) \div (b[1] - a[1])
               twice == 2 * Trapezoid(a[2], b[2], b[1] - a[1]) * m
           IN  area \in Int /\ twice <= area /\ area <= twice + m
<1> DEFINE d == b[1] - a[1]
           area == (AreaBetween(a, b) * m) \div d
           trap == Trapezoid(a[2], b[2], d)
<1>1. d \in Nat \ {0} /\ a[2] \in Nat /\ b[2] \in Nat
  OBVIOUS
<1>2. AreaBetween(a, b) = (a[2] + b[2]) * d * d
  BY <1>1 DEF AreaBetween
<1>3. PICK s \in Nat : s = (a[2] + b[2]) * d
  BY <1>1
<1>4. area = s * m
  <2>1. AreaBetween(a, b) * m = d * (s * m)
    BY <1>1, <1>2, <1>3
  <2>2. (d * (s * m)) \div d = s * m
    BY <1>1, <1>3, ExactDiv
  <2> QED
    BY <2>1, <2>2
<1>5. PICK t \in Nat : t = trap /\ 2 * t <= s /\ 2 * t >= s - 1
  BY <1>1, <1>3, TrapezoidIs
<1>6. 2 * t * m <= s * m /\ s * m <= 2 * t * m + m
  <2>1. 2 * t * m <= s * m
    BY <1>5
  <2>2. s * m <= (2 * t + 1) * m
    BY <1>5
  <2> QED
    BY <2>1, <2>2
<1> QED
  BY <1>4, <1>5, <1>6

\* The area of the interval in which the window starts: the price there is
\* rounded once, and counts for no more than the window.
LEMMA StraddleDrift ==
    ASSUME NEW a \in Nat \X (Nat \ {0}), NEW b \in Nat \X (Nat \ {0}), NEW m \in Nat \ {0},
           a[1] < WindowStart, WindowStart < b[1], WindowStart \in Nat,
           b[1] - WindowStart <= Duration, Duration \in Nat
    PROVE  LET area == (AreaBetween(a, b) * m) \div (b[1] - a[1])
               trap == Trapezoid(Interpolate(a[1], a[2], b[1], b[2], WindowStart), b[2],
                                 b[1] - WindowStart)
               twice == 2 * trap * m
           IN  /\ area \in Int /\ trap \in Nat \ {0}
               /\ area - (Duration + 1) * m <= twice /\ twice <= area + (Duration + 1) * m
<1> DEFINE d == b[1] - a[1]
           e == b[1] - WindowStart
           y == a[2] * d + (b[2] - a[2]) * (WindowStart - a[1])
           z == (y + b[2] * d) * e
           x == Interpolate(a[1], a[2], b[1], b[2], WindowStart)
           trap == Trapezoid(x, b[2], e)
           area == (AreaBetween(a, b) * m) \div d
<1>1. /\ a[1] \in Nat /\ a[2] \in Nat \ {0} /\ b[1] \in Nat /\ b[2] \in Nat \ {0}
      /\ d \in Nat \ {0} /\ e \in Nat \ {0} /\ e <= Duration
  OBVIOUS
<1>2. y \in Int /\ z \in Int /\ AreaBetween(a, b) = z
  <2>1. y \in Int
    BY <1>1
  <2>2. AreaBetween(a, b) = z
    BY <1>1 DEF AreaBetween
  <2> QED
    BY <1>1, <2>1, <2>2
<1>3. x \in Nat \ {0} /\ y - d < d * x /\ d * x < y + d
  <2> HIDE DEF z, trap, area
  <2>1. PICK ta \in Nat, pa \in Nat \ {0}, tb \in Nat, pb \in Nat \ {0} :
           ta = a[1] /\ pa = a[2] /\ tb = b[1] /\ pb = b[2]
    BY <1>1
  <2>2. ta < WindowStart /\ WindowStart <= tb
    BY <1>1, <2>1
  <2>3. LET u == tb - ta
            v == (pb - pa) * (WindowStart - ta)
            w == Interpolate(ta, pa, tb, pb, WindowStart)
        IN  w \in Nat \ {0} /\ pa * u + v - u < u * w /\ u * w < pa * u + v + u
    BY <2>1, <2>2, InterpolateIs, Zenon
  <2>4. /\ d = tb - ta /\ x = Interpolate(ta, pa, tb, pb, WindowStart)
        /\ y = pa * (tb - ta) + (pb - pa) * (WindowStart - ta)
    BY <2>1
  <2> HIDE DEF d, x, y
  <2> QED
    BY <2>3, <2>4
<1> HIDE DEF d, e, y, x
<1>4. PICK p \in Nat : p = (x + b[2]) * e
  BY <1>1, <1>3
<1>5. trap \in Nat \ {0} /\ 2 * trap <= p /\ 2 * trap >= p - 1
  <2>1. PICK r \in Nat : r = b[2] /\ x \in Nat /\ e \in Nat /\ x > 0 /\ r > 0 /\ e > 0
    BY <1>1, <1>3
  <2>2. /\ Trapezoid(x, r, e) \in Nat
        /\ 2 * Trapezoid(x, r, e) <= (x + r) * e
        /\ 2 * Trapezoid(x, r, e) >= (x + r) * e - 1
        /\ Trapezoid(x, r, e) >= 1
    BY <2>1, TrapezoidIs
  <2> QED
    BY <1>4, <2>1, <2>2
<1>6. area \in Int /\ d * area <= z * m /\ z * m < d * area + d
  <2>1. PICK n \in Int : n = z * m /\ area = n \div d
    BY <1>2
  <2> HIDE DEF area, z
  <2> QED
    BY <1>1, <2>1, DivIs
<1> HIDE DEF trap, area
<1>7. z - d * e <= d * p /\ d * p <= z + d * e
  <2>1. d * p = e * (d * x + b[2] * d)
    BY <1>1, <1>3, <1>4
  <2>2. /\ z - d * e = e * (y - d + b[2] * d)
        /\ z + d * e = e * (y + d + b[2] * d)
    BY <1>1, <1>2
  <2>3. PICK u \in Int, v \in Int : u = d * x /\ v = b[2] * d
    BY <1>1, <1>3
  <2>4. /\ e * (y - d + v) <= e * (u + v)
        /\ e * (u + v) <= e * (y + d + v)
    <3>1. y - d + v <= u + v /\ u + v <= y + d + v
      BY <1>1, <1>2, <1>3, <2>3
    <3> QED
      BY <1>1, <1>2, <2>3, <3>1, Cancels
  <2> QED
    BY <2>1, <2>2, <2>3, <2>4
<1> HIDE DEF z
<1>8. /\ z * m - d * (e * m) <= d * (p * m)
      /\ d * (p * m) <= z * m + d * (e * m)
  <2>1. /\ d * (p * m) = m * (d * p)
        /\ z * m - d * (e * m) = m * (z - d * e)
        /\ z * m + d * (e * m) = m * (z + d * e)
    BY <1>1, <1>2, <1>4
  <2>2. PICK u \in Int, v \in Int : u = d * p /\ v = d * e
    BY <1>1, <1>4
  <2>3. m * (z - v) <= m * u /\ m * u <= m * (z + v)
    BY <1>2, <1>7, <2>2, Cancels
  <2> QED
    BY <2>1, <2>2, <2>3
<1>9. PICK pm \in Int, em \in Int, zm \in Int, twice \in Int :
         pm = p * m /\ em = e * m /\ zm = z * m /\ twice = 2 * trap * m
  BY <1>1, <1>2, <1>4, <1>5
<1>10. pm - m <= twice /\ twice <= pm /\ em <= Duration * m
  <2>1. m * (p - 1) <= m * (2 * trap) /\ m * (2 * trap) <= m * p /\ m * e <= m * Duration
    BY <1>1, <1>4, <1>5, Cancels
  <2>2. m * (p - 1) = pm - m /\ m * (2 * trap) = twice /\ m * p = pm /\ m * e = em
    BY <1>1, <1>4, <1>5, <1>9
  <2> QED
    BY <2>1, <2>2
<1>11. twice <= area + 1 + em
  <2>1. d * pm < d * (area + 1 + em)
    <3>1. d * (area + 1 + em) = d * area + d + d * em
      BY <1>1, <1>6, <1>9
    <3>2. d * pm <= zm + d * em
      BY <1>8, <1>9
    <3>3. zm < d * area + d
      BY <1>6, <1>9
    <3>4. d * pm \in Int /\ d * em \in Int /\ d * area \in Int
      BY <1>1, <1>6, <1>9
    <3> QED
      BY <1>1, <1>9, <3>1, <3>2, <3>3, <3>4
  <2>2. pm < area + 1 + em
    BY <1>1, <1>6, <1>9, <2>1, Cancels
  <2> QED
    BY <1>6, <1>9, <1>10, <2>2
<1>12. area - em - m <= twice
  <2>1. d * (area - em) <= d * pm
    <3>1. d * (area - em) = d * area - d * em
      BY <1>1, <1>6, <1>9
    <3>2. zm - d * em <= d * pm
      BY <1>8, <1>9
    <3>3. d * area <= zm
      BY <1>6, <1>9
    <3>4. d * pm \in Int /\ d * em \in Int /\ d * area \in Int
      BY <1>1, <1>6, <1>9
    <3> QED
      BY <1>9, <3>1, <3>2, <3>3, <3>4
  <2>2. area - em <= pm
    BY <1>1, <1>6, <1>9, <2>1, Cancels
  <2> QED
    BY <1>6, <1>9, <1>10, <2>2
<1>13. (Duration + 1) * m = Duration * m + m /\ Duration * m \in Int
  OBVIOUS
<1>14. area - (Duration + 1) * m <= twice /\ twice <= area + (Duration + 1) * m
  BY <1>6, <1>9, <1>10, <1>11, <1>12, <1>13
<1> QED
  BY <1>5, <1>6, <1>9, <1>14 DEF d, e, x, trap, area

\* An interval before the window adds no area.
LEMMA OutsideIsNothing ==
    ASSUME NEW a \in Nat \X Nat, NEW b \in Nat \X Nat, NEW m \in Nat,
           a[1] < b[1], b[1] <= WindowStart, WindowStart \in Nat
    PROVE  (AreaBetween(a, b) * m) \div (b[1] - a[1]) = 0
<1>1. PICK d \in Nat \ {0} : d = b[1] - a[1]
  OBVIOUS
<1>2. AreaBetween(a, b) * m = d * 0
  <2>1. AreaBetween(a, b) = 0
    BY DEF AreaBetween
  <2> QED
    BY <2>1
<1> QED
  BY <1>1, <1>2, ExactDiv

-----------------------------------------------------------------------------
(* The settlement integral: the area under the observations. *)

\* The pieces of an area.
Pieces(seen, m) == [i \in 1..Len(seen) - 1 |-> AreaFrom(seen, m, i)]

BeforeFirst(seen, m) ==
    IF seen[1][1] > WindowStart THEN 2 * seen[1][2] * (seen[1][1] - WindowStart) * m ELSE 0

\* An area is what lies before the first observation and the sum of its pieces.
LEMMA AreaIsSum ==
    ASSUME NEW seen, NEW m
    PROVE  Area(seen, m) = BeforeFirst(seen, m) + SumOver(Pieces(seen, m), 1..Len(seen) - 1)
<1> DEFINE D == 1..Len(seen) - 1
           c == Pieces(seen, m)
           Body(g) == [s \in SUBSET D |->
                          IF s = {} THEN 0 ELSE AreaFrom(seen, m, Pick(s)) + g[s \ {Pick(s)}]]
<1>1. \A s \in SUBSET D : s # {} => c[Pick(s)] = AreaFrom(seen, m, Pick(s))
  BY PickIn DEF Pieces
<1>2. \A g : Body(g) = [s \in SUBSET D |-> SumStep(c, g, s)]
  BY <1>1 DEF SumStep
<1>3. \A g : (g = Body(g)) <=> IsFold(c, g, SUBSET D)
  BY <1>2 DEF IsFold
<1>4. (CHOOSE g : g = Body(g)) = Fold(c, D)
  BY <1>3 DEF Fold
<1>5. MapThenSumSet(LAMBDA i : AreaFrom(seen, m, i), D) = SumOver(c, D)
  BY <1>4 DEF MapThenSumSet, MapThenFoldSet, SumOver, Pick
<1> QED
  BY <1>5 DEF Area, BeforeFirst

\* Observations that are in order.
InOrder(seen) ==
    /\ seen \in Seq(Nat \X (Nat \ {0})) /\ seen # <<>>
    /\ \A i \in 1..Len(seen) - 1 : seen[i][1] < seen[i + 1][1]

LEMMA AreaBetweenTyped ==
    ASSUME NEW ta \in Nat, NEW pa \in Nat, NEW tb \in Nat, NEW pb \in Nat, ta < tb,
           WindowStart \in Nat
    PROVE  AreaBetween(<<ta, pa>>, <<tb, pb>>) \in Int
<1>1. PICK d \in Int, g \in Int, h \in Int, k \in Int :
         d = tb - ta /\ g = pb - pa /\ h = WindowStart - ta /\ k = tb - WindowStart
  OBVIOUS
<1>2. AreaBetween(<<ta, pa>>, <<tb, pb>>) =
        CASE tb <= WindowStart -> 0
          [] ta >= WindowStart -> (pa + pb) * d * d
          [] OTHER -> ((pa * d + g * h) + pb * d) * k
  BY <1>1, Zenon DEF AreaBetween
<1>3. PICK x \in Int, y \in Int, z \in Int : x = pa * d /\ y = g * h /\ z = pb * d
  OBVIOUS
<1>4. (pa + pb) * d * d \in Int /\ ((x + y) + z) * k \in Int
  OBVIOUS
<1>5. AreaBetween(<<ta, pa>>, <<tb, pb>>) \in {0, (pa + pb) * d * d, ((x + y) + z) * k}
  <2>1. CASE tb <= WindowStart
    BY <1>2, <2>1
  <2>2. CASE ta >= WindowStart
    BY <1>2, <2>2
  <2>3. CASE ta < WindowStart /\ WindowStart < tb
    BY <1>2, <1>3, <2>3
  <2> QED
    BY <2>1, <2>2, <2>3
<1> QED
  BY <1>4, <1>5

\* Each piece is a whole number.
LEMMA PiecesTyped ==
    ASSUME NEW seen, InOrder(seen), NEW m \in Nat, WindowStart \in Nat
    PROVE  \A i \in 1..Len(seen) - 1 : Pieces(seen, m)[i] \in Int
<1> SUFFICES ASSUME NEW i \in 1..Len(seen) - 1 PROVE AreaFrom(seen, m, i) \in Int
  BY DEF Pieces
<1>1. PICK a \in Nat \X (Nat \ {0}), b \in Nat \X (Nat \ {0}) :
         a = seen[i] /\ b = seen[i + 1] /\ a[1] < b[1]
  BY DEF InOrder
<1>2. AreaBetween(a, b) \in Int
  <2>1. PICK ta \in Nat, pa \in Nat, tb \in Nat, pb \in Nat : a = <<ta, pa>> /\ b = <<tb, pb>>
    OBVIOUS
  <2>2. ta < tb
    BY <1>1, <2>1
  <2> QED
    BY <2>1, <2>2, AreaBetweenTyped
<1>3. PICK n \in Int, d \in Nat \ {0} : n = AreaBetween(a, b) * m /\ d = b[1] - a[1]
  <2>1. b[1] - a[1] \in Nat \ {0}
    BY <1>1
  <2>2. AreaBetween(a, b) * m \in Int
    BY <1>2
  <2> QED
    BY <2>1, <2>2
<1>4. n \div d \in Int
  BY DivIs
<1> QED
  BY <1>1, <1>3, <1>4 DEF AreaFrom

\* Another observation adds the area of one more interval.
LEMMA AreaGrows ==
    ASSUME NEW seen, InOrder(seen), NEW m \in Nat, WindowStart \in Nat,
           NEW b \in Nat \X (Nat \ {0}), seen[Len(seen)][1] < b[1]
    PROVE  LET a == seen[Len(seen)]
           IN  /\ InOrder(Append(seen, b))
               /\ Area(seen, m) \in Int
               /\ Area(Append(seen, b), m) =
                    Area(seen, m) + ((AreaBetween(a, b) * m) \div (b[1] - a[1]))
<1> DEFINE n == Len(seen)
           more == Append(seen, b)
           c == Pieces(seen, m)
           e == Pieces(more, m)
<1>1. /\ n \in Nat \ {0} /\ Len(more) = n + 1 /\ more[n + 1] = b
      /\ \A i \in 1..n : more[i] = seen[i]
      /\ more \in Seq(Nat \X (Nat \ {0}))
  BY DEF InOrder
<1>2. InOrder(more)
  <2>1. ASSUME NEW i \in 1..n PROVE more[i][1] < more[i + 1][1]
    BY <1>1 DEF InOrder
  <2>2. Len(more) - 1 = n /\ more # <<>>
    BY <1>1
  <2> HIDE DEF more, n
  <2> QED
    BY <1>1, <2>1, <2>2 DEF InOrder
<1>0. n \in Nat \ {0}
  BY <1>1
<1>3. ASSUME NEW i \in 1..n - 1 PROVE e[i] = c[i]
  <2>1. i \in 1..n /\ i + 1 \in 1..n /\ i \in 1..Len(more) - 1
    BY <1>0, <1>1
  <2>2. more[i] = seen[i] /\ more[i + 1] = seen[i + 1]
    BY <1>1, <2>1
  <2>3. e[i] = AreaFrom(more, m, i) /\ c[i] = AreaFrom(seen, m, i)
    BY <2>1 DEF Pieces
  <2> QED
    BY <2>2, <2>3, Zenon DEF AreaFrom
<1>4. e[n] = (AreaBetween(seen[n], b) * m) \div (b[1] - seen[n][1])
  BY <1>1 DEF Pieces, AreaFrom
<1>5. \A i \in 1..n : e[i] \in Int
  <2>1. Len(more) - 1 = n
    BY <1>1
  <2> HIDE DEF more, n
  <2> QED
    BY <1>2, <2>1, PiecesTyped
<1>6. \A i \in 1..n - 1 : c[i] \in Int
  BY PiecesTyped
<1> HIDE DEF c, e
<1>7. SumOver(c, 1..n - 1) \in Int
  <2>1. IsFiniteSet(1..n - 1)
    BY <1>1, FS_Interval
  <2> QED
    BY <1>6, <2>1, SumTyped
<1>8. SumOver(e, 1..n) = e[n] + SumOver(c, 1..n - 1)
  <2> HIDE DEF n
  <2>1. IsFiniteSet(1..n) /\ n \in 1..n /\ (1..n) \ {n} = 1..n - 1
    <3>1. IsFiniteSet(1..n)
      BY <1>0, FS_Interval
    <3>2. n \in 1..n /\ (1..n) \ {n} = 1..n - 1
      BY <1>0
    <3> QED
      BY <3>1, <3>2
  <2>2. SumOver(e, 1..n) = e[n] + SumOver(e, (1..n) \ {n})
    <3>1. PICK D : D = 1..n
      OBVIOUS
    <3>2. IsFiniteSet(D) /\ n \in D /\ \A x \in D : e[x] \in Int
      BY <1>5, <2>1, <3>1
    <3>3. SumOver(e, D) = e[n] + SumOver(e, D \ {n})
      BY <3>2, SumSplits
    <3> QED
      BY <3>1, <3>3
  <2>3. SumOver(e, 1..n - 1) = SumOver(c, 1..n - 1)
    <3>1. PICK D : D = 1..n - 1
      OBVIOUS
    <3>2. \A x \in D : e[x] = c[x]
      BY <1>3, <3>1
    <3>3. SumOver(e, D) = SumOver(c, D)
      BY <3>2, SumAgrees
    <3> QED
      BY <3>1, <3>3
  <2> QED
    BY <2>1, <2>2, <2>3
<1>9. BeforeFirst(more, m) = BeforeFirst(seen, m) /\ BeforeFirst(seen, m) \in Int
  <2>1. more[1] = seen[1] /\ seen[1] \in Nat \X (Nat \ {0})
    BY <1>1 DEF InOrder
  <2> QED
    BY <2>1 DEF BeforeFirst
<1>10. /\ Area(seen, m) = BeforeFirst(seen, m) + SumOver(c, 1..n - 1)
       /\ Area(more, m) = BeforeFirst(more, m) + SumOver(e, 1..n)
  <2>1. Len(more) - 1 = n
    BY <1>1
  <2> QED
    BY <2>1, AreaIsSum DEF c, e
<1>11. e[n] \in Int
  BY <1>1, <1>5
<1> HIDE DEF more
<1>12. Area(seen, m) \in Int /\ Area(more, m) = Area(seen, m) + e[n]
  BY <1>7, <1>8, <1>9, <1>10, <1>11
<1> QED
  BY <1>2, <1>4, <1>12 DEF more

-----------------------------------------------------------------------------
(* The settlement integral: the factorial, whose recursion is a function's. *)

\* A function computes the factorials up to n.
IsFactorial(f, n) == \A k \in 0..n : f[k] = IF k = 0 THEN 1 ELSE k * f[k - 1]

LEMMA FactorialsAgree ==
    ASSUME NEW n \in Nat, NEW k \in 0..n, NEW f, IsFactorial(f, n), NEW g, IsFactorial(g, k)
    PROVE  f[k] = g[k]
<1> DEFINE G == {j \in Nat : j <= k => f[j] = g[j]}
<1>1. 0 \in G
  BY DEF IsFactorial
<1>2. ASSUME NEW j \in Nat, j \in G PROVE j + 1 \in G
  <2> SUFFICES ASSUME j + 1 <= k PROVE f[j + 1] = g[j + 1]
    OBVIOUS
  <2>1. j + 1 \in 0..k /\ j + 1 \in 0..n /\ j + 1 # 0 /\ (j + 1) - 1 = j
    OBVIOUS
  <2>2. f[j + 1] = (j + 1) * f[j]
    BY <2>1 DEF IsFactorial
  <2>3. g[j + 1] = (j + 1) * g[j]
    BY <2>1 DEF IsFactorial
  <2>4. f[j] = g[j]
    BY <1>2
  <2> QED
    BY <2>2, <2>3, <2>4
<1>3. k \in Nat /\ k \in G
  <2> HIDE DEF G
  <2> QED
    BY <1>1, <1>2, NatSetInduction
<1> QED
  BY <1>3

LEMMA FactorialExists == \A n \in Nat : \E f : IsFactorial(f, n)
<1> DEFINE G == {n \in Nat : \E f : IsFactorial(f, n)}
<1>1. 0 \in G
  <2>1. IsFactorial([k \in {0} |-> 1], 0)
    BY DEF IsFactorial
  <2> QED
    BY <2>1
<1>2. ASSUME NEW n \in Nat, n \in G PROVE n + 1 \in G
  <2>1. PICK f : IsFactorial(f, n)
    BY <1>2
  <2> DEFINE g == [k \in 0..n + 1 |-> IF k = n + 1 THEN (n + 1) * f[n] ELSE f[k]]
  <2>2. \A k \in 0..n : g[k] = f[k]
    OBVIOUS
  <2>3. g[n + 1] = (n + 1) * f[n]
    OBVIOUS
  <2> HIDE DEF g
  <2>4. ASSUME NEW k \in 0..n + 1 PROVE g[k] = IF k = 0 THEN 1 ELSE k * g[k - 1]
    <3>1. CASE k = n + 1
      <4>1. g[n] = f[n] /\ k # 0 /\ k - 1 = n
        BY <2>2, <3>1
      <4> QED
        BY <2>3, <3>1, <4>1
    <3>2. CASE k # n + 1
      <4>1. k \in 0..n /\ (k # 0 => k - 1 \in 0..n)
        BY <3>2
      <4> QED
        BY <2>1, <2>2, <4>1 DEF IsFactorial
    <3> QED
      BY <3>1, <3>2
  <2>5. IsFactorial(g, n + 1)
    BY <2>4 DEF IsFactorial
  <2> QED
    BY <2>5
<1>3. Nat \subseteq G
  <2> HIDE DEF G
  <2> QED
    BY <1>1, <1>2, NatSetInduction
<1> QED
  BY <1>3

\* So the recursion defines a function, ...
LEMMA FactorialIs ==
    \A n \in Nat : Factorial[n] = IF n = 0 THEN 1 ELSE n * Factorial[n - 1]
<1> DEFINE Upto(n) == CHOOSE f : IsFactorial(f, n)
           F == [n \in Nat |-> Upto(n)[n]]
           Body(f) == [n \in Nat |-> IF n = 0 THEN 1 ELSE n * f[n - 1]]
<1>1. \A n \in Nat : IsFactorial(Upto(n), n)
  BY FactorialExists
<1> HIDE DEF Upto
<1>2. ASSUME NEW n \in Nat PROVE F[n] = IF n = 0 THEN 1 ELSE n * F[n - 1]
  <2>1. Upto(n)[n] = IF n = 0 THEN 1 ELSE n * Upto(n)[n - 1]
    BY <1>1 DEF IsFactorial
  <2>2. CASE n = 0
    BY <2>1, <2>2
  <2>3. CASE n # 0
    <3>1. n - 1 \in Nat /\ n - 1 \in 0..n
      BY <2>3
    <3>2. Upto(n)[n - 1] = Upto(n - 1)[n - 1]
      BY <1>1, <3>1, FactorialsAgree
    <3> QED
      BY <2>1, <2>3, <3>1, <3>2
  <2> QED
    BY <2>2, <2>3
<1>3. F = Body(F)
  <2>1. F = [n \in Nat |-> F[n]]
    OBVIOUS
  <2> HIDE DEF F
  <2> QED
    BY <1>2, <2>1
<1>4. Factorial = CHOOSE f : f = Body(f)
  BY DEF Factorial
<1>5. Factorial = Body(Factorial)
  <2>1. \E f : f = Body(f)
    BY <1>3
  <2> QED
    BY <1>4, <2>1
<1> QED
  BY <1>5

\* ... whose values are positive.
LEMMA FactorialPositive == \A n \in Nat : Factorial[n] \in Nat \ {0}
<1> DEFINE G == {n \in Nat : Factorial[n] \in Nat \ {0}}
<1>1. 0 \in G
  BY FactorialIs
<1>2. ASSUME NEW n \in Nat, n \in G PROVE n + 1 \in G
  <2>1. Factorial[n + 1] = (n + 1) * Factorial[n]
    BY FactorialIs
  <2>2. PICK f \in Nat \ {0} : f = Factorial[n]
    BY <1>2
  <2>3. (n + 1) * f \in Nat /\ f <= (n + 1) * f
    OBVIOUS
  <2> QED
    BY <2>1, <2>2, <2>3
<1>3. Nat \subseteq G
  <2> HIDE DEF G
  <2> QED
    BY <1>1, <1>2, NatSetInduction
<1> QED
  BY <1>3

-----------------------------------------------------------------------------
(* The settlement integral: what is invariant. *)

Scale == Factorial[WindowEnd]

\* Twice the integral of s, less twice the area under what it stands for.
Drift(s) == 2 * s.integral * Scale - Area(s.seen, Scale)

\* A series ends in its last observation, and its integral is the area under
\* them but for the fractions, unless it is a first one still to be filled.
SeriesOK(s) ==
    /\ s \in [last : Nat, price : Prices, integral : Nat, late : BOOLEAN, seen : Seq(Nat \X Prices)]
    /\ s.seen # <<>> /\ s.seen[Len(s.seen)] = <<s.last, s.price>>
    /\ \A i \in 1..Len(s.seen) - 1 : s.seen[i][1] < s.seen[i + 1][1]
    /\ s.last <= WindowStart => s.integral = 0 /\ Area(s.seen, Scale) = 0
    /\ s.last > WindowStart =>
         IF s.integral = 0 THEN Len(s.seen) = 1
         ELSE -((Duration + Len(s.seen)) * Scale) <= Drift(s) /\ Drift(s) <= (Duration + 1) * Scale

IsFilled(s) == s.last > WindowStart => s.integral > 0

\* Only a failed save or a stop leaves a first observation that is not filled,
\* and then the next observation is a later one.
TwapIInv ==
    /\ clock \in Nat /\ clock <= WindowEnd
    /\ observing \in [at : {"idle", "filling", "done", "failed"}, t : Nat]
    /\ observing.t <= clock
    /\ twap # Unloaded => SeriesOK(twap) /\ twap.last <= clock
    /\ saved # NoSeries => SeriesOK(saved) /\ saved.last <= clock
    /\ observing.at = "idle" =>
         /\ twap = saved \/ twap = Unloaded
         /\ saved # NoSeries => IsFilled(saved)
    /\ observing.at = "failed" =>
         /\ twap # Unloaded => twap.last <= observing.t
         /\ saved # NoSeries => saved.last <= observing.t
    /\ observing.at = "filling" =>
         /\ SeriesOK(twap) /\ saved = twap
         /\ twap.last = clock /\ clock >= WindowStart /\ Len(twap.seen) = 1 /\ twap.integral = 0
    /\ observing.at = "done" => SeriesOK(twap) /\ saved = twap /\ IsFilled(twap)
    /\ PostedIsTheArea

LEMMA AppendIs ==
    ASSUME NEW T, NEW q \in Seq(T), NEW c \in T
    PROVE  /\ Append(q, c) \in Seq(T) /\ Append(q, c) # <<>>
           /\ Len(Append(q, c)) = Len(q) + 1 /\ Append(q, c)[Len(q) + 1] = c
OBVIOUS

LEMMA TwapConstants ==
    /\ WindowStart \in Nat \ {0} /\ Duration \in Nat \ {0} /\ WindowEnd \in Nat
    /\ WindowEnd = WindowStart + Duration
    /\ Scale \in Nat \ {0} /\ Prices \subseteq Nat \ {0}
<1>1. /\ WindowStart \in Nat \ {0} /\ Duration \in Nat \ {0} /\ WindowEnd \in Nat
      /\ WindowEnd = WindowStart + Duration /\ Prices \subseteq Nat \ {0}
  BY TwapAssumption DEF WindowStart
<1>2. Scale \in Nat \ {0}
  BY <1>1, FactorialPositive DEF Scale
<1> QED
  BY <1>1, <1>2

LEMMA SeriesFields ==
    ASSUME NEW s, SeriesOK(s)
    PROVE  /\ s.last \in Nat /\ s.price \in Nat \ {0} /\ s.price \in Prices /\ s.integral \in Nat
           /\ s.late \in BOOLEAN
           /\ InOrder(s.seen) /\ s.seen \in Seq(Nat \X Prices) /\ Len(s.seen) \in Nat \ {0}
           /\ s.seen[Len(s.seen)] = <<s.last, s.price>>
<1>1. /\ s.last \in Nat /\ s.price \in Prices /\ s.integral \in Nat /\ s.late \in BOOLEAN
      /\ s.seen \in Seq(Nat \X Prices) /\ s.seen # <<>>
  BY DEF SeriesOK
<1>2. s.seen \in Seq(Nat \X (Nat \ {0}))
  <2>1. Nat \X Prices \subseteq Nat \X (Nat \ {0})
    BY TwapConstants
  <2>2. PICK q \in Seq(Nat \X Prices) : q = s.seen
    BY <1>1
  <2>3. \A i \in 1..Len(q) : q[i] \in Nat \X (Nat \ {0})
    BY <2>1
  <2>4. q \in [1..Len(q) -> Nat \X (Nat \ {0})] /\ Len(q) \in Nat
    BY <2>3
  <2>5. q \in Seq(Nat \X (Nat \ {0}))
    BY <2>4
  <2> QED
    BY <2>2, <2>5
<1> QED
  BY <1>1, <1>2, TwapConstants DEF SeriesOK, InOrder

\* One observation covers what lies before it.
LEMMA AreaOfOne ==
    ASSUME NEW seen, Len(seen) = 1, NEW m
    PROVE  Area(seen, m) = BeforeFirst(seen, m) + 0
<1>1. 1..Len(seen) - 1 = {}
  OBVIOUS
<1>2. SumOver(Pieces(seen, m), 1..Len(seen) - 1) = 0
  BY <1>1, SumOfNone
<1> QED
  BY <1>2, AreaIsSum

\* A first observation, not filled yet.
LEMMA NewSeriesOK ==
    ASSUME NEW t \in Nat, NEW p \in Prices
    PROVE  SeriesOK(NewSeries(t, p))
<1> DEFINE s == NewSeries(t, p)
<1>1. /\ s.last = t /\ s.price = p /\ s.integral = 0 /\ s.seen = <<<<t, p>>>>
      /\ s \in [last : Nat, price : Prices, integral : Nat, late : BOOLEAN, seen : Seq(Nat \X Prices)]
  BY TwapConstants DEF NewSeries
<1> HIDE DEF s
<1>2. Len(s.seen) = 1 /\ s.seen # <<>> /\ s.seen[1] = <<t, p>>
  BY <1>1
<1>3. t <= WindowStart => Area(s.seen, Scale) = 0
  <2> SUFFICES ASSUME t <= WindowStart PROVE Area(s.seen, Scale) = 0
    OBVIOUS
  <2>1. BeforeFirst(s.seen, Scale) = 0
    BY <1>2, TwapConstants DEF BeforeFirst
  <2> QED
    BY <1>2, <2>1, AreaOfOne
<1> QED
  BY <1>1, <1>2, <1>3 DEF SeriesOK, s

\* A first observation in the window, filled.
LEMMA FilledIs ==
    ASSUME NEW s, SeriesOK(s), Len(s.seen) = 1, s.last > WindowStart
    PROVE  LET b == s.price * (s.last - WindowStart)
           IN  b \in Nat \ {0} /\ 2 * b * Scale = Area(s.seen, Scale)
<1>1. PICK n \in Nat \ {0}, p \in Nat \ {0} :
         n = s.last - WindowStart /\ p = s.price /\ s.seen[1] = <<s.last, s.price>>
  BY SeriesFields, TwapConstants
<1>2. BeforeFirst(s.seen, Scale) = 2 * p * n * Scale
  BY <1>1 DEF BeforeFirst
<1>3. Area(s.seen, Scale) = 2 * p * n * Scale
  <2>1. 2 * p * n * Scale \in Nat
    BY TwapConstants
  <2> QED
    BY <1>2, <2>1, AreaOfOne
<1>4. p * n \in Nat \ {0} /\ 2 * (p * n) * Scale = 2 * p * n * Scale
  BY TwapConstants
<1> QED
  BY <1>1, <1>3, <1>4

\* The second save of a first observation fills it.
LEMMA FillOK ==
    ASSUME NEW s, SeriesOK(s), Len(s.seen) = 1, s.last >= WindowStart, s.integral = 0
    PROVE  LET u == [s EXCEPT !.integral = s.price * (s.last - WindowStart)]
           IN  SeriesOK(u) /\ IsFilled(u) /\ u.last = s.last
<1> DEFINE b == s.price * (s.last - WindowStart)
           u == [s EXCEPT !.integral = b]
<1>1. /\ u.last = s.last /\ u.price = s.price /\ u.seen = s.seen /\ u.integral = b
      /\ u = [last |-> s.last, price |-> s.price, integral |-> b, late |-> s.late, seen |-> s.seen]
  BY DEF SeriesOK
<1>2. b \in Nat
  BY SeriesFields, TwapConstants
<1>3. s.last = WindowStart => b = 0
  BY SeriesFields, TwapConstants
<1>4. s.last > WindowStart => b > 0 /\ 2 * b * Scale = Area(s.seen, Scale)
  BY FilledIs
<1>5. s.last \in Nat /\ WindowStart \in Nat /\ Duration \in Nat /\ Scale \in Nat
  BY SeriesFields, TwapConstants
<1> HIDE DEF b, u
<1>6. s.last > WindowStart => Drift(u) = 0
  BY <1>1, <1>2, <1>4, <1>5 DEF Drift
<1>7. (Duration + Len(u.seen)) * Scale \in Nat /\ (Duration + 1) * Scale \in Nat
  BY <1>1, <1>5
<1>8. u \in [last : Nat, price : Prices, integral : Nat, late : BOOLEAN, seen : Seq(Nat \X Prices)]
  BY <1>1, <1>2, SeriesFields
<1>9. SeriesOK(u)
  BY <1>1, <1>3, <1>4, <1>5, <1>6, <1>7, <1>8 DEF SeriesOK
<1> QED
  BY <1>1, <1>4, <1>9 DEF IsFilled, b, u

\* What the integral is taken from: it is the area so far, but for the fractions.
LEMMA BackfillIs ==
    ASSUME NEW s, SeriesOK(s), s.last >= WindowStart
    PROVE  LET drift == 2 * Backfill(s) * Scale - Area(s.seen, Scale)
           IN  /\ Backfill(s) \in Nat /\ Area(s.seen, Scale) \in Int
               /\ -((Duration + Len(s.seen)) * Scale) <= drift
               /\ drift <= (Duration + 1) * Scale
<1>1. /\ s.last \in Nat /\ s.integral \in Nat /\ s.price \in Nat /\ Len(s.seen) \in Nat
      /\ WindowStart \in Nat /\ Duration \in Nat /\ Scale \in Nat
  BY SeriesFields, TwapConstants
<1>2. (Duration + Len(s.seen)) * Scale \in Nat /\ (Duration + 1) * Scale \in Nat
  BY <1>1
<1>3. CASE s.last = WindowStart
  <2>1. Backfill(s) = 0 /\ Area(s.seen, Scale) = 0
    BY <1>1, <1>3 DEF Backfill, SeriesOK
  <2> QED
    BY <1>1, <1>2, <2>1
<1>4. CASE s.last > WindowStart /\ s.integral = 0
  <2>1. Backfill(s) = s.price * (s.last - WindowStart) /\ Len(s.seen) = 1
    BY <1>1, <1>4 DEF Backfill, SeriesOK
  <2>2. PICK b \in Nat : b = Backfill(s) /\ 2 * b * Scale = Area(s.seen, Scale)
    BY <1>4, <2>1, FilledIs
  <2>3. PICK c \in Nat : c = 2 * b * Scale
    BY <1>1
  <2>4. 2 * Backfill(s) * Scale = c /\ Area(s.seen, Scale) = c
    BY <2>2, <2>3
  <2> QED
    BY <1>2, <2>2, <2>4
<1>5. CASE s.last > WindowStart /\ s.integral # 0
  <2>1. Backfill(s) = s.integral
    BY <1>5 DEF Backfill
  <2>2. Area(s.seen, Scale) \in Int
    <3>1. Len(s.seen) - 1 \in Nat /\ IsFiniteSet(1..Len(s.seen) - 1)
      BY SeriesFields, FS_Interval
    <3>2. SumOver(Pieces(s.seen, Scale), 1..Len(s.seen) - 1) \in Int
      BY <1>1, <3>1, SeriesFields, PiecesTyped, SumTyped
    <3>3. BeforeFirst(s.seen, Scale) \in Int
      <4>1. PICK q \in Nat \X (Nat \ {0}) : q = s.seen[1]
        BY SeriesFields DEF InOrder
      <4> QED
        BY <1>1, <4>1 DEF BeforeFirst
    <3> QED
      BY <3>2, <3>3, AreaIsSum
  <2> QED
    BY <1>1, <1>5, <2>1, <2>2 DEF SeriesOK, Drift
<1> QED
  BY <1>1, <1>3, <1>4, <1>5

\* The integral with one more observation in the window.
LEMMA IntegratedIs ==
    ASSUME NEW s, SeriesOK(s), NEW t \in Nat, s.last < t, WindowStart < t, t <= WindowEnd,
           NEW p \in Prices
    PROVE  LET drift == 2 * Integrated(s, t, p) * Scale - Area(Append(s.seen, <<t, p>>), Scale)
           IN  /\ Integrated(s, t, p) \in Nat \ {0}
               /\ -((Duration + (Len(s.seen) + 1)) * Scale) <= drift
               /\ drift <= (Duration + 1) * Scale
<1> DEFINE a == s.seen[Len(s.seen)]
           b == <<t, p>>
           piece == (AreaBetween(a, b) * Scale) \div (b[1] - a[1])
           more == Append(s.seen, b)
           n == Integrated(s, t, p)
<1>1. /\ s.last \in Nat /\ s.price \in Nat \ {0} /\ Len(s.seen) \in Nat \ {0} /\ InOrder(s.seen)
      /\ a = <<s.last, s.price>> /\ a[1] = s.last /\ a[2] = s.price
  BY SeriesFields
<1>2. /\ WindowStart \in Nat /\ Duration \in Nat /\ Scale \in Nat \ {0} /\ p \in Nat \ {0}
      /\ t - WindowStart <= Duration
  BY TwapConstants
<1>3. a \in Nat \X (Nat \ {0}) /\ b \in Nat \X (Nat \ {0}) /\ b[1] = t /\ b[2] = p
  BY <1>1, <1>2
<1>4. Area(s.seen, Scale) \in Int /\ Area(more, Scale) = Area(s.seen, Scale) + piece
  BY <1>1, <1>2, <1>3, AreaGrows
<1>5. CASE s.last < WindowStart
  <2>1. Area(s.seen, Scale) = 0
    BY <1>1, <1>2, <1>5 DEF SeriesOK
  <2>2. n = Trapezoid(Interpolate(a[1], a[2], b[1], b[2], WindowStart), b[2], b[1] - WindowStart)
    BY <1>1, <1>3, <1>5 DEF Integrated
  <2>3. /\ piece \in Int /\ n \in Nat \ {0}
        /\ piece - (Duration + 1) * Scale <= 2 * n * Scale
        /\ 2 * n * Scale <= piece + (Duration + 1) * Scale
    <3> HIDE DEF a, b, n
    <3> QED
      BY <1>1, <1>2, <1>3, <1>5, <2>2, StraddleDrift
  <2> HIDE DEF n, piece, more
  <2>4. (Duration + 1) * Scale <= (Duration + (Len(s.seen) + 1)) * Scale
    <3>1. Scale * (Duration + 1) <= Scale * (Duration + (Len(s.seen) + 1))
      BY <1>1, <1>2, Cancels
    <3> QED
      BY <1>1, <1>2, <3>1
  <2>5. PICK c \in Int, f \in Int, g \in Int :
           c = 2 * n * Scale /\ f = (Duration + 1) * Scale
           /\ g = (Duration + (Len(s.seen) + 1)) * Scale
    BY <1>1, <1>2, <2>3
  <2>6. /\ -((Duration + (Len(s.seen) + 1)) * Scale) <= 2 * n * Scale - Area(more, Scale)
        /\ 2 * n * Scale - Area(more, Scale) <= (Duration + 1) * Scale
    BY <1>4, <2>1, <2>3, <2>4, <2>5
  <2> QED
    BY <2>3, <2>6 DEF n, more
<1>6. CASE s.last >= WindowStart
  <2>1. PICK u \in Nat, e \in Nat \ {0} : u = Backfill(s) /\ e = t - s.last
    BY <1>1, <1>6, BackfillIs
  <2>2. PICK v \in Nat \ {0} : v = Trapezoid(s.price, p, e)
    <3>1. s.price \in Nat /\ p \in Nat /\ e \in Nat /\ s.price > 0 /\ p > 0 /\ e > 0
      BY <1>1, <1>2, <2>1
    <3>2. Trapezoid(s.price, p, e) \in Nat /\ Trapezoid(s.price, p, e) >= 1
      BY <3>1, TrapezoidIs
    <3> QED
      BY <3>2
  <2>3. n = u + v
    BY <1>1, <1>2, <1>6, <2>1, <2>2 DEF Integrated
  <2>4. piece \in Int /\ 2 * v * Scale <= piece /\ piece <= 2 * v * Scale + Scale
    <3>1. v = Trapezoid(a[2], b[2], b[1] - a[1])
      BY <1>1, <1>3, <2>1, <2>2
    <3> HIDE DEF a, b
    <3> QED
      BY <1>1, <1>2, <1>3, <1>6, <3>1, InsideDrift
  <2> HIDE DEF n, piece, more
  <2>5. /\ -((Duration + Len(s.seen)) * Scale) <= 2 * u * Scale - Area(s.seen, Scale)
        /\ 2 * u * Scale - Area(s.seen, Scale) <= (Duration + 1) * Scale
    BY <1>6, <2>1, BackfillIs
  <2>6. /\ 2 * n * Scale = 2 * u * Scale + 2 * v * Scale
        /\ (Duration + (Len(s.seen) + 1)) * Scale = (Duration + Len(s.seen)) * Scale + Scale
    BY <1>1, <1>2, <2>3
  <2>7. PICK c \in Int, d \in Int, f \in Int, g \in Int :
           /\ c = 2 * u * Scale /\ d = 2 * v * Scale
           /\ f = (Duration + 1) * Scale /\ g = (Duration + Len(s.seen)) * Scale
    BY <1>1, <1>2
  <2>8. n \in Nat \ {0}
    BY <2>3
  <2>9. /\ -((Duration + (Len(s.seen) + 1)) * Scale) <= 2 * n * Scale - Area(more, Scale)
        /\ 2 * n * Scale - Area(more, Scale) <= (Duration + 1) * Scale
    BY <1>2, <1>4, <2>4, <2>5, <2>6, <2>7
  <2> QED
    BY <2>8, <2>9 DEF n, more
<1> QED
  BY <1>1, <1>2, <1>5, <1>6

\* An observation keeps the series, and fills it.
LEMMA ObservedOK ==
    ASSUME NEW s, SeriesOK(s), NEW t \in Nat, s.last < t, t <= WindowEnd, NEW p \in Prices
    PROVE  SeriesOK(Observed(s, t, p)) /\ IsFilled(Observed(s, t, p))
<1> DEFINE u == Observed(s, t, p)
           a == s.seen[Len(s.seen)]
           b == <<t, p>>
<1>1. /\ s.last \in Nat /\ s.price \in Nat \ {0} /\ Len(s.seen) \in Nat \ {0} /\ InOrder(s.seen)
      /\ a = <<s.last, s.price>> /\ a[1] = s.last /\ a[2] = s.price
      /\ s.seen \in Seq(Nat \X Prices) /\ s.late \in BOOLEAN
      /\ WindowStart \in Nat /\ Scale \in Nat \ {0} /\ p \in Nat \ {0}
  BY SeriesFields, TwapConstants
<1>2. /\ u = [last |-> t, price |-> p, integral |-> u.integral, late |-> u.late, seen |-> u.seen]
      /\ u.last = t /\ u.price = p /\ u.late \in BOOLEAN /\ u.seen = Append(s.seen, b)
      /\ u.integral = IF t < WindowStart THEN 0 ELSE Integrated(s, t, p)
  BY <1>1 DEF Observed
<1>3. /\ b \in Nat \X Prices /\ b \in Nat \X (Nat \ {0}) /\ a \in Nat \X (Nat \ {0})
      /\ b[1] = t /\ b[2] = p
  BY <1>1
<1> HIDE DEF u
<1>4. /\ u.seen \in Seq(Nat \X Prices) /\ u.seen # <<>> /\ Len(u.seen) = Len(s.seen) + 1
      /\ u.seen[Len(u.seen)] = b
  <2>0. PICK T : T = Nat \X Prices
    OBVIOUS
  <2>1. PICK q \in Seq(T), c \in T : q = s.seen /\ c = b
    BY <1>1, <1>3, <2>0
  <2>2. u.seen = Append(q, c)
    BY <1>2, <2>1
  <2>3. /\ Append(q, c) \in Seq(T) /\ Append(q, c) # <<>>
        /\ Len(Append(q, c)) = Len(q) + 1 /\ Append(q, c)[Len(q) + 1] = c
    BY AppendIs
  <2> HIDE DEF b
  <2> QED
    BY <2>0, <2>1, <2>2, <2>3
<1>5. /\ InOrder(u.seen) /\ Area(s.seen, Scale) \in Int
      /\ Area(u.seen, Scale) =
           Area(s.seen, Scale) + ((AreaBetween(a, b) * Scale) \div (b[1] - a[1]))
  <2>1. PICK q : q = s.seen
    OBVIOUS
  <2>2. InOrder(q) /\ Scale \in Nat /\ WindowStart \in Nat /\ q[Len(q)][1] < b[1]
    BY <1>1, <1>3, <2>1
  <2> HIDE DEF b
  <2>3. /\ InOrder(Append(q, b)) /\ Area(q, Scale) \in Int
        /\ Area(Append(q, b), Scale) =
             Area(q, Scale) + ((AreaBetween(q[Len(q)], b) * Scale) \div (b[1] - q[Len(q)][1]))
    BY <1>3, <2>2, AreaGrows, Zenon
  <2> QED
    BY <1>2, <2>1, <2>3
<1>6. t <= WindowStart => u.integral = 0 /\ Area(u.seen, Scale) = 0
  <2> SUFFICES ASSUME t <= WindowStart PROVE u.integral = 0 /\ Area(u.seen, Scale) = 0
    OBVIOUS
  <2>1. Area(s.seen, Scale) = 0
    BY <1>1 DEF SeriesOK
  <2>2. (AreaBetween(a, b) * Scale) \div (b[1] - a[1]) = 0
    <3>1. a \in Nat \X Nat /\ b \in Nat \X Nat /\ a[1] < b[1] /\ b[1] <= WindowStart /\ Scale \in Nat
      BY <1>1, <1>3
    <3> HIDE DEF a, b
    <3> QED
      BY <1>1, <3>1, OutsideIsNothing
  <2>3. t = WindowStart => Integrated(s, t, p) = 0
    <3> SUFFICES ASSUME t = WindowStart PROVE Integrated(s, t, p) = 0
      OBVIOUS
    <3>1. PICK x \in Nat : x = Interpolate(s.last, s.price, t, p, WindowStart)
      BY <1>1, InterpolateIs
    <3>2. Integrated(s, t, p) = Trapezoid(x, p, 0)
      BY <1>1, <3>1 DEF Integrated
    <3> QED
      BY <1>1, <3>2, TrapezoidIs
  <2> QED
    BY <1>1, <1>2, <1>5, <2>1, <2>2, <2>3
<1>7. t > WindowStart =>
         /\ u.integral \in Nat \ {0}
         /\ -((Duration + Len(u.seen)) * Scale) <= Drift(u) /\ Drift(u) <= (Duration + 1) * Scale
  <2> SUFFICES ASSUME t > WindowStart
               PROVE  /\ u.integral \in Nat \ {0}
                      /\ -((Duration + Len(u.seen)) * Scale) <= Drift(u)
                      /\ Drift(u) <= (Duration + 1) * Scale
    OBVIOUS
  <2>1. u.integral = Integrated(s, t, p)
    BY <1>1, <1>2
  <2> QED
    BY <1>1, <1>2, <1>4, <2>1, IntegratedIs DEF Drift
<1>8. u.integral \in Nat
  <2>1. t <= WindowStart \/ t > WindowStart
    BY <1>1
  <2> QED
    BY <1>6, <1>7, <2>1
<1>9. u \in [last : Nat, price : Prices, integral : Nat, late : BOOLEAN, seen : Seq(Nat \X Prices)]
  BY <1>2, <1>4, <1>8
<1>10. \A i \in 1..Len(u.seen) - 1 : u.seen[i][1] < u.seen[i + 1][1]
  BY <1>5 DEF InOrder
<1>11. SeriesOK(u)
  BY <1>2, <1>4, <1>6, <1>7, <1>9, <1>10 DEF SeriesOK
<1> QED
  BY <1>2, <1>7, <1>8, <1>11 DEF IsFilled, u

-----------------------------------------------------------------------------
(* The settlement integral: the steps. *)

LEMMA MaxWithOne ==
    ASSUME NEW n \in Nat
    PROVE  Max({n, 1}) = IF n >= 1 THEN n ELSE 1
<1> DEFINE x == IF n >= 1 THEN n ELSE 1
<1>1. x \in {n, 1} /\ \A y \in {n, 1} : x >= y
  OBVIOUS
<1>2. ASSUME NEW z \in {n, 1}, \A y \in {n, 1} : z >= y PROVE z = x
  BY <1>2
<1> HIDE DEF x
<1>3. (CHOOSE z \in {n, 1} : \A y \in {n, 1} : z >= y) = x
  BY <1>1, <1>2
<1> QED
  BY <1>3 DEF Max, x

\* What a filled series posts.
LEMMA PostedOK ==
    ASSUME NEW s, SeriesOK(s), IsFilled(s)
    PROVE  LET drift == 2 * Max({s.integral, 1}) * Scale - Area(s.seen, Scale)
           IN  /\ -((Duration + Len(s.seen) + 1) * Scale) <= drift
               /\ drift <= (Duration + 2) * Scale
<1> DEFINE v == Max({s.integral, 1})
<1>1. PICK k \in Nat, d \in Nat, m \in Nat : k = Len(s.seen) /\ d = Duration /\ m = Scale
  BY SeriesFields, TwapConstants
<1>2. s.last \in Nat /\ s.integral \in Nat /\ WindowStart \in Nat
  BY SeriesFields, TwapConstants
<1>3. PICK x \in Nat, y \in Nat : x = d * m /\ y = k * m
  BY <1>1
<1>4. /\ (d + k + 1) * m = x + y + m /\ (d + 2) * m = x + 2 * m
      /\ (d + k) * m = x + y /\ (d + 1) * m = x + m
  BY <1>3
<1>5. PICK a \in Int, w \in Nat :
         /\ a = Area(s.seen, Scale) /\ w = v
         /\ -(x + y + m) <= 2 * w * m - a /\ 2 * w * m - a <= x + 2 * m
  <2>1. CASE s.last <= WindowStart
    <3>1. s.integral = 0 /\ Area(s.seen, Scale) = 0
      BY <1>2, <2>1 DEF SeriesOK
    <3>2. v = 1
      BY <3>1, MaxWithOne
    <3>3. -(x + y + m) <= 2 * 1 * m - 0 /\ 2 * 1 * m - 0 <= x + 2 * m
      OBVIOUS
    <3> HIDE DEF v
    <3> QED
      BY <3>1, <3>2, <3>3
  <2>2. CASE s.last > WindowStart
    <3>1. v = s.integral
      BY <1>2, <2>2, MaxWithOne DEF IsFilled
    <3>2. s.integral # 0
      BY <1>2, <2>2 DEF IsFilled
    <3>3. -((Duration + Len(s.seen)) * Scale) <= Drift(s) /\ Drift(s) <= (Duration + 1) * Scale
      BY <2>2, <3>2 DEF SeriesOK
    <3>4. s.last >= WindowStart
      BY <1>2, <2>2
    <3>5. PICK a \in Int : a = Area(s.seen, Scale)
      BY <3>4, BackfillIs
    <3>6. PICK w \in Nat : w = s.integral
      BY <1>2
    <3>7. PICK e \in Int : e = 2 * w * m
      BY <1>1
    <3>8. Drift(s) = e - a
      BY <1>1, <3>5, <3>6, <3>7 DEF Drift
    <3>9. -(x + y) <= e - a /\ e - a <= x + m
      BY <1>1, <1>4, <3>3, <3>8
    <3>10. -(x + y + m) <= 2 * w * m - a /\ 2 * w * m - a <= x + 2 * m
      BY <3>7, <3>9
    <3> HIDE DEF v
    <3> QED
      BY <3>1, <3>5, <3>6, <3>10
  <2>3. s.last <= WindowStart \/ s.last > WindowStart
    BY <1>2
  <2> QED
    BY <2>1, <2>2, <2>3, Zenon
<1> HIDE DEF v
<1>6. /\ -((Duration + Len(s.seen) + 1) * Scale) <= 2 * v * Scale - Area(s.seen, Scale)
      /\ 2 * v * Scale - Area(s.seen, Scale) <= (Duration + 2) * Scale
  BY <1>1, <1>4, <1>5
<1> QED
  BY <1>6 DEF v

\* Only a post changes what was posted.
LEMMA PostedStays ==
    ASSUME PostedIsTheArea, UNCHANGED aggregate
    PROVE  PostedIsTheArea'
BY DEF PostedIsTheArea

\* A save that succeeds or throws keeps the invariant, if the series is right.
LEMMA SaveKeeps ==
    ASSUME TwapIInv, NEW s, SeriesOK(s), s.last = clock, NEW next \in {"idle", "filling", "done"},
           next \in {"idle", "done"} => IsFilled(s),
           next = "filling" => clock >= WindowStart /\ Len(s.seen) = 1 /\ s.integral = 0,
           SaveOrThrow(s, next), UNCHANGED <<clock, aggregate>>
    PROVE  TwapIInv'
<1>1. clock \in Nat /\ clock' = clock /\ twap' = s /\ PostedIsTheArea'
  BY PostedStays DEF TwapIInv, SaveOrThrow
<1>2. /\ saved # NoSeries => SeriesOK(saved) /\ saved.last <= clock
      /\ observing \in [at : {"idle", "filling", "done", "failed"}, t : Nat]
      /\ clock <= WindowEnd
  BY DEF TwapIInv
<1>3. CASE saved' = s /\ observing' = [observing EXCEPT !.at = next, !.t = clock]
  <2>1. observing' = [at |-> next, t |-> clock]
    BY <1>2, <1>3
  <2> QED
    BY <1>1, <1>2, <1>3, <2>1 DEF TwapIInv
<1>4. CASE saved' = saved /\ observing' = [at |-> "failed", t |-> clock]
  BY <1>1, <1>2, <1>4 DEF TwapIInv
<1> QED
  BY <1>3, <1>4 DEF SaveOrThrow

\* What an observation finds: nothing, or a series of an earlier block, or the
\* one of this block, filled.
LEMMA LoadedIs ==
    ASSUME TwapIInv, Observing, Loaded # NoSeries
    PROVE  /\ SeriesOK(Loaded) /\ Loaded.last <= clock /\ clock \in Nat
           /\ Loaded.last < clock \/ (observing.at = "idle" /\ saved = Loaded /\ IsFilled(Loaded))
<1>1. /\ clock \in Nat /\ observing.t \in Nat /\ observing.t <= clock
      /\ twap # Unloaded => SeriesOK(twap) /\ twap.last <= clock
      /\ saved # NoSeries => SeriesOK(saved) /\ saved.last <= clock
  BY DEF TwapIInv
<1>2. SeriesOK(Loaded) /\ Loaded.last <= clock /\ Loaded.last \in Nat
  BY <1>1, SeriesFields DEF Loaded
<1>3. CASE observing.at = "idle"
  BY <1>1, <1>2, <1>3 DEF TwapIInv, Loaded
<1>4. CASE observing.at = "failed" /\ clock > observing.t
  <2>1. Loaded.last <= observing.t
    BY <1>4 DEF TwapIInv, Loaded
  <2> QED
    BY <1>1, <1>2, <1>4, <2>1
<1> QED
  BY <1>3, <1>4 DEF Observing

LEMMA FirstKeeps ==
    ASSUME TwapIInv, NEW p \in Prices, ObserveFirst(p)
    PROVE  TwapIInv'
<1> DEFINE s == NewSeries(clock, p)
<1>1. clock \in Nat /\ WindowStart \in Nat
  BY TwapConstants DEF TwapIInv
<1>2. SeriesOK(s) /\ s.last = clock /\ s.integral = 0 /\ Len(s.seen) = 1
  <2>1. SeriesOK(s)
    BY <1>1, NewSeriesOK
  <2> QED
    BY <2>1 DEF NewSeries
<1>3. PICK next \in {"idle", "filling", "done"} :
         /\ next = IF clock < WindowStart THEN "idle" ELSE "filling"
         /\ SaveOrThrow(s, next)
  BY DEF ObserveFirst
<1>4. UNCHANGED <<clock, aggregate>>
  BY DEF ObserveFirst
<1>5. next \in {"idle", "done"} => IsFilled(s)
  BY <1>1, <1>2, <1>3 DEF IsFilled
<1>6. next = "filling" => clock >= WindowStart
  BY <1>1, <1>3
<1> HIDE DEF s
<1> QED
  BY <1>2, <1>3, <1>4, <1>5, <1>6, SaveKeeps

LEMMA FillKeeps ==
    ASSUME TwapIInv, FillFirst
    PROVE  TwapIInv'
<1> DEFINE s == [twap EXCEPT !.integral = twap.price * (clock - WindowStart)]
<1>1. /\ SeriesOK(twap) /\ twap.last = clock /\ clock >= WindowStart
      /\ Len(twap.seen) = 1 /\ twap.integral = 0
  BY DEF TwapIInv, FillFirst
<1>2. SeriesOK(s) /\ IsFilled(s) /\ s.last = clock
  BY <1>1, FillOK
<1>3. SaveOrThrow(s, "done") /\ UNCHANGED <<clock, aggregate>>
  BY DEF FillFirst
<1> HIDE DEF s
<1> QED
  BY <1>2, <1>3, SaveKeeps

LEMMA LaterKeeps ==
    ASSUME TwapIInv, NEW p \in Prices, ObserveLater(p)
    PROVE  TwapIInv'
<1> DEFINE s == Observed(Loaded, clock, p)
<1>1. SeriesOK(Loaded) /\ Loaded.last < clock /\ clock \in Nat /\ clock <= WindowEnd
  <2>1. Observing /\ Loaded # NoSeries /\ clock > Loaded.last
    BY DEF ObserveLater
  <2>2. SeriesOK(Loaded) /\ Loaded.last \in Nat
    BY <2>1, LoadedIs, SeriesFields
  <2> QED
    BY <2>1, <2>2 DEF TwapIInv
<1>2. SeriesOK(s) /\ IsFilled(s)
  BY <1>1, ObservedOK
<1>3. s.last = clock
  BY DEF Observed
<1>4. PICK next \in {"idle", "filling", "done"} : next # "filling" /\ SaveOrThrow(s, next)
  BY DEF ObserveLater
<1>5. UNCHANGED <<clock, aggregate>>
  BY DEF ObserveLater
<1> HIDE DEF s
<1> QED
  BY <1>2, <1>3, <1>4, <1>5, SaveKeeps

LEMMA AgainKeeps ==
    ASSUME TwapIInv, ObserveAgain
    PROVE  TwapIInv'
<1>1. /\ Observing /\ Loaded # NoSeries /\ clock <= Loaded.last
      /\ twap' = Loaded /\ UNCHANGED <<clock, saved, aggregate>>
      /\ \E next \in {"idle", "done"} : observing' = [at |-> next, t |-> clock]
  BY DEF ObserveAgain
<1>2. /\ SeriesOK(Loaded) /\ Loaded.last <= clock /\ clock \in Nat
      /\ Loaded.last < clock \/ (observing.at = "idle" /\ saved = Loaded /\ IsFilled(Loaded))
  BY <1>1, LoadedIs
<1>3. Loaded.last \in Nat
  BY <1>2, SeriesFields
<1>4. saved = Loaded /\ IsFilled(Loaded)
  BY <1>1, <1>2, <1>3
<1>5. PostedIsTheArea' /\ clock <= WindowEnd
  BY <1>1, PostedStays DEF TwapIInv
<1>6. PICK s : s = Loaded
  OBVIOUS
<1>7. PICK next \in {"idle", "done"} : observing' = [at |-> next, t |-> clock]
  BY <1>1
<1>8. /\ twap' = s /\ saved' = s /\ clock' = clock
      /\ SeriesOK(s) /\ s.last <= clock /\ IsFilled(s)
  BY <1>1, <1>2, <1>4, <1>6
<1> QED
  BY <1>2, <1>5, <1>7, <1>8 DEF TwapIInv

LEMMA PostKeeps ==
    ASSUME TwapIInv, Post
    PROVE  TwapIInv'
<1>1. /\ observing.at = "done" /\ SeriesOK(twap) /\ saved = twap /\ IsFilled(twap)
      /\ observing \in [at : {"idle", "filling", "done", "failed"}, t : Nat]
      /\ clock \in Nat /\ clock <= WindowEnd /\ observing.t <= clock
      /\ saved # NoSeries => saved.last <= clock
      /\ twap # Unloaded => twap.last <= clock
      /\ UNCHANGED <<clock, twap, saved>>
  BY DEF TwapIInv, Post
<1>2. observing' = [at |-> "idle", t |-> observing.t]
  BY <1>1 DEF Post
<1>3. PostedIsTheArea'
  <2>1. CASE aggregate' = aggregate
    BY <2>1, PostedStays DEF TwapIInv
  <2>2. CASE aggregate' = [value |-> Max({twap.integral, 1}), t |-> twap.last,
                           late |-> twap.late, seen |-> twap.seen]
    <3>1. aggregate'.value = Max({twap.integral, 1}) /\ aggregate'.seen = twap.seen
      BY <2>2
    <3>2. LET drift == 2 * aggregate'.value * Scale - Area(aggregate'.seen, Scale)
          IN  /\ -((Duration + Len(aggregate'.seen) + 1) * Scale) <= drift
              /\ drift <= (Duration + 2) * Scale
      BY <1>1, <3>1, PostedOK
    <3> QED
      BY <3>2 DEF PostedIsTheArea, Scale
  <2> QED
    BY <2>1, <2>2 DEF Post
<1> QED
  BY <1>1, <1>2, <1>3 DEF TwapIInv

LEMMA TickKeeps ==
    ASSUME TwapIInv, ClockTicks
    PROVE  TwapIInv'
<1>1. /\ clock \in Nat /\ clock < WindowEnd /\ clock' = clock + 1 /\ WindowEnd \in Nat
      /\ observing.at \in {"idle", "failed"}
      /\ observing \in [at : {"idle", "filling", "done", "failed"}, t : Nat]
      /\ UNCHANGED <<twap, saved, observing, aggregate>>
  BY TwapConstants DEF TwapIInv, ClockTicks
<1>2. /\ saved # NoSeries => saved.last \in Nat /\ saved.last <= clock
      /\ twap # Unloaded => twap.last \in Nat /\ twap.last <= clock
      /\ observing.t \in Nat /\ observing.t <= clock
  BY <1>1, SeriesFields DEF TwapIInv
<1>3. /\ saved # NoSeries => saved.last <= clock'
      /\ twap # Unloaded => twap.last <= clock'
      /\ observing.t <= clock' /\ clock' \in Nat /\ clock' <= WindowEnd
  BY <1>1, <1>2
<1>4. PostedIsTheArea'
  BY <1>1, PostedStays DEF TwapIInv
<1> QED
  BY <1>1, <1>3, <1>4 DEF TwapIInv

LEMMA CrashKeeps ==
    ASSUME TwapIInv, TwapCrash
    PROVE  TwapIInv'
<1>1. /\ twap' = Unloaded /\ observing' = [at |-> "failed", t |-> clock]
      /\ UNCHANGED <<clock, saved, aggregate>> /\ clock \in Nat
  BY DEF TwapIInv, TwapCrash
<1>2. PostedIsTheArea'
  BY <1>1, PostedStays DEF TwapIInv
<1> QED
  BY <1>1, <1>2 DEF TwapIInv

LEMMA TwapInductive ==
    ASSUME TwapIInv, [TwapNext]_twapVars
    PROVE  TwapIInv'
<1>1. CASE \E p \in Prices : ObserveFirst(p) \/ ObserveLater(p)
  BY <1>1, FirstKeeps, LaterKeeps
<1>2. CASE FillFirst \/ ObserveAgain \/ Post \/ ClockTicks \/ TwapCrash
  BY <1>2, FillKeeps, AgainKeeps, PostKeeps, TickKeeps, CrashKeeps
<1>3. CASE UNCHANGED twapVars
  <2>1. UNCHANGED <<clock, twap, saved, observing, aggregate>>
    BY <1>3 DEF twapVars
  <2>2. PostedIsTheArea'
    BY <2>1, PostedStays DEF TwapIInv
  <2> QED
    BY <2>1, <2>2 DEF TwapIInv
<1> QED
  BY <1>1, <1>2, <1>3 DEF TwapNext

\* What is posted for an expiry is the area under the observations that were
\* kept, but for the fractions each division drops: for any prices, length of
\* the window and number of observations, failed saves and stops
\* (SettlementTwapTracker.observe, attachSettlementAggregates).
THEOREM PostsAreTheArea == TwapSpec => []PostedIsTheArea
<1>1. TwapInit => TwapIInv
  <2> SUFFICES ASSUME TwapInit PROVE TwapIInv
    OBVIOUS
  <2>1. /\ clock = 0 /\ twap = Unloaded /\ saved = NoSeries /\ aggregate = NothingPosted
        /\ observing = [at |-> "idle", t |-> 0]
    BY DEF TwapInit
  <2>2. PostedIsTheArea
    BY <2>1 DEF PostedIsTheArea
  <2> QED
    BY <2>1, <2>2, TwapConstants DEF TwapIInv
<1>2. TwapIInv /\ [TwapNext]_twapVars => TwapIInv'
  BY TwapInductive
<1>3. TwapIInv => PostedIsTheArea
  BY DEF TwapIInv
<1> QED
  BY <1>1, <1>2, <1>3, PTL DEF TwapSpec

=============================================================================
