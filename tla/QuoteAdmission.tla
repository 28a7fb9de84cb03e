--------------------------- MODULE QuoteAdmission ---------------------------
(***************************************************************************)
(* The market maker's admission of quotes: evaluateQuote (quote-engine.ts) *)
(* over a snapshot of the portfolio, and the compare-and-swap ledger that  *)
(* a quote's reservation must enter before the quote is sent               *)
(* (reservations.ts).  Several workers quote at once.  The coordinator     *)
(* that promotes a fill or releases a quote is external; so is the venue,  *)
(* where a maker has one standing quote per RFQ.                           *)
(*                                                                         *)
(* An exposure is the risk of one candidate as priced and stressed: delta, *)
(* vega in its expiry's bucket, and cash; the other measures are limited   *)
(* as cash is.  v0 buys calls only, so no delta is negative.               *)
(***************************************************************************)
EXTENDS Integers, FiniteSets, FiniteSetsExt

CONSTANTS
    Rfqs,
    Workers,
    Exposures,       \* [delta, vega, cash : Nat, bucket]
    Limits,          \* [delta, vega, bucketVega, cash, live]
    NoSlice,         \* no reservation, no confirmed position, no attempt
    MaxLedgerVersion \* bound: changes of the ledger

ASSUME AdmissionAssumption ==
    /\ \A e \in Exposures : e.delta \in Nat /\ e.vega \in Nat /\ e.cash \in Nat
    /\ Limits \in [delta : Nat, vega : Nat, bucketVega : Nat, cash : Nat, live : Nat]
    /\ IsFiniteSet(Rfqs)
    /\ NoSlice \notin Exposures /\ MaxLedgerVersion \in Nat

VARIABLES
    ledgerVersion,
    reserved,        \* reserved[r]: the reservation "rfq:r"
    confirmed,       \* confirmed[r]: the position r's fill gave
    attempts         \* attempts[w]: the decision a worker is taking

admissionVars == <<ledgerVersion, reserved, confirmed, attempts>>

-----------------------------------------------------------------------------
Taken(slices) == {r \in Rfqs : slices[r] # NoSlice}

\* One measure over the slices of some RFQs.
Measure(slices, of, dim) == MapThenSumSet(LAMBDA r : slices[r][dim], of)

\* evaluateRiskLimits: the confirmed positions in of, and the reservations in
\* and, exceed no limit.
WithinLimits(positions, of, slices, and) ==
    LET Total(dim) == Measure(positions, of, dim) + Measure(slices, and, dim)
        In(set, rows, b) == {r \in set : rows[r].bucket = b}
    IN  /\ Cardinality(and) <= Limits.live
        /\ \A dim \in {"delta", "vega", "cash"} : Total(dim) <= Limits[dim]
        /\ \A b \in {e.bucket : e \in Exposures} :
              Measure(positions, In(of, positions, b), "vega")
                + Measure(slices, In(and, slices, b), "vega") <= Limits.bucketVega

AdmissionInit ==
    /\ ledgerVersion = 0
    /\ reserved = [r \in Rfqs |-> NoSlice]
    /\ confirmed = [r \in Rfqs |-> NoSlice]
    /\ attempts = [w \in Workers |-> NoSlice]

\* A worker takes up an RFQ: ledger.snapshot and the portfolio with it.
Snapshot(w, r) ==
    /\ attempts[w] = NoSlice
    /\ confirmed[r] = NoSlice
    /\ attempts' = [attempts EXCEPT ![w] =
            [at |-> "snapshot", rfq |-> r, version |-> ledgerVersion,
             reserved |-> reserved, confirmed |-> confirmed]]
    /\ UNCHANGED <<ledgerVersion, reserved, confirmed>>

\* Mutant: the RFQ's own reservation is left in, the candidate out.
CandidateUncounted(a, e) == a.reserved

\* The live reservations with the candidate in the place of its RFQ's own.
Candidate(a, e) == [a.reserved EXCEPT ![a.rfq] = e]

\* evaluateQuote: the gates on policy, hedge operations, RFQ, market data,
\* hedge depth, margin and price pass or not; then the portfolio's limits.
Evaluate(w, e, gates) ==
    /\ attempts[w] # NoSlice /\ attempts[w].at = "snapshot"
    /\ LET a == attempts[w]
           slices == Candidate(a, e)
       IN  attempts' = [attempts EXCEPT ![w] =
               IF gates /\ WithinLimits(a.confirmed, Taken(a.confirmed), slices, Taken(slices))
               THEN [at |-> "quote", rfq |-> a.rfq, version |-> a.version, exposure |-> e]
               ELSE NoSlice]
    /\ UNCHANGED <<ledgerVersion, reserved, confirmed>>

\* tryApply's compare: the reservation's basedOnLedgerVersion is the same.
Applies(version) == version = ledgerVersion

\* UPSERT of the quote's reservation; on a conflict the quote is discarded.
Commit(w) ==
    /\ attempts[w] # NoSlice /\ attempts[w].at = "quote"
    /\ LET a == attempts[w]
       IN  IF Applies(a.version)
           THEN /\ ledgerVersion < MaxLedgerVersion
                /\ ledgerVersion' = ledgerVersion + 1
                /\ reserved' = [reserved EXCEPT ![a.rfq] = a.exposure]
           ELSE UNCHANGED <<ledgerVersion, reserved>>
    /\ attempts' = [attempts EXCEPT ![w] = NoSlice]
    /\ UNCHANGED confirmed

\* tryApply of a RELEASE
Removes(r) ==
    /\ reserved[r] # NoSlice
    /\ ledgerVersion < MaxLedgerVersion
    /\ ledgerVersion' = ledgerVersion + 1
    /\ reserved' = [reserved EXCEPT ![r] = NoSlice]

\* The quote can no longer be filled, and that is proven.
Release(r) == Removes(r) /\ UNCHANGED <<confirmed, attempts>>

\* A fill: its reservation becomes a confirmed position in one transaction.
Promote(r) ==
    /\ Removes(r)
    /\ confirmed' = [confirmed EXCEPT ![r] = reserved[r]]
    /\ UNCHANGED attempts

AdmissionNext ==
    \/ \E w \in Workers :
          \/ \E r \in Rfqs : Snapshot(w, r)
          \/ \E e \in Exposures, gates \in BOOLEAN : Evaluate(w, e, gates)
          \/ Commit(w)
    \/ \E r \in Rfqs : Release(r) \/ Promote(r)

AdmissionSpec == AdmissionInit /\ [][AdmissionNext]_admissionVars

-----------------------------------------------------------------------------
\* The ledger, the portfolio and the attempts have their types.
AdmissionTypeOK ==
    /\ ledgerVersion \in 0..MaxLedgerVersion
    /\ reserved \in [Rfqs -> Exposures \cup {NoSlice}]
    /\ confirmed \in [Rfqs -> Exposures \cup {NoSlice}]
    /\ \A w \in Workers : attempts[w] = NoSlice \/ attempts[w].version \in 0..ledgerVersion

\* Whichever of the standing quotes are filled, and however workers, fills and
\* releases interleave, no limit of the portfolio is exceeded: two quotes that
\* pass on the same snapshot do not both stand (tryApply, evaluateRiskLimits,
\* the replaced reservation of evaluateQuote).
AnyFillsWithinLimits ==
    \A filled \in SUBSET Taken(reserved) :
        WithinLimits(confirmed, Taken(confirmed), reserved, filled)
=============================================================================
