-------------------------- MODULE Services_proofs --------------------------
(***************************************************************************)
(* Proofs about what every engine stands on, its locks and its store, and  *)
(* about the services around the engine.                                   *)
(*                                                                         *)
(* The account lock (AccountLock) is a mutex per key, served in request    *)
(* order, for any number of calls and keys.  Among the runs requested for  *)
(* a key, the tail is the one with the latest ticket; a waiting run is     *)
(* chained after the run with the ticket just below its own; hence a run   *)
(* starts only when every run with an earlier ticket has settled.          *)
(*                                                                         *)
(* The journal (JsonlLog) is a map whose records only advance.  A file is  *)
(* torn for good, since no later append mends it (AppendsKeep); until then *)
(* an append changes the latest line of its own id only, so the file has   *)
(* what the index has or more (IndexIsInFile), and a crash loses nothing.  *)
(*                                                                         *)
(* The market maker's admission of quotes (QuoteAdmission): all standing   *)
(* quotes filled together exceed no limit (Fits).  A worker's decision was *)
(* taken on a snapshot; it is about the ledger as it is now only while the *)
(* ledger has the snapshot's version, so the invariant says of an attempt  *)
(* what its snapshot was or its quote would give just while that is so     *)
(* (AttemptOK), and every change of the ledger makes every attempt stale.  *)
(* No measure is negative, so whichever quotes are filled measure less     *)
(* than all of them (FewerFit), and a fill only moves its measures from    *)
(* the quotes to the positions (FilledFit).                                *)
(*                                                                         *)
(* The hedge (HedgePlanner): a plan rounds to within half a lot of its     *)
(* target and moves by a lot at least, so nothing on the way is further    *)
(* from the target than the start (NearestIsNear, OnTheWayIsNearer).       *)
(* Orders stay on the way whichever comes first, since only the second     *)
(* one of a crossing can take the position past zero (Filled).             *)
(*                                                                         *)
(* The maker channel (MakerSessions): supersession and naming are one      *)
(* step, hence one session (OneSession).  The replay is listed in the step *)
(* that names the session, so an auction is in it or is announced to the   *)
(* session afterwards; from then on every step that takes it from one      *)
(* place puts it into the next (Reached), unless it is over, and only then *)
(* is a closing message sent (ClosedIsTrue).                               *)
(*                                                                         *)
(* The preparation of a withdrawal (WithdrawalPrepare): the bisection finds*)
(* the most that passes (FindMaximumIsMost), so whole quanta up to the     *)
(* maximum are what is withdrawable (JudgedByTheMaximum).  A replaced      *)
(* block is none that was read, so what a request computed at its number   *)
(* is about its pin if the pin is there at the end (RequestOK); and only   *)
(* the first of the gate is past it, where it finds its key free.          *)
(*                                                                         *)
(* The directory (SubaccountDirectory): what a pass relies on lies under   *)
(* the confirmations, so no reorganisation within these moves it           *)
(* (ChainKeeps): the comparison at the start of a pass stays true until    *)
(* the pass has replaced or dropped the checkpoint.  The rows are always   *)
(* those of the first logs of the chain: a log newer than the row of its   *)
(* account is the next one, for the logs before it are in the rows or were *)
(* before it in the chunk, and one that is not newer is in the rows        *)
(* already (AppliesNext).                                                  *)
(***************************************************************************)
EXTENDS AccountLock, JsonlLog, QuoteAdmission, HedgePlanner, MakerSessions,
        WithdrawalPrepare, SubaccountDirectory, FiniteSums

-----------------------------------------------------------------------------
(* The account lock. *)

\* Tickets number the requests for a key.
TicketsOK(k) ==
    /\ \A j \in Jobs : Requested(j, k) => ticket[j][k] \in 1 .. issued[k]
    /\ \A i, j \in Jobs :
         (Requested(i, k) /\ Requested(j, k) /\ ticket[i][k] = ticket[j][k]) => i = j

\* The tail is the latest request; without a tail every request has settled.
TailOK(k) ==
    /\ tails[k] # NoJob => /\ Requested(tails[k], k)
                           /\ ticket[tails[k]][k] = issued[k]
    /\ tails[k] = NoJob => \A j \in Jobs : Requested(j, k) => Settled(j, k)

EarlierSettled(j, k) ==
    \A i \in Jobs : (Requested(i, k) /\ ticket[i][k] < ticket[j][k]) => Settled(i, k)

\* A waiting run is chained after the request just before its own.
ChainOK(k) ==
    \A j \in Jobs : st[j][k] = "waiting" =>
        /\ prev[j][k] = NoJob => EarlierSettled(j, k)
        /\ prev[j][k] # NoJob =>
             /\ Requested(prev[j][k], k)
             /\ ticket[prev[j][k]][k] < ticket[j][k]
             /\ \A i \in Jobs : (Requested(i, k) /\ ticket[i][k] < ticket[j][k])
                                    => ticket[i][k] <= ticket[prev[j][k]][k]

\* Whoever has started had nobody before it left.
ServedOK(k) ==
    \A j \in Jobs : st[j][k] \in {"held", "settled", "cleaned"} => EarlierSettled(j, k)

KeyOK(k) == TicketsOK(k) /\ TailOK(k) /\ ChainOK(k) /\ ServedOK(k)

LockIInv == LockTypeOK /\ \A k \in Keys : KeyOK(k)

-----------------------------------------------------------------------------
\* A step on one key leaves the invariant of every other key alone.
LEMMA OtherKeys ==
    ASSUME LockTypeOK, LockTypeOK', NEW k \in Keys, KeyOK(k),
           tails'[k] = tails[k], issued'[k] = issued[k],
           \A j \in Jobs : /\ st'[j][k] = st[j][k]
                           /\ prev'[j][k] = prev[j][k]
                           /\ ticket'[j][k] = ticket[j][k]
    PROVE  KeyOK(k)'
<1>1. TicketsOK(k)'
  BY DEF KeyOK, TicketsOK, Requested
<1>2. TailOK(k)'
  BY LockAssumption DEF KeyOK, TailOK, Requested, Settled, LockTypeOK
<1>3. ChainOK(k)'
  BY LockAssumption DEF KeyOK, ChainOK, EarlierSettled, Requested, Settled, LockTypeOK
<1>4. ServedOK(k)'
  BY DEF KeyOK, ServedOK, EarlierSettled, Requested, Settled
<1> QED
  BY <1>1, <1>2, <1>3, <1>4 DEF KeyOK

\* Initially nothing is requested.
LEMMA LockInitial == LockInit => LockIInv
<1> SUFFICES ASSUME LockInit PROVE LockIInv
  OBVIOUS
<1>1. LockTypeOK
  BY DEF LockInit, LockTypeOK, RunState
<1>2. ASSUME NEW k \in Keys PROVE KeyOK(k)
  BY <1>2 DEF LockInit, KeyOK, TicketsOK, TailOK, ChainOK, ServedOK, Requested
<1> QED
  BY <1>1, <1>2 DEF LockIInv

\* Types are kept by every step.
LEMMA LockTypes == LockTypeOK /\ [LockNext]_lockVars => LockTypeOK'
<1> SUFFICES ASSUME LockTypeOK, [LockNext]_lockVars PROVE LockTypeOK'
  OBVIOUS
<1> USE DEF LockTypeOK, RunState
<1>1. ASSUME NEW j \in Jobs, NEW k \in Keys, Request(j, k) PROVE LockTypeOK'
  BY <1>1 DEF Request
<1>2. ASSUME NEW j \in Jobs, NEW k \in Keys, Acquire(j, k) PROVE LockTypeOK'
  BY <1>2 DEF Acquire
<1>3. ASSUME NEW j \in Jobs, NEW k \in Keys, Settle(j, k) PROVE LockTypeOK'
  BY <1>3 DEF Settle
<1>4. ASSUME NEW j \in Jobs, NEW k \in Keys, Cleanup(j, k) PROVE LockTypeOK'
  BY <1>4 DEF Cleanup, TailAfter
<1>5. CASE UNCHANGED lockVars
  BY <1>5 DEF lockVars
<1> QED
  BY <1>1, <1>2, <1>3, <1>4, <1>5 DEF LockNext, LockStep, AllFinished

\* A request: the new run has the latest ticket and is chained after the tail.
LEMMA RequestKeeps ==
    ASSUME LockIInv, LockTypeOK', NEW j \in Jobs, NEW k \in Keys, Request(j, k)
    PROVE  KeyOK(k)'
<1>0. KeyOK(k) /\ LockTypeOK
  BY DEF LockIInv
<1>t. /\ issued[k] \in Nat /\ tails[k] \in Jobs \cup {NoJob} /\ NoJob \notin Jobs
      /\ \A i \in Jobs : ticket[i][k] \in Nat /\ prev[i][k] \in Jobs \cup {NoJob}
  BY <1>0, LockAssumption DEF LockTypeOK
<1>a. /\ st[j][k] = "none" /\ st'[j][k] = "waiting"
      /\ ticket'[j][k] = issued[k] + 1 /\ issued'[k] = issued[k] + 1
      /\ prev'[j][k] = tails[k] /\ tails'[k] = j
  BY <1>0 DEF Request, LockTypeOK
<1>b. \A i \in Jobs : i # j => /\ st'[i][k] = st[i][k]
                              /\ ticket'[i][k] = ticket[i][k]
                              /\ prev'[i][k] = prev[i][k]
  BY <1>0 DEF Request, LockTypeOK
<1>c. \A i \in Jobs : Requested(i, k) => i # j /\ ticket[i][k] \in 1 .. issued[k]
  BY <1>0, <1>a DEF KeyOK, TicketsOK, Requested
<1>d. \A i \in Jobs : Requested(i, k)' <=> i = j \/ Requested(i, k)
  BY <1>a, <1>b DEF Requested
<1>1. TicketsOK(k)'
  <2>1. ASSUME NEW i \in Jobs, Requested(i, k)' PROVE ticket'[i][k] \in 1 .. issued'[k]
    BY <1>t, <1>a, <1>b, <1>c, <1>d, <2>1
  <2>2. ASSUME NEW i \in Jobs, NEW m \in Jobs, Requested(i, k)', Requested(m, k)',
               ticket'[i][k] = ticket'[m][k]
        PROVE  i = m
    <3>1. ASSUME NEW x \in Jobs, x # j, Requested(x, k)' PROVE ticket'[x][k] # ticket'[j][k]
      BY <1>t, <1>a, <1>b, <1>c, <1>d, <3>1
    <3>2. CASE i # j /\ m # j
      BY <1>0, <1>b, <1>d, <2>2, <3>2 DEF KeyOK, TicketsOK
    <3> QED
      BY <2>2, <3>1, <3>2
  <2> QED
    BY <2>1, <2>2 DEF TicketsOK
<1>2. TailOK(k)'
  BY <1>t, <1>a DEF TailOK, Requested
<1>e. \A i \in Jobs : Settled(i, k)' <=> Settled(i, k)
  BY <1>a, <1>b DEF Settled
<1>f. \A i \in Jobs : Requested(i, k) => (EarlierSettled(i, k)' <=> EarlierSettled(i, k))
  BY <1>t, <1>a, <1>b, <1>c, <1>d, <1>e DEF EarlierSettled
<1>3. ChainOK(k)'
  <2>1. ASSUME tails[k] = NoJob PROVE EarlierSettled(j, k)'
    BY <1>0, <1>t, <1>a, <1>d, <1>e, <2>1 DEF KeyOK, TailOK, EarlierSettled
  <2>2. ASSUME tails[k] # NoJob
        PROVE  /\ st'[tails[k]][k] # "none" /\ tails[k] # j /\ tails[k] \in Jobs
               /\ ticket'[tails[k]][k] = issued[k]
    BY <1>0, <1>t, <1>a, <1>b, <1>c, <2>2 DEF KeyOK, TailOK, Requested
  <2>3. ASSUME tails[k] # NoJob, NEW m \in Jobs, Requested(m, k)', ticket'[m][k] < ticket'[j][k]
        PROVE  ticket'[m][k] <= ticket'[tails[k]][k]
    BY <1>t, <1>a, <1>b, <1>c, <1>d, <2>2, <2>3
  <2>4. ASSUME NEW i \in Jobs, i # j, st'[i][k] = "waiting"
        PROVE  /\ prev'[i][k] = NoJob => EarlierSettled(i, k)'
               /\ prev'[i][k] # NoJob =>
                    /\ st'[prev'[i][k]][k] # "none"
                    /\ ticket'[prev'[i][k]][k] < ticket'[i][k]
                    /\ \A m \in Jobs : (Requested(m, k)' /\ ticket'[m][k] < ticket'[i][k])
                                           => ticket'[m][k] <= ticket'[prev'[i][k]][k]
    <3>1. st[i][k] = "waiting" /\ Requested(i, k) /\ prev'[i][k] = prev[i][k]
      BY <1>b, <2>4 DEF Requested
    <3>2. prev[i][k] # NoJob => /\ prev[i][k] \in Jobs /\ prev[i][k] # j
                                /\ Requested(prev[i][k], k)
                                /\ ticket[prev[i][k]][k] < ticket[i][k]
      BY <1>0, <1>t, <1>c, <3>1 DEF KeyOK, ChainOK
    <3>3. ASSUME NEW m \in Jobs, Requested(m, k)', ticket'[m][k] < ticket'[i][k], prev[i][k] # NoJob
          PROVE  ticket'[m][k] <= ticket'[prev[i][k]][k]
      <4>1. m # j
        BY <1>t, <1>a, <1>b, <1>c, <2>4, <3>1, <3>3
      <4>2. Requested(m, k) /\ ticket'[m][k] = ticket[m][k] /\ ticket'[i][k] = ticket[i][k]
        BY <1>b, <1>d, <2>4, <3>3, <4>1
      <4>3. ticket[m][k] <= ticket[prev[i][k]][k]
        BY <1>0, <3>1, <3>3, <4>2 DEF KeyOK, ChainOK
      <4> QED
        BY <1>b, <3>2, <3>3, <4>2, <4>3
    <3>4. prev[i][k] = NoJob => EarlierSettled(i, k)'
      BY <1>0, <1>f, <3>1 DEF KeyOK, ChainOK
    <3>5. prev[i][k] # NoJob => /\ st'[prev[i][k]][k] # "none"
                                /\ ticket'[prev[i][k]][k] < ticket'[i][k]
      BY <1>b, <2>4, <3>2 DEF Requested
    <3> QED
      BY <3>1, <3>3, <3>4, <3>5
  <2> QED
    BY <1>a, <1>t, <2>1, <2>2, <2>3, <2>4 DEF ChainOK, Requested
<1>4. ServedOK(k)'
  BY <1>0, <1>a, <1>b, <1>f DEF KeyOK, ServedOK, Requested
<1> QED
  BY <1>1, <1>2, <1>3, <1>4 DEF KeyOK

\* A run that starts: its predecessor has settled, and with it all before.
LEMMA AcquireKeeps ==
    ASSUME LockIInv, NEW j \in Jobs, NEW k \in Keys, Acquire(j, k)
    PROVE  KeyOK(k)'
<1>0. KeyOK(k) /\ LockTypeOK
  BY DEF LockIInv
<1>t. /\ issued[k] \in Nat /\ tails[k] \in Jobs \cup {NoJob} /\ NoJob \notin Jobs
      /\ \A i \in Jobs : ticket[i][k] \in Nat /\ prev[i][k] \in Jobs \cup {NoJob}
  BY <1>0, LockAssumption DEF LockTypeOK
<1>a. st[j][k] = "waiting" /\ st'[j][k] = "held" /\ UNCHANGED <<tails, prev, ticket, issued>>
  BY <1>0 DEF Acquire, LockTypeOK
<1>b. \A i \in Jobs : i # j => st'[i][k] = st[i][k]
  BY <1>0 DEF Acquire, LockTypeOK
<1>c. \A i \in Jobs : /\ Requested(i, k)' <=> Requested(i, k)
                      /\ Settled(i, k)' <=> Settled(i, k)
                      /\ EarlierSettled(i, k)' <=> EarlierSettled(i, k)
  BY <1>a, <1>b DEF Requested, Settled, EarlierSettled
<1>d. EarlierSettled(j, k)
  <2>1. CASE prev[j][k] = NoJob
    BY <1>0, <1>a, <2>1 DEF KeyOK, ChainOK
  <2>2. CASE prev[j][k] # NoJob
    <3> DEFINE p == prev[j][k]
    <3>1. p \in Jobs /\ Settled(p, k) /\ Requested(p, k)
      BY <1>0, <1>t, <1>a, <2>2 DEF KeyOK, ChainOK, Acquire, PreviousSettled
    <3>2. EarlierSettled(p, k)
      BY <1>0, <3>1 DEF KeyOK, ServedOK, Settled
    <3>3. SUFFICES ASSUME NEW i \in Jobs, Requested(i, k), ticket[i][k] < ticket[j][k]
                   PROVE  Settled(i, k)
      BY DEF EarlierSettled
    <3>4. ticket[i][k] <= ticket[p][k]
      BY <1>0, <1>a, <2>2, <3>3 DEF KeyOK, ChainOK
    <3>5. CASE ticket[i][k] = ticket[p][k]
      BY <1>0, <3>1, <3>3, <3>5 DEF KeyOK, TicketsOK
    <3>6. CASE ticket[i][k] < ticket[p][k]
      BY <3>1, <3>2, <3>3, <3>6 DEF EarlierSettled
    <3> QED
      BY <1>t, <3>1, <3>4, <3>5, <3>6
  <2> QED
    BY <2>1, <2>2
<1>1. TicketsOK(k)'
  BY <1>0, <1>a, <1>c DEF KeyOK, TicketsOK
<1>2. TailOK(k)'
  BY <1>0, <1>t, <1>a, <1>c DEF KeyOK, TailOK
<1>3. ChainOK(k)'
  BY <1>0, <1>t, <1>a, <1>b, <1>c DEF KeyOK, ChainOK
<1>4. ServedOK(k)'
  BY <1>0, <1>b, <1>c, <1>d DEF KeyOK, ServedOK
<1> QED
  BY <1>1, <1>2, <1>3, <1>4 DEF KeyOK

\* A run that settles only adds to what has settled.
LEMMA SettleKeeps ==
    ASSUME LockIInv, NEW j \in Jobs, NEW k \in Keys, Settle(j, k)
    PROVE  KeyOK(k)'
<1>0. KeyOK(k) /\ LockTypeOK
  BY DEF LockIInv
<1>t. tails[k] \in Jobs \cup {NoJob} /\ NoJob \notin Jobs
      /\ \A i \in Jobs : prev[i][k] \in Jobs \cup {NoJob}
  BY <1>0, LockAssumption DEF LockTypeOK
<1>a. st[j][k] = "held" /\ st'[j][k] = "settled" /\ UNCHANGED <<tails, prev, ticket, issued>>
  BY <1>0 DEF Settle, LockTypeOK
<1>b. \A i \in Jobs : i # j => st'[i][k] = st[i][k]
  BY <1>0 DEF Settle, LockTypeOK
<1>c. \A i \in Jobs : /\ Requested(i, k)' <=> Requested(i, k)
                      /\ Settled(i, k) => Settled(i, k)'
  BY <1>a, <1>b DEF Requested, Settled
<1>d. \A i \in Jobs : EarlierSettled(i, k) => EarlierSettled(i, k)'
  BY <1>a, <1>c DEF EarlierSettled
<1>1. TicketsOK(k)'
  BY <1>0, <1>a, <1>c DEF KeyOK, TicketsOK
<1>2. TailOK(k)'
  BY <1>0, <1>t, <1>a, <1>c DEF KeyOK, TailOK
<1>3. ChainOK(k)'
  BY <1>0, <1>t, <1>a, <1>b, <1>c, <1>d DEF KeyOK, ChainOK
<1>4. ServedOK(k)'
  BY <1>0, <1>a, <1>b, <1>d DEF KeyOK, ServedOK
<1> QED
  BY <1>1, <1>2, <1>3, <1>4 DEF KeyOK

\* The tail is removed only by the latest request, and after it has settled.
LEMMA CleanupKeeps ==
    ASSUME LockIInv, NEW j \in Jobs, NEW k \in Keys, Cleanup(j, k)
    PROVE  KeyOK(k)'
<1>0. KeyOK(k) /\ LockTypeOK
  BY DEF LockIInv
<1>t. /\ issued[k] \in Nat /\ tails[k] \in Jobs \cup {NoJob} /\ NoJob \notin Jobs
      /\ \A i \in Jobs : ticket[i][k] \in Nat /\ prev[i][k] \in Jobs \cup {NoJob}
  BY <1>0, LockAssumption DEF LockTypeOK
<1>a. /\ st[j][k] = "settled" /\ st'[j][k] = "cleaned" /\ UNCHANGED <<prev, ticket, issued>>
      /\ tails'[k] = IF tails[k] = j THEN NoJob ELSE tails[k]
  BY <1>0 DEF Cleanup, LockTypeOK, TailAfter
<1>b. \A i \in Jobs : i # j => st'[i][k] = st[i][k]
  BY <1>0 DEF Cleanup, LockTypeOK
<1>c. \A i \in Jobs : /\ Requested(i, k)' <=> Requested(i, k)
                      /\ Settled(i, k)' <=> Settled(i, k)
                      /\ EarlierSettled(i, k)' <=> EarlierSettled(i, k)
  BY <1>a, <1>b DEF Requested, Settled, EarlierSettled
<1>1. TicketsOK(k)'
  BY <1>0, <1>a, <1>c DEF KeyOK, TicketsOK
<1>2. TailOK(k)'
  <2>1. CASE tails[k] # j
    BY <1>0, <1>t, <1>a, <1>c, <2>1 DEF KeyOK, TailOK
  <2>2. CASE tails[k] = j
    <3>1. ticket[j][k] = issued[k] /\ EarlierSettled(j, k)
      BY <1>0, <1>t, <1>a, <2>2 DEF KeyOK, TailOK, ServedOK
    <3>2. ASSUME NEW i \in Jobs, Requested(i, k) PROVE Settled(i, k)
      <4>1. ticket[i][k] \in 1 .. issued[k]
        BY <1>0, <3>2 DEF KeyOK, TicketsOK
      <4>2. CASE ticket[i][k] = issued[k]
        <5>1. i = j
          BY <1>0, <1>a, <3>1, <3>2, <4>2 DEF KeyOK, TicketsOK, Requested
        <5> QED
          BY <1>a, <5>1 DEF Settled
      <4>3. CASE ticket[i][k] < ticket[j][k]
        BY <3>1, <3>2, <4>3 DEF EarlierSettled
      <4> QED
        BY <1>t, <3>1, <4>1, <4>2, <4>3
    <3> QED
      BY <1>a, <1>c, <2>2, <3>2 DEF TailOK
  <2> QED
    BY <2>1, <2>2
<1>3. ChainOK(k)'
  BY <1>0, <1>t, <1>a, <1>b, <1>c DEF KeyOK, ChainOK
<1>4. ServedOK(k)'
  BY <1>0, <1>a, <1>b, <1>c DEF KeyOK, ServedOK
<1> QED
  BY <1>1, <1>2, <1>3, <1>4 DEF KeyOK

-----------------------------------------------------------------------------
\* Every step of the lock keeps its invariant.
LEMMA LockStepKeeps == LockIInv /\ [LockNext]_lockVars => LockIInv'
<1> SUFFICES ASSUME LockIInv, [LockNext]_lockVars PROVE LockIInv'
  OBVIOUS
<1>1. LockTypeOK /\ LockTypeOK'
  BY LockTypes DEF LockIInv
<1>2. ASSUME NEW j \in Jobs, NEW k \in Keys, LockStep(j, k) PROVE \A m \in Keys : KeyOK(m)'
  <2>1. KeyOK(k)'
    BY <1>1, <1>2, RequestKeeps, AcquireKeeps, SettleKeeps, CleanupKeeps DEF LockStep
  <2>2. ASSUME NEW m \in Keys, m # k PROVE KeyOK(m)'
    <3>1. /\ tails'[m] = tails[m] /\ issued'[m] = issued[m]
          /\ \A i \in Jobs : /\ st'[i][m] = st[i][m]
                             /\ prev'[i][m] = prev[i][m]
                             /\ ticket'[i][m] = ticket[i][m]
      BY <1>1, <1>2, <2>2
         DEF LockStep, Request, Acquire, Settle, Cleanup, LockTypeOK
    <3> QED
      BY <1>1, <3>1, OtherKeys DEF LockIInv
  <2> QED
    BY <2>1, <2>2
<1>3. CASE UNCHANGED lockVars
  <2>1. ASSUME NEW m \in Keys PROVE KeyOK(m)'
    BY <1>1, <1>3, OtherKeys DEF LockIInv, lockVars
  <2> QED
    BY <1>1, <2>1 DEF LockIInv
<1> QED
  BY <1>1, <1>2, <1>3 DEF LockNext, AllFinished, LockIInv

\* The invariant above holds in every state of the lock.
THEOREM LockInvariant == LockSpec => []LockIInv
BY LockInitial, LockStepKeeps, PTL DEF LockSpec

\* The lock's map, runs and tickets keep their types.
THEOREM LockTypeCorrect == LockSpec => []LockTypeOK
<1>1. LockIInv => LockTypeOK
  BY DEF LockIInv
<1> QED
  BY <1>1, LockInvariant, PTL

\* The invariant has the two safety properties of the lock as parts.
LEMMA InvariantServes == LockIInv => MutualExclusion /\ FirstComeFirstServed
<1> SUFFICES ASSUME LockIInv PROVE MutualExclusion /\ FirstComeFirstServed
  OBVIOUS
<1>1. ASSUME NEW k \in Keys, NEW i \in Jobs, NEW j \in Jobs,
             st[i][k] = "held", st[j][k] = "held"
      PROVE  i = j
  <2>1. ticket[i][k] \in Nat /\ ticket[j][k] \in Nat
    BY DEF LockIInv, LockTypeOK
  <2>2. EarlierSettled(i, k) /\ EarlierSettled(j, k) /\ Requested(i, k) /\ Requested(j, k)
    BY <1>1 DEF LockIInv, KeyOK, ServedOK, Requested
  <2>3. ticket[i][k] = ticket[j][k]
    BY <1>1, <2>1, <2>2 DEF EarlierSettled, Settled
  <2> QED
    BY <2>2, <2>3 DEF LockIInv, KeyOK, TicketsOK
<1>2. FirstComeFirstServed
  BY DEF LockIInv, KeyOK, ServedOK, EarlierSettled, FirstComeFirstServed
<1> QED
  BY <1>1, <1>2 DEF MutualExclusion

\* No two calls run under one key at once (account-lock.ts runOne).
THEOREM LockMutualExclusion == LockSpec => []MutualExclusion
BY LockInvariant, InvariantServes, PTL

\* A key is served in the order in which it was asked for.
THEOREM LockServesInOrder == LockSpec => []FirstComeFirstServed
BY LockInvariant, InvariantServes, PTL

-----------------------------------------------------------------------------
Held(j, k) == st[j][k] = "held"

\* While a run has a key, it is the holder the abstract mutex sees ...
LEMMA HolderIs ==
    ASSUME MutualExclusion, NEW k \in Keys
    PROVE  /\ \A j \in Jobs : Held(j, k) => HolderOf(k) = j
           /\ (\A j \in Jobs : ~Held(j, k)) => HolderOf(k) = NoJob
BY DEF MutualExclusion, HolderOf, Held

\* ... and after a step too.
LEMMA HolderIsNext ==
    ASSUME MutualExclusion', NEW k \in Keys
    PROVE  /\ \A j \in Jobs : Held(j, k)' => HolderOf(k)' = j
           /\ (\A j \in Jobs : ~Held(j, k)') => HolderOf(k)' = NoJob
BY DEF MutualExclusion, HolderOf, Held

\* Who holds a key changes only with who has started and not yet settled.
LEMMA SameHolder ==
    ASSUME MutualExclusion, MutualExclusion', NEW k \in Keys,
           \A j \in Jobs : Held(j, k)' <=> Held(j, k)
    PROVE  HolderOf(k)' = HolderOf(k)
<1>1. CASE \E j \in Jobs : Held(j, k)
  BY <1>1, HolderIs, HolderIsNext
<1>2. CASE \A j \in Jobs : ~Held(j, k)
  BY <1>2, HolderIs, HolderIsNext
<1> QED
  BY <1>1, <1>2

\* Every step of the lock is a step of the key's mutex, or none.
LEMMA LockStepRefines ==
    LockIInv /\ LockIInv' /\ [LockNext]_lockVars
        => [Abstract!MutexNext]_([k \in Keys |-> HolderOf(k)])
<1> SUFFICES ASSUME LockIInv, LockIInv', [LockNext]_lockVars
             PROVE  [Abstract!MutexNext]_([k \in Keys |-> HolderOf(k)])
  OBVIOUS
<1> DEFINE holder == [k \in Keys |-> HolderOf(k)]
<1>0. MutualExclusion /\ MutualExclusion' /\ LockTypeOK
  <2>1. MutualExclusion /\ LockTypeOK
    BY InvariantServes DEF LockIInv
  <2>2. MutualExclusion'
    BY InvariantServes, PTL
  <2> QED
    BY <2>1, <2>2
<1>1. ASSUME \A j \in Jobs, k \in Keys : Held(j, k)' <=> Held(j, k)
      PROVE  holder' = holder
  BY <1>0, <1>1, SameHolder
<1>2. ASSUME NEW j \in Jobs, NEW k \in Keys, Request(j, k) \/ Cleanup(j, k)
      PROVE  holder' = holder
  <2>1. \A i \in Jobs, m \in Keys : Held(i, m)' <=> Held(i, m)
    BY <1>0, <1>2 DEF Request, Cleanup, Held, LockTypeOK
  <2> QED
    BY <1>1, <2>1
<1>3. ASSUME NEW j \in Jobs, NEW k \in Keys, Acquire(j, k)
      PROVE  Abstract!Take(j, k)
  <2>1. Held(j, k)' /\ ~Held(j, k)
    BY <1>0, <1>3 DEF Acquire, Held, LockTypeOK
  <2>2. \A i \in Jobs, m \in Keys : (i # j \/ m # k) => (Held(i, m)' <=> Held(i, m))
    BY <1>0, <1>3 DEF Acquire, Held, LockTypeOK
  <2>3. \A i \in Jobs : ~Held(i, k)
    BY <1>0, <2>1, <2>2 DEF MutualExclusion, Held
  <2>4. HolderOf(k) = NoJob /\ HolderOf(k)' = j
    BY <1>0, <2>1, <2>3, HolderIs, HolderIsNext
  <2>5. \A m \in Keys : m # k => HolderOf(m)' = HolderOf(m)
    BY <1>0, <2>2, SameHolder
  <2>6. holder' = [holder EXCEPT ![k] = j]
    BY <2>4, <2>5
  <2> QED
    BY <2>4, <2>6 DEF Abstract!Take
<1>4. ASSUME NEW j \in Jobs, NEW k \in Keys, Settle(j, k)
      PROVE  Abstract!Give(j, k)
  <2>1. Held(j, k) /\ ~Held(j, k)'
    BY <1>0, <1>4 DEF Settle, Held, LockTypeOK
  <2>2. \A i \in Jobs, m \in Keys : (i # j \/ m # k) => (Held(i, m)' <=> Held(i, m))
    BY <1>0, <1>4 DEF Settle, Held, LockTypeOK
  <2>3. \A i \in Jobs : ~Held(i, k)'
    BY <1>0, <2>1, <2>2 DEF MutualExclusion, Held
  <2>4. HolderOf(k) = j /\ HolderOf(k)' = NoJob
    BY <1>0, <2>1, <2>3, HolderIs, HolderIsNext
  <2>5. \A m \in Keys : m # k => HolderOf(m)' = HolderOf(m)
    BY <1>0, <2>2, SameHolder
  <2>6. holder' = [holder EXCEPT ![k] = NoJob]
    BY <2>4, <2>5
  <2> QED
    BY <2>4, <2>6 DEF Abstract!Give
<1>5. CASE UNCHANGED lockVars
  BY <1>1, <1>5 DEF Held, lockVars
<1> QED
  BY <1>2, <1>3, <1>4, <1>5 DEF LockNext, LockStep, AllFinished, Abstract!MutexNext

\* The promise map of account-lock.ts implements one abstract mutex per key.
THEOREM LockRefinesKeyedMutex == LockSpec => ImplementsKeyedMutex
<1>1. LockInit => Abstract!MutexInit
  BY DEF LockInit, Abstract!MutexInit, HolderOf
<1> QED
  BY <1>1, LockInvariant, LockStepRefines, PTL
     DEF LockSpec, ImplementsKeyedMutex, Abstract!MutexSpec

-----------------------------------------------------------------------------
(* The journal. *)

Records == {Record(id, n) : id \in Ids, n \in 1..MaxPuts}

\* The file as load() reads it: its lines, then what follows the last newline.
File == Append(lines, tail)

LogTypeOK ==
    /\ lines \in Seq(Records \cup {Junk}) /\ tail \in Records \cup {Junk, NoTail}
    /\ index \in [Ids -> Nat] /\ tried \in [Ids -> 0..MaxPuts]
    /\ up \in BOOLEAN

\* Every record in the file or in the index is of a put that was begun.
OnlyBegun ==
    /\ \A i \in DOMAIN File : File[i] \in Records => File[i].put <= tried[File[i].id]
    /\ \A id \in Ids : index[id] <= tried[id]

\* In a file that is not torn a restart finds what the index has, or more.
IndexIsInFile == up /\ ~Torn => \A id \in Ids : index[id] <= Replay(id)

\* The inductive invariant.
LogIInv == LogTypeOK /\ OnlyBegun /\ IndexIsInFile

\* The lines of id in a file, and its latest.
LinesOf(file, id) == {i \in DOMAIN file : Whole(file[i]) /\ file[i].id = id}

Latest(file, id) ==
    IF LinesOf(file, id) = {} THEN 0 ELSE file[Max(LinesOf(file, id))].put

\* The markers are no records, and a record is known by its id and its put.
LEMMA RecordFacts ==
    /\ Junk \notin Records /\ NoTail \notin Records /\ Junk # NoTail
    /\ MaxPuts \in Nat
    /\ \A r \in Records : Whole(r) /\ r.id \in Ids /\ r.put \in 1..MaxPuts
    /\ \A id, n : Record(id, n).id = id /\ Record(id, n).put = n
<1>1. ASSUME NEW id \in Ids, NEW n \in 1..MaxPuts
      PROVE  Record(id, n) # Junk /\ Record(id, n) # NoTail
  <2>1. {Junk, NoTail} \cap {[id |-> id, put |-> n]} = {}
    BY JsonlAssumption
  <2> QED
    BY <2>1 DEF Record
<1>2. \A r \in Records : Whole(r)
  BY <1>1 DEF Records, Whole
<1>3. \A id, n : Record(id, n).id = id /\ Record(id, n).put = n
  BY DEF Record
<1>4. \A r \in Records : r.id \in Ids /\ r.put \in 1..MaxPuts
  BY <1>3 DEF Records
<1> QED
  BY <1>1, <1>2, <1>3, <1>4, JsonlAssumption DEF Records

\* The lines of id in a file are finitely many numbers, with a last one.
LEMMA LinesHaveLast ==
    ASSUME NEW file \in Seq(Records \cup {Junk, NoTail}), NEW id
    PROVE  /\ LinesOf(file, id) \subseteq Nat
           /\ LinesOf(file, id) # {} =>
                /\ Max(LinesOf(file, id)) \in LinesOf(file, id)
                /\ \A i \in LinesOf(file, id) : i <= Max(LinesOf(file, id))
<1> DEFINE L == LinesOf(file, id)
<1>1. PICK n \in Nat : n = Len(file)
  OBVIOUS
<1>2. L \subseteq 1..n
  BY <1>1 DEF LinesOf
<1>3. IsFiniteSet(L)
  <2>1. IsFiniteSet(1..n)
    BY FS_Interval
  <2> HIDE DEF L
  <2> QED BY <1>2, <2>1, FS_Subset
<1>4. L \subseteq Nat
  BY <1>2
<1> HIDE DEF L
<1>5. L # {} => \E x \in L : \A y \in L : x >= y
  BY <1>3, <1>4, HasGreatest
<1>6. L # {} => Max(L) \in L /\ \A y \in L : Max(L) >= y
  BY <1>5 DEF Max
<1> QED
  BY <1>4, <1>6 DEF L

\* The latest line of id is one of its lines, at the last place.
LEMMA LatestIs ==
    ASSUME NEW file \in Seq(Records \cup {Junk, NoTail}), NEW id
    PROVE  /\ LinesOf(file, id) = {} => Latest(file, id) = 0
           /\ LinesOf(file, id) # {} => \E k \in LinesOf(file, id) :
                   /\ \A i \in LinesOf(file, id) : i <= k
                   /\ Latest(file, id) = file[k].put
BY LinesHaveLast DEF Latest

\* A record of id with none after it is the latest.
LEMMA LastIsLatest ==
    ASSUME NEW file \in Seq(Records \cup {Junk, NoTail}), NEW id, NEW k \in LinesOf(file, id),
           \A i \in LinesOf(file, id) : i <= k
    PROVE  Latest(file, id) = file[k].put
<1>1. LinesOf(file, id) \subseteq Nat
  BY DEF LinesOf
<1>2. PICK l \in LinesOf(file, id) : /\ \A i \in LinesOf(file, id) : i <= l
                                     /\ Latest(file, id) = file[l].put
  BY LatestIs
<1>3. l = k
  BY <1>1, <1>2
<1> QED
  BY <1>2, <1>3

\* The latest line of id depends on its lines only.
LEMMA SameLatest ==
    ASSUME NEW f, NEW g, NEW id, LinesOf(f, id) = LinesOf(g, id),
           \A i \in LinesOf(f, id) : f[i] = g[i],
           f \in Seq(Records \cup {Junk, NoTail})
    PROVE  Latest(f, id) = Latest(g, id)
BY LinesHaveLast DEF Latest

\* load() finds the latest line of each id, now and after a step.
LEMMA ReplayIsLatest ==
    \A id : Replay(id) = Latest(File, id) /\ Replay(id)' = Latest(File', id)
BY DEF Replay, Latest, LinesOf, File, Whole

-----------------------------------------------------------------------------
\* What an append of a record leaves, whatever the file ends in: the same
\* lines, and the record if the file was not torn and the line is whole.
LEMMA AppendsKeep ==
    ASSUME LogTypeOK, NEW id \in Ids, NEW n \in 1..MaxPuts, NEW left \in Leftover,
           Appends(Record(id, n), left)
    PROVE  /\ lines' \in Seq(Records \cup {Junk}) /\ tail' \in Records \cup {Junk, NoTail}
           /\ \A i \in DOMAIN File' : File'[i] \in Records =>
                 \/ File'[i] = Record(id, n)
                 \/ i \in DOMAIN File /\ File'[i] = File[i]
           /\ ~Torn' => ~Torn
           /\ ~Torn => /\ \A o \in Ids : o # id => Replay(o)' = Replay(o)
                       /\ Replay(id)' = IF left \in {"unterminated", "line"} THEN n
                                        ELSE Replay(id)
<1> DEFINE r == Record(id, n)
           N == Len(lines)
<1>t. /\ lines \in Seq(Records \cup {Junk}) /\ tail \in Records \cup {Junk, NoTail}
      /\ r \in Records /\ r.id = id /\ r.put = n /\ Whole(r)
      /\ Glued(r) \in Records \cup {Junk}
      /\ N \in Nat /\ DOMAIN lines = 1..N
  BY RecordFacts DEF LogTypeOK, Records, Glued
<1>l. lines' = IF left = "line" THEN Append(lines, Glued(r)) ELSE lines
  BY DEF Appends
<1>n. /\ left = "none" => tail' = tail
      /\ left = "part" => tail' = Junk
      /\ left = "unterminated" => tail' = Glued(r)
      /\ left = "line" => tail' = NoTail
  BY DEF Appends
<1>c. left \in {"none", "part", "unterminated", "line"}
  BY DEF Leftover
<1> HIDE DEF r
<1>1. lines' \in Seq(Records \cup {Junk}) /\ tail' \in Records \cup {Junk, NoTail}
  <2>1. Append(lines, Glued(r)) \in Seq(Records \cup {Junk})
    BY <1>t
  <2> QED
    BY <1>t, <1>l, <1>n, <1>c, <2>1
<1>f. /\ File \in Seq(Records \cup {Junk, NoTail}) /\ DOMAIN File = 1..N + 1
      /\ \A i \in 1..N : File[i] = lines[i]
      /\ File[N + 1] = tail
  BY <1>t DEF File
<1>g. CASE left # "line"
  <2>1. /\ File' \in Seq(Records \cup {Junk, NoTail}) /\ DOMAIN File' = 1..N + 1
        /\ \A i \in 1..N : File'[i] = lines[i]
        /\ File'[N + 1] = tail'
    BY <1>t, <1>1, <1>l, <1>g DEF File
  <2>2. \A i \in DOMAIN File' : File'[i] \in Records =>
                 \/ File'[i] = r
                 \/ i \in DOMAIN File /\ File'[i] = File[i]
    <3>1. tail' \in {tail, Junk, r}
      BY <1>n, <1>c, <1>g DEF Glued
    <3> QED
      BY <1>t, <1>f, <2>1, <3>1, RecordFacts
  <2>3. ~Torn' => ~Torn
    <3>1. ToSet(lines') = ToSet(lines)
      BY <1>l, <1>g
    <3>2. left \in {"part", "unterminated"} => tail' # NoTail
      BY <1>t, <1>n, RecordFacts DEF Glued
    <3> QED
      BY <3>1, <3>2, <1>n, <1>c, <1>g DEF Torn
  <2>4. ASSUME ~Torn PROVE tail = NoTail /\ Glued(r) = r
    BY <2>4 DEF Torn, Glued
  <2>5. ASSUME ~Torn, NEW o \in Ids, o # id \/ left # "unterminated"
        PROVE  Replay(o)' = Replay(o)
    <3>1. N + 1 \notin LinesOf(File, o)
      BY <1>f, <2>4, <2>5 DEF LinesOf, Whole
    <3>2. N + 1 \notin LinesOf(File', o)
      BY <1>t, <1>n, <1>c, <1>g, <2>1, <2>4, <2>5 DEF LinesOf, Whole
    <3>3. LinesOf(File', o) = LinesOf(File, o)
      BY <1>t, <1>f, <2>1, <3>1, <3>2 DEF LinesOf
    <3>4. \A i \in LinesOf(File, o) : File[i] = File'[i]
      <4>1. LinesOf(File, o) \subseteq 1..N
        BY <1>t, <1>f, <3>1 DEF LinesOf
      <4> QED
        BY <1>f, <2>1, <4>1
    <3>5. Latest(File, o) = Latest(File', o)
      BY <1>f, <3>3, <3>4, SameLatest
    <3> QED
      BY <3>5, ReplayIsLatest
  <2>6. ASSUME ~Torn, left = "unterminated" PROVE Replay(id)' = n
    <3>1. File'[N + 1] = r
      BY <1>n, <2>1, <2>4, <2>6
    <3>2. N + 1 \in LinesOf(File', id)
      BY <1>t, <2>1, <3>1 DEF LinesOf
    <3>3. \A i \in LinesOf(File', id) : i <= N + 1
      BY <1>t, <2>1 DEF LinesOf
    <3>4. Latest(File', id) = n
      BY <1>t, <2>1, <3>1, <3>2, <3>3, LastIsLatest
    <3> QED
      BY <3>4, ReplayIsLatest
  <2> QED
    BY <1>1, <1>c, <1>g, <2>2, <2>3, <2>5, <2>6 DEF r
<1>h. CASE left = "line"
  <2>1. /\ File' \in Seq(Records \cup {Junk, NoTail}) /\ DOMAIN File' = 1..N + 2
        /\ \A i \in 1..N : File'[i] = lines[i]
        /\ File'[N + 1] = Glued(r) /\ File'[N + 2] = NoTail
    <3>1. lines' = Append(lines, Glued(r)) /\ tail' = NoTail
      BY <1>l, <1>n, <1>h
    <3>2. /\ lines' \in Seq(Records \cup {Junk}) /\ Len(lines') = N + 1
          /\ \A i \in 1..N : lines'[i] = lines[i]
          /\ lines'[N + 1] = Glued(r)
      BY <1>t, <3>1
    <3> QED
      BY <1>t, <3>1, <3>2 DEF File
  <2>2. \A i \in DOMAIN File' : File'[i] \in Records =>
                 \/ File'[i] = r
                 \/ i \in DOMAIN File /\ File'[i] = File[i]
    BY <1>t, <1>f, <2>1, RecordFacts DEF Glued
  <2>3. ~Torn' => ~Torn
    <3>1. Junk \in ToSet(lines) => Junk \in ToSet(lines')
      <4>1. \A i \in 1..N : lines'[i] = lines[i] /\ i \in DOMAIN lines'
        BY <1>t, <1>l, <1>h
      <4> QED
        BY <1>t, <4>1 DEF ToSet
    <3>2. tail # NoTail => Junk \in ToSet(lines')
      <4>1. tail # NoTail => lines'[N + 1] = Junk /\ N + 1 \in DOMAIN lines'
        BY <1>t, <1>l, <1>h DEF Glued
      <4> QED
        BY <4>1 DEF ToSet
    <3> QED
      BY <3>1, <3>2 DEF Torn
  <2>4. ASSUME ~Torn PROVE tail = NoTail /\ Glued(r) = r
    BY <2>4 DEF Torn, Glued
  <2>5. ASSUME ~Torn, NEW o \in Ids, o # id PROVE Replay(o)' = Replay(o)
    <3>1. N + 1 \notin LinesOf(File, o)
      BY <1>f, <2>4, <2>5 DEF LinesOf, Whole
    <3>2. N + 1 \notin LinesOf(File', o) /\ N + 2 \notin LinesOf(File', o)
      BY <1>t, <2>1, <2>4, <2>5 DEF LinesOf, Whole
    <3>3. LinesOf(File', o) = LinesOf(File, o)
      BY <1>t, <1>f, <2>1, <3>1, <3>2 DEF LinesOf
    <3>4. \A i \in LinesOf(File, o) : File[i] = File'[i]
      <4>1. LinesOf(File, o) \subseteq 1..N
        BY <1>t, <1>f, <3>1 DEF LinesOf
      <4> QED
        BY <1>f, <2>1, <4>1
    <3>5. Latest(File, o) = Latest(File', o)
      BY <1>f, <3>3, <3>4, SameLatest
    <3> QED
      BY <3>5, ReplayIsLatest
  <2>6. ASSUME ~Torn PROVE Replay(id)' = n
    <3>1. File'[N + 1] = r
      BY <2>1, <2>4, <2>6
    <3>2. N + 1 \in LinesOf(File', id)
      BY <1>t, <2>1, <3>1 DEF LinesOf
    <3>3. \A i \in LinesOf(File', id) : i <= N + 1
      BY <1>t, <2>1 DEF LinesOf, Whole
    <3>4. Latest(File', id) = n
      BY <1>t, <2>1, <3>1, <3>2, <3>3, LastIsLatest
    <3> QED
      BY <3>4, ReplayIsLatest
  <2> QED
    BY <1>1, <1>h, <2>2, <2>3, <2>5, <2>6 DEF r
<1> QED
  BY <1>g, <1>h

-----------------------------------------------------------------------------
\* Initially the file is empty.
LEMMA LogInitial == LogInit => LogIInv
<1> SUFFICES ASSUME LogInit PROVE LogIInv
  OBVIOUS
<1>1. LogTypeOK
  BY RecordFacts DEF LogInit, LogTypeOK
<1>2. File = <<NoTail>>
  BY DEF LogInit, File
<1>3. OnlyBegun
  BY <1>2, RecordFacts DEF LogInit, OnlyBegun
<1>4. ASSUME NEW id \in Ids PROVE index[id] <= Replay(id)
  <2>1. LinesOf(File, id) = {}
    BY <1>2 DEF LinesOf, Whole
  <2>2. Replay(id) = 0
    BY <2>1, ReplayIsLatest DEF Latest
  <2> QED
    BY <2>2 DEF LogInit
<1> QED
  BY <1>1, <1>3, <1>4 DEF LogIInv, IndexIsInFile

\* What a restart would find is the number of a put, or zero.
LEMMA ReplayTyped ==
    LogTypeOK /\ OnlyBegun => \A id \in Ids : Replay(id) \in 0..tried[id]
<1> SUFFICES ASSUME LogTypeOK, OnlyBegun, NEW id \in Ids
             PROVE  Replay(id) \in 0..tried[id]
  OBVIOUS
<1>t. tried[id] \in Nat
  BY RecordFacts DEF LogTypeOK
<1>1. File \in Seq(Records \cup {Junk, NoTail})
  BY DEF LogTypeOK, File
<1>2. CASE LinesOf(File, id) = {}
  <2>1. Replay(id) = 0
    BY <1>1, <1>2, LatestIs, ReplayIsLatest
  <2> QED
    BY <1>t, <2>1
<1>3. CASE LinesOf(File, id) # {}
  <2>1. PICK k \in LinesOf(File, id) : Latest(File, id) = File[k].put
    BY <1>1, <1>3, LatestIs
  <2>2. k \in DOMAIN File /\ File[k] \in Records /\ File[k].id = id
    BY <1>1, <2>1 DEF LinesOf, Whole
  <2>3. File[k].put <= tried[id] /\ File[k].put \in 1..MaxPuts
    BY <2>2, RecordFacts DEF OnlyBegun
  <2> QED
    BY <1>t, <2>1, <2>3, ReplayIsLatest, RecordFacts
<1> QED
  BY <1>2, <1>3

\* An append that is begun leaves only what was begun.
LEMMA BegunKept ==
    ASSUME LogTypeOK, OnlyBegun, NEW id \in Ids, Begin(id), NEW left \in Leftover,
           Appends(Record(id, tried'[id]), left)
    PROVE  /\ tried' \in [Ids -> 0..MaxPuts]
           /\ tried'[id] \in 1..MaxPuts /\ tried'[id] = tried[id] + 1
           /\ \A o \in Ids : tried[o] <= tried'[o]
           /\ \A i \in DOMAIN File' : File'[i] \in Records => File'[i].put <= tried'[File'[i].id]
<1>1. /\ tried' \in [Ids -> 0..MaxPuts]
      /\ tried'[id] \in 1..MaxPuts /\ tried'[id] = tried[id] + 1
      /\ \A o \in Ids : tried[o] <= tried'[o]
  BY RecordFacts DEF Begin, LogTypeOK
<1>2. ASSUME NEW i \in DOMAIN File', File'[i] \in Records
      PROVE  File'[i].put <= tried'[File'[i].id]
  <2>1. \/ File'[i] = Record(id, tried'[id])
        \/ i \in DOMAIN File /\ File'[i] = File[i]
    BY <1>1, <1>2, AppendsKeep
  <2>2. CASE File'[i] = Record(id, tried'[id])
    <3>1. File'[i].put = tried'[id] /\ File'[i].id = id
      BY <2>2, RecordFacts
    <3> QED
      BY <1>1, <3>1
  <2>3. CASE i \in DOMAIN File /\ File'[i] = File[i]
    <3>1. File[i].put <= tried[File[i].id] /\ File[i].put \in Nat /\ File[i].id \in Ids
      BY <1>2, <2>3, RecordFacts DEF OnlyBegun
    <3>2. tried[File[i].id] <= tried'[File[i].id]
      BY <1>1, <3>1
    <3>3. tried[File[i].id] \in Int /\ tried'[File[i].id] \in Int
      BY <1>1, <3>1 DEF LogTypeOK
    <3> QED
      BY <2>3, <3>1, <3>2, <3>3
  <2> QED
    BY <2>1, <2>2, <2>3
<1> QED
  BY <1>1, <1>2

\* Every step of the journal keeps its invariant.
LEMMA LogStepKeeps == LogIInv /\ [LogNext]_logVars => LogIInv'
<1> SUFFICES ASSUME LogIInv, [LogNext]_logVars PROVE LogIInv'
  OBVIOUS
<1>0. LogTypeOK /\ OnlyBegun /\ IndexIsInFile /\ Leftover = {"none", "part", "unterminated", "line"}
  BY DEF LogIInv, Leftover
<1>r. \A o \in Ids : Replay(o) \in 0..tried[o] /\ tried[o] \in 0..MaxPuts /\ index[o] \in 0..tried[o]
  BY <1>0, ReplayTyped, RecordFacts DEF LogTypeOK, OnlyBegun
<1>1. ASSUME NEW id \in Ids, Put(id) PROVE LogIInv'
  <2>1. Begin(id) /\ Appends(Record(id, tried'[id]), "line") /\ UNCHANGED up
        /\ index' = [index EXCEPT ![id] = tried'[id]]
    BY <1>1 DEF Put
  <2>2. /\ tried' \in [Ids -> 0..MaxPuts]
        /\ tried'[id] \in 1..MaxPuts /\ tried'[id] = tried[id] + 1
        /\ \A o \in Ids : tried[o] <= tried'[o]
        /\ \A i \in DOMAIN File' : File'[i] \in Records => File'[i].put <= tried'[File'[i].id]
    BY <1>0, <2>1, BegunKept
  <2>3. /\ lines' \in Seq(Records \cup {Junk}) /\ tail' \in Records \cup {Junk, NoTail}
        /\ ~Torn' => ~Torn
        /\ ~Torn => /\ \A o \in Ids : o # id => Replay(o)' = Replay(o)
                    /\ Replay(id)' = tried'[id]
    BY <1>0, <2>1, <2>2, AppendsKeep
  <2>i. /\ index' \in [Ids -> Nat] /\ index'[id] = tried'[id]
        /\ \A o \in Ids : o # id => index'[o] = index[o]
    <3>1. tried'[id] \in Nat /\ index \in [Ids -> Nat]
      BY <1>0, <2>2 DEF LogTypeOK
    <3> QED
      BY <2>1, <3>1
  <2>4. LogTypeOK'
    BY <1>0, <2>1, <2>2, <2>3, <2>i DEF LogTypeOK
  <2>5. ASSUME NEW o \in Ids PROVE index'[o] <= tried'[o]
    <3>1. tried'[o] \in Nat
      BY <2>2, RecordFacts
    <3> QED
      BY <1>r, <2>2, <2>i, <3>1
  <2>6. OnlyBegun'
    BY <2>2, <2>5 DEF OnlyBegun
  <2>7. IndexIsInFile'
    <3> SUFFICES ASSUME up', ~Torn', NEW o \in Ids PROVE index'[o] <= Replay(o)'
      BY DEF IndexIsInFile
    <3>1. index[o] <= Replay(o) /\ ~Torn
      BY <1>0, <2>1, <2>3 DEF IndexIsInFile
    <3> QED
      BY <1>0, <2>1, <2>2, <2>3, <3>1, RecordFacts DEF LogTypeOK
  <2> QED
    BY <2>4, <2>6, <2>7 DEF LogIInv
<1>2. ASSUME NEW id \in Ids, PutThrows(id) \/ CrashInPut(id) PROVE LogIInv'
  <2>1. /\ Begin(id) /\ up' \in BOOLEAN /\ (up' => up)
        /\ UNCHANGED index
    BY <1>2 DEF PutThrows, CrashInPut, Stops, Begin
  <2>l. PICK left \in Leftover : Appends(Record(id, tried'[id]), left)
    BY <1>0, <1>2, JsonlAssumption DEF PutThrows, CrashInPut
  <2>2. /\ tried' \in [Ids -> 0..MaxPuts]
        /\ tried'[id] \in 1..MaxPuts /\ tried'[id] = tried[id] + 1
        /\ \A o \in Ids : tried[o] <= tried'[o]
        /\ \A i \in DOMAIN File' : File'[i] \in Records => File'[i].put <= tried'[File'[i].id]
    BY <1>0, <2>1, <2>l, BegunKept
  <2>3. /\ lines' \in Seq(Records \cup {Junk}) /\ tail' \in Records \cup {Junk, NoTail}
        /\ ~Torn' => ~Torn
        /\ ~Torn => /\ \A o \in Ids : o # id => Replay(o)' = Replay(o)
                    /\ Replay(id)' \in {tried'[id], Replay(id)}
    BY <1>0, <2>l, <2>2, AppendsKeep
  <2>4. LogTypeOK'
    BY <1>0, <2>1, <2>2, <2>3 DEF LogTypeOK
  <2>5. \A o \in Ids : index'[o] <= tried'[o]
    BY <1>0, <1>r, <2>1, <2>2, RecordFacts DEF LogTypeOK
  <2>6. OnlyBegun'
    BY <2>2, <2>5 DEF OnlyBegun
  <2>7. IndexIsInFile'
    <3> SUFFICES ASSUME up', ~Torn', NEW o \in Ids PROVE index'[o] <= Replay(o)'
      BY DEF IndexIsInFile
    <3>1. index[o] <= Replay(o) /\ ~Torn
      BY <1>0, <2>1, <2>3 DEF IndexIsInFile
    <3> QED
      BY <1>r, <2>1, <2>3, <2>5, <3>1
  <2> QED
    BY <2>4, <2>6, <2>7 DEF LogIInv
<1>3. CASE Crash \/ UNCHANGED logVars
  <2>1. /\ up' \in BOOLEAN /\ (up' => up)
        /\ UNCHANGED <<lines, tail, index, tried>>
    <3>1. CASE Crash
      BY <1>0, <3>1 DEF Crash, Stops
    <3>2. CASE UNCHANGED logVars
      <4>1. UNCHANGED <<lines, tail, index, tried, up>>
        BY <3>2 DEF logVars
      <4>2. up \in BOOLEAN
        BY <1>0 DEF LogTypeOK
      <4> QED
        BY <4>1, <4>2, Zenon
    <3> QED
      BY <1>3, <3>1, <3>2
  <2>2. File' = File /\ Torn' = Torn /\ \A o \in Ids : Replay(o)' = Replay(o)
    BY <2>1, ReplayIsLatest DEF File, Torn
  <2>3. LogTypeOK'
    BY <1>0, <2>1 DEF LogTypeOK
  <2>4. OnlyBegun'
    BY <1>0, <2>1, <2>2 DEF OnlyBegun
  <2>5. IndexIsInFile'
    BY <1>0, <2>1, <2>2 DEF IndexIsInFile
  <2> QED
    BY <2>3, <2>4, <2>5 DEF LogIInv
<1>4. CASE Restart
  <2>1. /\ up' = TRUE /\ index' = [id \in Ids |-> Replay(id)]
        /\ UNCHANGED <<lines, tail, tried>>
    BY <1>4 DEF Restart
  <2>2. File' = File /\ \A o \in Ids : Replay(o)' = Replay(o)
    BY <2>1, ReplayIsLatest DEF File
  <2>3. LogTypeOK'
    BY <1>0, <1>r, <2>1, RecordFacts DEF LogTypeOK
  <2>4. OnlyBegun'
    BY <1>0, <1>r, <2>1, <2>2 DEF OnlyBegun
  <2>5. IndexIsInFile'
    BY <1>r, <2>1, <2>2 DEF IndexIsInFile
  <2> QED
    BY <2>3, <2>4, <2>5 DEF LogIInv
<1> QED
  BY <1>1, <1>2, <1>3, <1>4 DEF LogNext

\* Records, counters and the index keep their types, only puts that were
\* begun are found, and what the index has is in a file that is not torn.
THEOREM JournalInvariant == LogSpec => []LogIInv
BY LogInitial, LogStepKeeps, PTL DEF LogSpec

-----------------------------------------------------------------------------
Stored == [id \in Ids |-> Visible(id)]

\* Every step of the journal is a step of the map, or none; the exception is
\* a crash of a process that appends to a file already torn.
LEMMA LogStepRefines ==
    LogIInv /\ LogIInv' /\ [LogNext]_logVars
        => [Durable!MapNext \/ (Torn /\ up /\ ~up')]_(Durable!mapVars)
<1> SUFFICES ASSUME LogIInv, LogIInv', [LogNext]_logVars
             PROVE  \/ Durable!MapNext \/ (Torn /\ up /\ ~up')
                    \/ Stored' = Stored /\ tried' = tried
  BY DEF Durable!mapVars, Stored
<1>0. LogTypeOK /\ OnlyBegun /\ IndexIsInFile /\ Leftover = {"none", "part", "unterminated", "line"}
  BY DEF LogIInv, Leftover
<1>p. LogTypeOK' /\ OnlyBegun'
  BY DEF LogIInv
<1>r. \A o \in Ids : Replay(o) \in 0..tried[o] /\ tried[o] \in 0..MaxPuts /\ index[o] \in 0..tried[o]
  BY <1>0, ReplayTyped, RecordFacts DEF LogTypeOK, OnlyBegun
<1>q. \A o \in Ids : Replay(o)' \in 0..tried'[o]
  <2>2. (LogTypeOK /\ OnlyBegun => \A id \in Ids : Replay(id) \in 0..tried[id])'
    BY ReplayTyped, PTL
  <2> QED
    BY <1>p, <2>2
<1>c. ASSUME up, ~up', ~Torn, \A o \in Ids : index[o] <= Replay(o)',
             \/ UNCHANGED tried
             \/ \E id \in Ids : tried' = [tried EXCEPT ![id] = @ + 1]
      PROVE  Durable!Crash
  <2>1. Stored = [id \in Ids |-> index[id]] /\ Stored' = [id \in Ids |-> Replay(id)']
    BY <1>c DEF Stored, Visible
  <2>2. \A o \in Ids : Replay(o)' \in Nat /\ Replay(o)' \in index[o] .. tried'[o]
    BY <1>c, <1>r, <1>q, <1>p, RecordFacts DEF LogTypeOK
  <2>3. Stored' \in [Ids -> Nat] /\ \A o \in Ids : Stored'[o] \in Stored[o] .. tried'[o]
    BY <2>1, <2>2
  <2> QED
    BY <1>c, <2>3 DEF Durable!Crash, Stored
<1>1. ASSUME NEW id \in Ids, Put(id) PROVE Durable!Put(id)
  <2>1. /\ up /\ up' /\ tried' = [tried EXCEPT ![id] = @ + 1]
        /\ index' = [index EXCEPT ![id] = tried'[id]]
    BY <1>1 DEF Put, Begin
  <2>2. Stored' = [Stored EXCEPT ![id] = tried'[id]]
    BY <1>0, <2>1 DEF Stored, Visible, LogTypeOK
  <2> QED
    BY <2>1, <2>2 DEF Durable!Put, Stored
<1>2. ASSUME NEW id \in Ids, PutThrows(id) PROVE Durable!Put(id)
  <2>1. up /\ up' /\ tried' = [tried EXCEPT ![id] = @ + 1] /\ index' = index
    BY <1>2 DEF PutThrows, Begin
  <2>2. Stored' = Stored
    BY <2>1 DEF Stored, Visible
  <2> QED
    BY <2>1, <2>2 DEF Durable!Put, Stored
<1>3. ASSUME NEW id \in Ids, CrashInPut(id), ~Torn PROVE Durable!Crash
  <2>1. up /\ ~up' /\ Begin(id) /\ tried' = [tried EXCEPT ![id] = @ + 1]
    BY <1>3 DEF CrashInPut, Stops, Begin
  <2>l. PICK left \in Leftover : Appends(Record(id, tried'[id]), left)
    BY <1>3 DEF CrashInPut
  <2>2. tried'[id] \in 1..MaxPuts /\ tried'[id] = tried[id] + 1
    BY <1>0, <2>1, <2>l, BegunKept
  <2>3. /\ \A o \in Ids : o # id => Replay(o)' = Replay(o)
        /\ Replay(id)' \in {tried'[id], Replay(id)}
    BY <1>0, <1>3, <2>l, <2>2, AppendsKeep
  <2>4. \A o \in Ids : index[o] <= Replay(o)
    BY <1>0, <1>3, <2>1 DEF IndexIsInFile
  <2>5. \A o \in Ids : index[o] <= Replay(o)'
    BY <1>r, <2>2, <2>3, <2>4
  <2> QED
    BY <1>3, <1>c, <2>1, <2>5
<1>4. ASSUME Crash, ~Torn PROVE Durable!Crash
  <2>1. up /\ ~up' /\ UNCHANGED tried /\ \A o \in Ids : Replay(o)' = Replay(o)
    BY <1>4, ReplayIsLatest DEF Crash, Stops, File
  <2> QED
    BY <1>0, <1>4, <1>c, <2>1 DEF IndexIsInFile
<1>5. ASSUME Restart PROVE Stored' = Stored /\ tried' = tried
  <2>1. ~up /\ up' /\ UNCHANGED tried /\ index' = [id \in Ids |-> Replay(id)]
    BY <1>5 DEF Restart
  <2> QED
    BY <2>1 DEF Stored, Visible
<1>6. ASSUME UNCHANGED logVars PROVE Stored' = Stored /\ tried' = tried
  <2>1. UNCHANGED <<up, index, tried>> /\ \A o \in Ids : Replay(o)' = Replay(o)
    BY <1>6, ReplayIsLatest DEF logVars, File
  <2> QED
    BY <2>1 DEF Stored, Visible
<1>7. Crash \/ (\E id \in Ids : CrashInPut(id)) => up /\ ~up'
  BY DEF Crash, CrashInPut, Stops
<1> QED
  BY <1>1, <1>2, <1>3, <1>4, <1>5, <1>6, <1>7 DEF LogNext, Durable!MapNext

\* The journal behaves as a map whose records only advance (store.ts and
\* withdrawal-store.ts put and load), save for a crash after the file is torn.
THEOREM JournalRefinesDurableMap == LogSpec => ImplementsDurableMap
<1>1. LogInit => Durable!MapInit
  BY DEF LogInit, Durable!MapInit, Visible
<1> QED
  BY <1>1, JournalInvariant, LogStepRefines, PTL DEF LogSpec, ImplementsDurableMap

-----------------------------------------------------------------------------
(* Admission of quotes. *)

\* What the ledger and the portfolio hold.
Slices == [Rfqs -> Exposures \cup {NoSlice}]

\* The measures that have a limit of their own.
Dimensions == {"delta", "vega", "cash"}

\* The column of one measure.
Column(slices, dim) == [r \in Rfqs |-> slices[r][dim]]

\* The RFQs of a set whose slices are in a bucket.
InBucket(set, f, b) == {r \in set : f[r].bucket = b}

\* The positions and all the standing quotes together exceed no limit.
Fits(positions, slices) ==
    WithinLimits(positions, Taken(positions), slices, Taken(slices))

\* The states of a worker: idle, with its snapshot, with its quote.
AttemptValues ==
    {NoSlice}
    \cup [at : {"snapshot"}, rfq : Rfqs, version : Nat, reserved : Slices, confirmed : Slices]
    \cup [at : {"quote"}, rfq : Rfqs, version : Nat, exposure : Exposures]

\* The types the proof needs.
AdmissionTypes ==
    /\ ledgerVersion \in Nat
    /\ reserved \in Slices /\ confirmed \in Slices
    /\ attempts \in [Workers -> AttemptValues]

\* A decision of the ledger's version is about the ledger as it is.
AttemptOK(a) ==
    a # NoSlice =>
        /\ a.version <= ledgerVersion
        /\ a.version = ledgerVersion =>
              /\ confirmed[a.rfq] = NoSlice
              /\ a.at = "snapshot" => a.reserved = reserved /\ a.confirmed = confirmed
              /\ a.at = "quote" => Fits(confirmed, [reserved EXCEPT ![a.rfq] = a.exposure])

\* The inductive invariant.
AdmissionIInv ==
    /\ AdmissionTypes
    /\ \A r \in Rfqs : reserved[r] = NoSlice \/ confirmed[r] = NoSlice
    /\ Fits(confirmed, reserved)
    /\ \A w \in Workers : AttemptOK(attempts[w])

-----------------------------------------------------------------------------
\* A measure is the sum of its column.
LEMMA MeasureIsSum ==
    ASSUME NEW slices, NEW of \in SUBSET Rfqs, NEW dim
    PROVE  Measure(slices, of, dim) = SumOver(Column(slices, dim), of)
<1> DEFINE c == Column(slices, dim)
           Body(g) == [s \in SUBSET of |->
                          IF s = {} THEN 0 ELSE slices[Pick(s)][dim] + g[s \ {Pick(s)}]]
<1>1. \A s \in SUBSET of : s # {} => c[Pick(s)] = slices[Pick(s)][dim]
  BY PickIn DEF Column
<1>2. \A g : Body(g) = [s \in SUBSET of |-> SumStep(c, g, s)]
  BY <1>1 DEF SumStep
<1>3. \A g : (g = Body(g)) <=> IsFold(c, g, SUBSET of)
  BY <1>2 DEF IsFold
<1>4. (CHOOSE g : g = Body(g)) = Fold(c, of)
  BY <1>3 DEF Fold
<1> QED
  BY <1>4 DEF Measure, MapThenSumSet, MapThenFoldSet, SumOver, Pick

\* The slices that are taken are finitely many, and none measures less than 0.
LEMMA TakenTyped ==
    ASSUME NEW slices \in Slices
    PROVE  /\ Taken(slices) \in SUBSET Rfqs /\ IsFiniteSet(Taken(slices))
           /\ \A r \in Taken(slices) : /\ slices[r] \in Exposures
                                       /\ \A dim \in Dimensions : slices[r][dim] \in Nat
<1>1. Taken(slices) \in SUBSET Rfqs
  BY DEF Taken
<1>2. IsFiniteSet(Taken(slices))
  BY <1>1, AdmissionAssumption, FS_Subset
<1>3. \A r \in Taken(slices) : slices[r] \in Exposures
  BY DEF Taken, Slices
<1>4. \A e \in Exposures, dim \in Dimensions : e[dim] \in Nat
  BY AdmissionAssumption DEF Dimensions
<1> QED
  BY <1>1, <1>2, <1>3, <1>4

\* What is measured grows with the slices, and each slice adds its own.
LEMMA MeasureGrows ==
    ASSUME NEW slices \in Slices, NEW S \in SUBSET Taken(slices), NEW dim \in Dimensions
    PROVE  /\ Measure(slices, S, dim) \in Nat
           /\ \A T \in SUBSET S : /\ Measure(slices, T, dim) \in Nat
                                  /\ Measure(slices, T, dim) <= Measure(slices, S, dim)
           /\ \A r \in S : Measure(slices, S, dim) = slices[r][dim] + Measure(slices, S \ {r}, dim)
<1> DEFINE c == Column(slices, dim)
<1>1. S \in SUBSET Rfqs /\ IsFiniteSet(S) /\ \A r \in S : c[r] = slices[r][dim] /\ c[r] \in Nat
  BY TakenTyped, FS_Subset DEF Column
<1> HIDE DEF c
<1>2. \A T \in SUBSET S : Measure(slices, T, dim) = SumOver(c, T)
  BY <1>1, MeasureIsSum DEF c
<1>3. \A T \in SUBSET S : SumOver(c, T) \in Nat
  BY <1>1, SumTyped, FS_Subset
<1>4. \A T \in SUBSET S : SumOver(c, T) <= SumOver(c, S)
  BY <1>1, SumMonotone
<1>5. \A r \in S : SumOver(c, S) = c[r] + SumOver(c, S \ {r})
  BY <1>1, SumSplits
<1>6. \A r \in S : S \ {r} \in SUBSET S
  OBVIOUS
<1> QED
  BY <1>1, <1>2, <1>3, <1>4, <1>5, <1>6

\* Only the slices measured are looked at.
LEMMA MeasureAgrees ==
    ASSUME NEW s, NEW t, NEW S \in SUBSET Rfqs, \A r \in S : s[r] = t[r], NEW dim
    PROVE  Measure(s, S, dim) = Measure(t, S, dim)
<1>1. \A r \in S : Column(s, dim)[r] = Column(t, dim)[r]
  BY DEF Column
<1>2. SumOver(Column(s, dim), S) = SumOver(Column(t, dim), S)
  BY <1>1, SumAgrees
<1> QED
  BY <1>2, MeasureIsSum

\* evaluateRiskLimits, its abbreviations written out.
LEMMA LimitsAre ==
    ASSUME NEW p, NEW of, NEW s, NEW and
    PROVE  WithinLimits(p, of, s, and) <=>
              /\ Cardinality(and) <= Limits.live
              /\ \A dim \in Dimensions :
                    Measure(p, of, dim) + Measure(s, and, dim) <= Limits[dim]
              /\ \A e \in Exposures :
                    Measure(p, InBucket(of, p, e.bucket), "vega")
                      + Measure(s, InBucket(and, s, e.bucket), "vega") <= Limits.bucketVega
  BY DEF WithinLimits, InBucket, Dimensions

\* The limits are natural numbers.
LEMMA LimitValues ==
    /\ Limits.live \in Nat /\ Limits.bucketVega \in Nat
    /\ \A dim \in Dimensions : Limits[dim] \in Nat
    /\ "vega" \in Dimensions
  BY AdmissionAssumption DEF Dimensions

\* Fewer standing quotes exceed no limit either.
LEMMA FewerFit ==
    ASSUME NEW p \in Slices, NEW s \in Slices, Fits(p, s), NEW t,
           NEW T \in SUBSET Taken(s), \A r \in T : t[r] = s[r]
    PROVE  WithinLimits(p, Taken(p), t, T)
<1>0. /\ Taken(p) \in SUBSET Rfqs /\ T \in SUBSET Rfqs
      /\ IsFiniteSet(Taken(s))
  BY TakenTyped
<1>1. Cardinality(T) <= Limits.live
  <2>1. Cardinality(T) <= Cardinality(Taken(s)) /\ Cardinality(T) \in Nat /\ Cardinality(Taken(s)) \in Nat
    BY <1>0, FS_Subset, FS_CardinalityType
  <2>2. Cardinality(Taken(s)) <= Limits.live
    BY LimitsAre DEF Fits
  <2> QED
    BY <2>1, <2>2, LimitValues
<1>2. ASSUME NEW dim \in Dimensions
      PROVE  Measure(p, Taken(p), dim) + Measure(t, T, dim) <= Limits[dim]
  <2>1. Measure(t, T, dim) = Measure(s, T, dim)
    BY <1>0, MeasureAgrees
  <2>2. /\ Measure(s, T, dim) \in Nat /\ Measure(s, Taken(s), dim) \in Nat
        /\ Measure(s, T, dim) <= Measure(s, Taken(s), dim)
    BY MeasureGrows
  <2>3. Measure(p, Taken(p), dim) \in Nat
    BY MeasureGrows
  <2>4. Measure(p, Taken(p), dim) + Measure(s, Taken(s), dim) <= Limits[dim]
    BY LimitsAre DEF Fits
  <2> QED
    BY <2>1, <2>2, <2>3, <2>4, LimitValues
<1>3. ASSUME NEW e \in Exposures
      PROVE  Measure(p, InBucket(Taken(p), p, e.bucket), "vega")
               + Measure(t, InBucket(T, t, e.bucket), "vega") <= Limits.bucketVega
  <2> DEFINE B == InBucket(Taken(s), s, e.bucket)
             C == InBucket(T, t, e.bucket)
             A == InBucket(Taken(p), p, e.bucket)
  <2>1. /\ B \in SUBSET Taken(s) /\ C \in SUBSET B /\ A \in SUBSET Taken(p)
        /\ C \in SUBSET Rfqs /\ \A r \in C : t[r] = s[r]
    BY <1>0 DEF InBucket
  <2>4. Measure(p, A, "vega") + Measure(s, B, "vega") <= Limits.bucketVega
    BY LimitsAre DEF Fits
  <2> HIDE DEF A, B, C
  <2>2. Measure(t, C, "vega") = Measure(s, C, "vega")
    BY <2>1, MeasureAgrees
  <2>3. /\ Measure(s, C, "vega") \in Nat /\ Measure(s, B, "vega") \in Nat
        /\ Measure(s, C, "vega") <= Measure(s, B, "vega")
        /\ Measure(p, A, "vega") \in Nat
    BY <2>1, MeasureGrows, LimitValues
  <2>5. Measure(p, A, "vega") + Measure(t, C, "vega") <= Limits.bucketVega
    BY <2>2, <2>3, <2>4, LimitValues
  <2> QED
    BY <2>5 DEF A, C
<1> QED
  BY <1>1, <1>2, <1>3, LimitsAre

\* A fill moves its slice from the standing quotes to the positions.
LEMMA FilledFit ==
    ASSUME NEW p \in Slices, NEW s \in Slices, Fits(p, s),
           NEW r \in Rfqs, s[r] # NoSlice, p[r] = NoSlice
    PROVE  Fits([p EXCEPT ![r] = s[r]], [s EXCEPT ![r] = NoSlice])
<1> DEFINE q == [p EXCEPT ![r] = s[r]]
           t == [s EXCEPT ![r] = NoSlice]
<1>1. /\ q \in Slices /\ t \in Slices
      /\ \A k \in Rfqs : q[k] = IF k = r THEN s[r] ELSE p[k]
      /\ \A k \in Rfqs : t[k] = IF k = r THEN NoSlice ELSE s[k]
  BY DEF Slices
<1> HIDE DEF q, t
<1>2. /\ Taken(q) = Taken(p) \cup {r} /\ r \notin Taken(p)
      /\ Taken(t) = Taken(s) \ {r} /\ r \in Taken(s)
  BY <1>1 DEF Taken
<1>3. Taken(p) \in SUBSET Rfqs /\ Taken(s) \in SUBSET Rfqs /\ IsFiniteSet(Taken(s))
  BY TakenTyped
<1>4. s[r] \in Exposures /\ \A dim \in Dimensions : s[r][dim] \in Nat
  BY <1>2, TakenTyped
<1>5. ASSUME NEW S \in SUBSET Taken(p), NEW dim \in Dimensions
      PROVE  /\ Measure(p, S, dim) \in Nat
             /\ Measure(q, S \cup {r}, dim) = s[r][dim] + Measure(p, S, dim)
             /\ Measure(q, S, dim) = Measure(p, S, dim)
  <2>1. S \cup {r} \in SUBSET Taken(q) /\ (S \cup {r}) \ {r} = S /\ S \in SUBSET Rfqs
    BY <1>2, <1>3
  <2>2. Measure(q, S, dim) = Measure(p, S, dim)
    <3>1. \A k \in S : q[k] = p[k]
      BY <1>1, <1>2, <1>3
    <3> QED
      BY <2>1, <3>1, MeasureAgrees
  <2>3. Measure(q, S \cup {r}, dim) = q[r][dim] + Measure(q, S, dim)
    <3>1. PICK U \in SUBSET Taken(q) : U = S \cup {r}
      BY <2>1
    <3>2. r \in U /\ U \ {r} = S
      BY <2>1, <3>1
    <3>3. Measure(q, U, dim) = q[r][dim] + Measure(q, U \ {r}, dim)
      BY <1>1, <3>2, MeasureGrows
    <3> QED
      BY <3>1, <3>2, <3>3, Zenon
  <2>4. q[r] = s[r]
    BY <1>1
  <2>5. Measure(p, S, dim) \in Nat
    BY MeasureGrows
  <2> QED
    BY <2>1, <2>2, <2>3, <2>4, <2>5
<1>6. ASSUME NEW S \in SUBSET Taken(s), NEW dim \in Dimensions
      PROVE  /\ Measure(s, S, dim) \in Nat /\ Measure(t, S \ {r}, dim) \in Nat
             /\ r \in S => Measure(s, S, dim) = s[r][dim] + Measure(t, S \ {r}, dim)
             /\ r \notin S => Measure(s, S, dim) = Measure(t, S, dim)
  <2>1. S \ {r} \in SUBSET Rfqs /\ \A k \in S \ {r} : t[k] = s[k]
    BY <1>1, <1>3
  <2>2. Measure(t, S \ {r}, dim) = Measure(s, S \ {r}, dim)
    BY <2>1, MeasureAgrees
  <2>3. /\ Measure(s, S, dim) \in Nat
        /\ S \ {r} \in SUBSET S
    BY MeasureGrows
  <2>4. Measure(s, S \ {r}, dim) \in Nat
    BY <2>3, MeasureGrows
  <2>5. r \in S => Measure(s, S, dim) = s[r][dim] + Measure(s, S \ {r}, dim)
    BY MeasureGrows
  <2>6. r \notin S => S \ {r} = S
    OBVIOUS
  <2> QED
    BY <2>2, <2>3, <2>4, <2>5, <2>6
<1>7. Cardinality(Taken(t)) <= Limits.live
  <2>1. /\ Cardinality(Taken(t)) = Cardinality(Taken(s)) - 1 /\ Cardinality(Taken(s)) \in Nat
    BY <1>2, <1>3, FS_RemoveElement, FS_CardinalityType
  <2>2. Cardinality(Taken(s)) <= Limits.live
    BY LimitsAre DEF Fits
  <2> QED
    BY <2>1, <2>2, LimitValues
<1>8. ASSUME NEW dim \in Dimensions
      PROVE  Measure(q, Taken(q), dim) + Measure(t, Taken(t), dim) <= Limits[dim]
  <2>1. Measure(p, Taken(p), dim) + Measure(s, Taken(s), dim) <= Limits[dim]
    BY LimitsAre DEF Fits
  <2>2. /\ Measure(q, Taken(q), dim) = s[r][dim] + Measure(p, Taken(p), dim)
        /\ Measure(p, Taken(p), dim) \in Nat
    BY <1>2, <1>5
  <2>3. /\ Measure(s, Taken(s), dim) = s[r][dim] + Measure(t, Taken(t), dim)
        /\ Measure(t, Taken(t), dim) \in Nat
    BY <1>2, <1>6
  <2>4. s[r][dim] \in Nat
    BY <1>4
  <2> QED
    BY <2>1, <2>2, <2>3, <2>4, LimitValues
<1>9. ASSUME NEW e \in Exposures
      PROVE  Measure(q, InBucket(Taken(q), q, e.bucket), "vega")
               + Measure(t, InBucket(Taken(t), t, e.bucket), "vega") <= Limits.bucketVega
  <2> DEFINE A == InBucket(Taken(p), p, e.bucket)
             B == InBucket(Taken(s), s, e.bucket)
             C == InBucket(Taken(q), q, e.bucket)
             D == InBucket(Taken(t), t, e.bucket)
  <2>1. /\ A \in SUBSET Taken(p) /\ B \in SUBSET Taken(s)
        /\ s[r].bucket = e.bucket => C = A \cup {r} /\ D = B \ {r} /\ r \in B
        /\ s[r].bucket # e.bucket => C = A /\ D = B /\ r \notin B
    BY <1>1, <1>2, <1>3 DEF InBucket
  <2>2. Measure(p, A, "vega") + Measure(s, B, "vega") <= Limits.bucketVega
    BY LimitsAre DEF Fits
  <2> HIDE DEF A, B, C, D
  <2>3. /\ Measure(p, A, "vega") \in Nat /\ Measure(q, A, "vega") = Measure(p, A, "vega")
        /\ Measure(q, A \cup {r}, "vega") = s[r]["vega"] + Measure(p, A, "vega")
    BY <1>5, <2>1, LimitValues
  <2>4. /\ Measure(s, B, "vega") \in Nat /\ Measure(t, B \ {r}, "vega") \in Nat
        /\ r \in B => Measure(s, B, "vega") = s[r]["vega"] + Measure(t, B \ {r}, "vega")
        /\ r \notin B => Measure(s, B, "vega") = Measure(t, B, "vega")
    BY <1>6, <2>1, LimitValues
  <2>5. s[r]["vega"] \in Nat
    BY <1>4, LimitValues
  <2>6. CASE s[r].bucket = e.bucket
    <3>1. C = A \cup {r} /\ D = B \ {r} /\ r \in B
      BY <2>1, <2>6, Zenon
    <3>2. /\ Measure(q, C, "vega") = Measure(q, A \cup {r}, "vega")
          /\ Measure(t, D, "vega") = Measure(t, B \ {r}, "vega")
      BY <3>1, Zenon
    <3>3. Measure(q, C, "vega") + Measure(t, D, "vega") <= Limits.bucketVega
      BY <2>2, <2>3, <2>4, <2>5, <3>1, <3>2, LimitValues
    <3> QED
      BY <3>3 DEF C, D
  <2>7. CASE s[r].bucket # e.bucket
    <3>1. Measure(q, C, "vega") + Measure(t, D, "vega") <= Limits.bucketVega
      BY <2>1, <2>2, <2>3, <2>4, <2>7, LimitValues
    <3> QED
      BY <3>1 DEF C, D
  <2> QED
    BY <2>6, <2>7
<1>10. Fits(q, t)
  BY <1>7, <1>8, <1>9, LimitsAre DEF Fits
<1> QED
  BY <1>10 DEF q, t

\* Without slices there is nothing to measure.
LEMMA NothingFits ==
    ASSUME NEW p, p = [r \in Rfqs |-> NoSlice]
    PROVE  Fits(p, p)
<1>1. Taken(p) = {}
  BY DEF Taken
<1>2. Cardinality({}) = 0
  BY FS_EmptySet
<1>3. \A dim : Measure(p, {}, dim) = 0
  BY MeasureIsSum, SumOfNone
<1>4. \A b : InBucket({}, p, b) = {}
  BY DEF InBucket
<1>5. /\ \A dim \in Dimensions : Measure(p, {}, dim) + Measure(p, {}, dim) <= Limits[dim]
      /\ Measure(p, {}, "vega") + Measure(p, {}, "vega") <= Limits.bucketVega
      /\ Cardinality({}) <= Limits.live
  BY <1>2, <1>3, LimitValues
<1> QED
  BY <1>1, <1>4, <1>5, LimitsAre DEF Fits

\* A snapshot is what the ledger is.
LEMMA SnapshotKeepsLimits ==
    ASSUME AdmissionIInv, NEW w \in Workers, NEW r \in Rfqs, Snapshot(w, r)
    PROVE  AdmissionIInv'
<1>1. PICK a \in AttemptValues :
         a = [at |-> "snapshot", rfq |-> r, version |-> ledgerVersion,
              reserved |-> reserved, confirmed |-> confirmed]
  BY DEF AdmissionIInv, AdmissionTypes, AttemptValues
<1>2. AttemptOK(a)
  BY <1>1 DEF AttemptOK, Snapshot, AdmissionIInv, AdmissionTypes
<1>3. /\ attempts' = [attempts EXCEPT ![w] = a]
      /\ UNCHANGED <<ledgerVersion, reserved, confirmed>>
  BY <1>1 DEF Snapshot
<1>4. /\ attempts' \in [Workers -> AttemptValues]
      /\ \A v \in Workers : attempts'[v] \in {a, attempts[v]}
  BY <1>3 DEF AdmissionIInv, AdmissionTypes
<1>5. \A v \in Workers : AttemptOK(attempts'[v])
  BY <1>2, <1>4 DEF AdmissionIInv
<1> QED
  BY <1>3, <1>4, <1>5 DEF AdmissionIInv, AdmissionTypes, AttemptOK

\* A quote that passes would fit the ledger its snapshot was taken of.
LEMMA EvaluateKeepsLimits ==
    ASSUME AdmissionIInv, NEW w \in Workers, NEW e \in Exposures, NEW gates \in BOOLEAN,
           Evaluate(w, e, gates)
    PROVE  AdmissionIInv'
<1>1. /\ attempts[w] \in AttemptValues /\ attempts[w] # NoSlice /\ attempts[w].at = "snapshot"
      /\ attempts \in [Workers -> AttemptValues]
  BY DEF Evaluate, AdmissionIInv, AdmissionTypes
<1>2. PICK a \in AttemptValues : a = attempts[w]
  BY <1>1
<1>3. a.rfq \in Rfqs /\ a.version \in Nat /\ AttemptOK(a) /\ a # NoSlice /\ a.at = "snapshot"
  <2>1. a.rfq \in Rfqs /\ a.version \in Nat
    BY <1>1, <1>2 DEF AttemptValues
  <2> QED
    BY <1>1, <1>2, <2>1 DEF AdmissionIInv
<1>4. PICK q \in AttemptValues :
         /\ q = [at |-> "quote", rfq |-> a.rfq, version |-> a.version, exposure |-> e]
         /\ q.at = "quote" /\ q.rfq = a.rfq /\ q.version = a.version /\ q.exposure = e
  <2>1. PICK k \in [at : {"quote"}, rfq : Rfqs, version : Nat, exposure : Exposures] :
           k = [at |-> "quote", rfq |-> a.rfq, version |-> a.version, exposure |-> e]
    BY <1>3
  <2>2. k.at = "quote" /\ k.rfq = a.rfq /\ k.version = a.version /\ k.exposure = e
    BY <2>1
  <2>3. k \in AttemptValues
    BY DEF AttemptValues
  <2> QED
    BY <2>1, <2>2, <2>3
<1>5. PICK b \in {q, NoSlice} :
         /\ attempts' = [attempts EXCEPT ![w] = b]
         /\ b = q => b = NoSlice \/ Fits(a.confirmed, Candidate(a, e))
      /\ UNCHANGED <<ledgerVersion, reserved, confirmed>>
  <2>1. UNCHANGED <<ledgerVersion, reserved, confirmed>>
    BY DEF Evaluate
  <2>2. CASE gates /\ Fits(a.confirmed, Candidate(a, e))
    BY <1>2, <1>4, <2>1, <2>2 DEF Evaluate, Fits
  <2>3. CASE ~(gates /\ Fits(a.confirmed, Candidate(a, e)))
    <3>1. attempts' = [attempts EXCEPT ![w] = NoSlice]
      BY <1>2, <2>3 DEF Evaluate, Fits
    <3> QED
      BY <2>1, <3>1
  <2> QED
    BY <2>2, <2>3
<1>6. AttemptOK(b)
  <2>1. CASE b = NoSlice
    BY <2>1 DEF AttemptOK
  <2>2. CASE b = q /\ b # NoSlice
    <3>1. a.version = ledgerVersion => Fits(confirmed, [reserved EXCEPT ![a.rfq] = e])
      BY <1>3, <1>5, <2>2 DEF AttemptOK, Candidate
    <3> QED
      BY <1>3, <1>4, <2>2, <3>1 DEF AttemptOK
  <2> QED
    BY <2>1, <2>2
<1>7. b \in AttemptValues
  BY DEF AttemptValues
<1>8. /\ attempts' \in [Workers -> AttemptValues]
      /\ \A v \in Workers : attempts'[v] \in {b, attempts[v]}
  BY <1>1, <1>5, <1>7
<1>9. \A v \in Workers : AttemptOK(attempts'[v])
  BY <1>6, <1>8 DEF AdmissionIInv
<1> QED
  BY <1>5, <1>8, <1>9 DEF AdmissionIInv, AdmissionTypes, AttemptOK

\* A change of the ledger makes every attempt stale.
LEMMA StaleKeeps ==
    ASSUME AdmissionIInv, ledgerVersion' = ledgerVersion + 1,
           attempts' \in [Workers -> AttemptValues],
           \A w \in Workers : attempts'[w] \in {attempts[w], NoSlice}
    PROVE  \A w \in Workers : AttemptOK(attempts[w])'
<1> SUFFICES ASSUME NEW w \in Workers, attempts'[w] # NoSlice PROVE AttemptOK(attempts[w])'
  BY DEF AttemptOK
<1>1. attempts'[w] = attempts[w] /\ attempts[w] # NoSlice /\ attempts[w] \in AttemptValues
  BY DEF AdmissionIInv, AdmissionTypes
<1>2. attempts[w].version <= ledgerVersion
  BY <1>1 DEF AdmissionIInv, AttemptOK
<1>3. attempts[w].version \in Nat /\ ledgerVersion \in Nat
  BY <1>1 DEF AttemptValues, AdmissionIInv, AdmissionTypes
<1> QED
  BY <1>1, <1>2, <1>3 DEF AttemptOK

\* A quote that enters the ledger was evaluated on it.
LEMMA CommitKeepsLimits ==
    ASSUME AdmissionIInv, NEW w \in Workers, Commit(w)
    PROVE  AdmissionIInv'
<1>1. /\ attempts[w] \in AttemptValues /\ attempts[w] # NoSlice /\ attempts[w].at = "quote"
      /\ attempts \in [Workers -> AttemptValues] /\ ledgerVersion \in Nat
      /\ reserved \in Slices /\ confirmed \in Slices
  BY DEF Commit, AdmissionIInv, AdmissionTypes
<1>2. PICK a \in AttemptValues : a = attempts[w]
  BY <1>1
<1>3. a.rfq \in Rfqs /\ a.exposure \in Exposures /\ AttemptOK(a) /\ a # NoSlice /\ a.at = "quote"
  <2>1. a.rfq \in Rfqs /\ a.exposure \in Exposures
    BY <1>1, <1>2 DEF AttemptValues
  <2> QED
    BY <1>1, <1>2, <2>1 DEF AdmissionIInv
<1>4. /\ attempts' = [attempts EXCEPT ![w] = NoSlice] /\ confirmed' = confirmed
      /\ \/ /\ a.version = ledgerVersion /\ ledgerVersion' = ledgerVersion + 1
            /\ reserved' = [reserved EXCEPT ![a.rfq] = a.exposure]
         \/ UNCHANGED <<ledgerVersion, reserved>>
  BY <1>2 DEF Commit, Applies
<1>5. /\ attempts' \in [Workers -> AttemptValues]
      /\ \A v \in Workers : attempts'[v] \in {attempts[v], NoSlice}
  <2>1. NoSlice \in AttemptValues
    BY DEF AttemptValues
  <2> QED
    BY <1>1, <1>4, <2>1
<1>6. CASE UNCHANGED <<ledgerVersion, reserved>>
  <2>1. \A v \in Workers : AttemptOK(attempts[v])'
    BY <1>4, <1>5, <1>6 DEF AdmissionIInv, AttemptOK
  <2> QED
    BY <1>4, <1>5, <1>6, <2>1 DEF AdmissionIInv, AdmissionTypes
<1>7. CASE /\ a.version = ledgerVersion /\ ledgerVersion' = ledgerVersion + 1
           /\ reserved' = [reserved EXCEPT ![a.rfq] = a.exposure]
  <2>1. confirmed[a.rfq] = NoSlice /\ Fits(confirmed, [reserved EXCEPT ![a.rfq] = a.exposure])
    BY <1>3, <1>7 DEF AttemptOK
  <2>2. Fits(confirmed', reserved')
    BY <1>4, <1>7, <2>1
  <2>3. reserved' \in Slices /\ \A k \in Rfqs : k # a.rfq => reserved'[k] = reserved[k]
    BY <1>1, <1>3, <1>7 DEF Slices
  <2>4. \A k \in Rfqs : reserved'[k] = NoSlice \/ confirmed[k] = NoSlice
    BY <2>1, <2>3 DEF AdmissionIInv
  <2>5. \A v \in Workers : AttemptOK(attempts[v])'
    BY <1>5, <1>7, StaleKeeps
  <2>6. AdmissionTypes'
    BY <1>1, <1>4, <1>5, <1>7, <2>3 DEF AdmissionTypes
  <2> QED
    BY <1>4, <2>2, <2>4, <2>5, <2>6 DEF AdmissionIInv, Fits, Taken
<1> QED
  BY <1>4, <1>6, <1>7

\* A quote that is released or filled leaves the ledger within its limits.
LEMMA RemovalKeepsLimits ==
    ASSUME AdmissionIInv, NEW r \in Rfqs, Release(r) \/ Promote(r)
    PROVE  AdmissionIInv'
<1>1. /\ reserved \in Slices /\ confirmed \in Slices /\ ledgerVersion \in Nat
      /\ attempts \in [Workers -> AttemptValues]
      /\ Fits(confirmed, reserved) /\ (reserved[r] = NoSlice \/ confirmed[r] = NoSlice)
  BY DEF AdmissionIInv, AdmissionTypes
<1>2. /\ reserved[r] # NoSlice /\ confirmed[r] = NoSlice
      /\ reserved' = [reserved EXCEPT ![r] = NoSlice]
      /\ ledgerVersion' = ledgerVersion + 1 /\ attempts' = attempts
      /\ confirmed' \in {confirmed, [confirmed EXCEPT ![r] = reserved[r]]}
  BY <1>1 DEF Release, Promote, Removes
<1>3. /\ reserved' \in Slices /\ confirmed' \in Slices
      /\ \A k \in Rfqs : reserved'[k] = IF k = r THEN NoSlice ELSE reserved[k]
      /\ \A k \in Rfqs : k # r => confirmed'[k] = confirmed[k]
  BY <1>1, <1>2 DEF Slices
<1>4. Fits(confirmed', reserved')
  <2>1. CASE confirmed' = confirmed
    <3>1. Taken(reserved') \in SUBSET Taken(reserved)
          /\ \A k \in Taken(reserved') : reserved'[k] = reserved[k]
      BY <1>3 DEF Taken
    <3>2. WithinLimits(confirmed, Taken(confirmed), reserved', Taken(reserved'))
      BY <1>1, <3>1, FewerFit
    <3> QED
      BY <2>1, <3>2 DEF Fits
  <2>2. CASE confirmed' = [confirmed EXCEPT ![r] = reserved[r]]
    BY <1>1, <1>2, <2>2, FilledFit
  <2> QED
    BY <1>2, <2>1, <2>2
<1>5. \A v \in Workers : AttemptOK(attempts[v])'
  BY <1>1, <1>2, StaleKeeps
<1>6. \A k \in Rfqs : reserved'[k] = NoSlice \/ confirmed'[k] = NoSlice
  BY <1>3 DEF AdmissionIInv
<1>7. AdmissionTypes'
  BY <1>1, <1>2, <1>3 DEF AdmissionTypes
<1> QED
  BY <1>4, <1>5, <1>6, <1>7 DEF AdmissionIInv, Fits, Taken

\* No quote and no position exceed no limit.
LEMMA AdmissionInitial == AdmissionInit => AdmissionIInv
<1> SUFFICES ASSUME AdmissionInit PROVE AdmissionIInv
  OBVIOUS
<1>1. /\ reserved = [r \in Rfqs |-> NoSlice] /\ confirmed = reserved /\ ledgerVersion = 0
      /\ attempts = [w \in Workers |-> NoSlice]
  BY DEF AdmissionInit
<1>2. Fits(confirmed, reserved)
  BY <1>1, NothingFits
<1>3. reserved \in Slices /\ attempts \in [Workers -> AttemptValues]
  BY <1>1 DEF Slices, AttemptValues
<1>4. \A w \in Workers : AttemptOK(attempts[w])
  BY <1>1 DEF AttemptOK
<1> QED
  BY <1>1, <1>2, <1>3, <1>4 DEF AdmissionIInv, AdmissionTypes

\* AnyFillsWithinLimits (tryApply, evaluateRiskLimits): whichever standing quotes
\* are filled, no limit of the portfolio is exceeded, for any number of RFQs and
\* workers and any exposures and limits.
THEOREM FillsStayWithinLimits == AdmissionSpec => []AnyFillsWithinLimits
<1>1. AdmissionInit => AdmissionIInv
  BY AdmissionInitial
<1>2. AdmissionIInv /\ [AdmissionNext]_admissionVars => AdmissionIInv'
  <2>1. AdmissionIInv /\ UNCHANGED admissionVars => AdmissionIInv'
    BY DEF AdmissionIInv, AdmissionTypes, AttemptOK, Fits, Taken, admissionVars
  <2> QED
    BY <2>1, SnapshotKeepsLimits, EvaluateKeepsLimits, CommitKeepsLimits, RemovalKeepsLimits
       DEF AdmissionNext
<1>3. AdmissionIInv => AnyFillsWithinLimits
  <2> SUFFICES ASSUME AdmissionIInv, NEW filled \in SUBSET Taken(reserved)
               PROVE  WithinLimits(confirmed, Taken(confirmed), reserved, filled)
    BY DEF AnyFillsWithinLimits
  <2> QED
    BY FewerFit DEF AdmissionIInv, AdmissionTypes
<1> QED
  BY <1>1, <1>2, <1>3, PTL DEF AdmissionSpec
-----------------------------------------------------------------------------
(* The hedge. *)

\* q is between the two, either of which may be the larger.
Between(start, to, q) == SmallerOf(start, to) <= q /\ q <= LargerOf(start, to)

\* An order.
OrderForms == [side : {-1, 0, 1}, qty : Nat, reduceOnly : BOOLEAN]

\* A plan.
HedgePlans == [target : Int, start : Int, projected : Int, orders : Seq(OrderForms)]

\* How far the orders answered can have moved the position: a crossing's second
\* order alone takes it past zero.
Filled(plan) ==
    /\ answered \subseteq DOMAIN plan.orders
    /\ answered = {} => perp = plan.start
    /\ CrossesZero(plan.start, plan.projected) /\ 2 \notin answered => Between(plan.start, 0, perp)
    /\ Between(plan.start, plan.projected, perp)

\* A plan leads to within half a lot of its target, a lot away or more.
HedgePlanOK ==
    /\ hedge \in HedgePlans
    /\ hedge.orders = Orders(hedge.start, hedge.projected)
    /\ 2 * Abs(hedge.projected - hedge.target) <= Lot
    /\ Abs(hedge.projected - hedge.start) >= Lot
    /\ Filled(hedge)

\* The inductive invariant of the hedge.
HedgeIInv ==
    /\ optionDelta \in Int /\ perp \in Int
    /\ hedge = NoPlan => answered = {}
    /\ hedge # NoPlan => HedgePlanOK

-----------------------------------------------------------------------------
\* Whole lots below and above an amount.
LEMMA Lots ==
    ASSUME NEW a \in Nat
    PROVE  \E d \in Nat, u \in Nat :
             /\ d = a \div Lot /\ u = (a + Lot - 1) \div Lot
             /\ d * Lot <= a /\ a < d * Lot + Lot
             /\ a <= u * Lot /\ u * Lot < a + Lot
             /\ u * Lot <= d * Lot + Lot
<1> DEFINE d == a \div Lot
           u == (a + Lot - 1) \div Lot
<1>1. Lot \in Nat \ {0}
  BY HedgeAssumption
<1>2. d \in Nat /\ Lot * d <= a /\ a < Lot * d + Lot
  BY <1>1
<1>3. a + Lot - 1 \in Nat
  BY <1>1
<1>4. u \in Nat /\ Lot * u <= a + Lot - 1 /\ a + Lot - 1 < Lot * u + Lot
  BY <1>1, <1>3
<1> HIDE DEF d, u
<1>5. Lot * d = d * Lot /\ Lot * u = u * Lot
  BY <1>1, <1>2, <1>4
<1>6. u <= d + 1
  <2> SUFFICES ASSUME u >= d + 2 PROVE FALSE
    BY <1>2, <1>4
  <2>1. Lot * u >= Lot * (d + 2)
    BY <1>1, <1>2, <1>4
  <2>2. Lot * (d + 2) = Lot * d + 2 * Lot
    BY <1>1, <1>2
  <2> QED
    BY <1>1, <1>2, <1>4, <2>1, <2>2
<1>7. u * Lot <= d * Lot + Lot
  <2>1. u * Lot <= (d + 1) * Lot
    BY <1>1, <1>2, <1>4, <1>6
  <2>2. (d + 1) * Lot = d * Lot + Lot
    BY <1>1, <1>2
  <2> QED
    BY <2>1, <2>2
<1>8. /\ d * Lot \in Int /\ u * Lot \in Int
  BY <1>1, <1>2, <1>4
<1>9. d = a \div Lot /\ u = (a + Lot - 1) \div Lot
  BY DEF d, u
<1> QED
  BY <1>1, <1>2, <1>4, <1>5, <1>7, <1>8, <1>9

\* nearestLotQuantity is within half a lot, on the same side of zero.
LEMMA NearestIsNear ==
    ASSUME NEW r \in Int
    PROVE  /\ NearestLot(r) \in Int
           /\ 2 * Abs(r - NearestLot(r)) <= Lot
<1>1. Abs(r) \in Nat
  BY DEF Abs
<1>2. PICK d \in Nat, u \in Nat :
             /\ d = Abs(r) \div Lot /\ u = (Abs(r) + Lot - 1) \div Lot
             /\ d * Lot <= Abs(r) /\ Abs(r) < d * Lot + Lot
             /\ Abs(r) <= u * Lot /\ u * Lot < Abs(r) + Lot
             /\ u * Lot <= d * Lot + Lot
  BY <1>1, Lots
<1>3. Lot \in Nat
  BY HedgeAssumption
<1>4. PICK l \in Int : l = d * Lot
  BY <1>3
<1>5. PICK h \in Int : h = u * Lot
  BY <1>3
<1>6. NearestLot(r) = Sign(r) * (IF Abs(r) - l <= h - Abs(r) THEN l ELSE h)
  BY <1>2, <1>4, <1>5 DEF NearestLot
<1>7. PICK n \in Int : n = (IF Abs(r) - l <= h - Abs(r) THEN l ELSE h)
  BY <1>4, <1>5
<1>8. 2 * Abs(Abs(r) - n) <= Lot
  <2>1. PICK a \in Nat : a = Abs(r)
    BY <1>1
  <2>2. l <= a /\ a < l + Lot /\ a <= h /\ h < a + Lot /\ h <= l + Lot
    BY <1>2, <1>4, <1>5, <2>1
  <2>3. n = (IF a - l <= h - a THEN l ELSE h)
    BY <1>7, <2>1
  <2>4. 2 * Abs(a - n) <= Lot
    BY <1>3, <2>2, <2>3 DEF Abs
  <2> QED
    BY <2>1, <2>4
<1>9. NearestLot(r) = (IF r > 0 THEN n ELSE IF r = 0 THEN 0 ELSE -n)
  <2>1. Sign(r) * n = (IF r > 0 THEN n ELSE IF r = 0 THEN 0 ELSE -n)
    BY <1>7 DEF Sign
  <2> QED
    BY <1>6, <1>7, <2>1
<1> QED
  BY <1>3, <1>7, <1>8, <1>9 DEF Abs

\* On the way to within half a lot of a target that is more than half a lot away
\* nothing is further from it than the start.
LEMMA OnTheWayIsNearer ==
    ASSUME NEW target \in Int, NEW start \in Int, NEW end \in Int, NEW q \in Int,
           2 * Abs(end - target) <= Lot, Abs(end - start) >= Lot, Between(start, end, q)
    PROVE  Abs(q - target) <= Abs(start - target)
BY HedgeAssumption DEF Abs, Between, SmallerOf, LargerOf

\* The orders of a plan.
LEMMA OrdersAre ==
    ASSUME NEW start \in Int, NEW to \in Int
    PROVE  /\ Orders(start, to) \in Seq(OrderForms)
           /\ ~CrossesZero(start, to) =>
                Orders(start, to) = <<[side |-> Sign(to - start), qty |-> Abs(to - start),
                                      reduceOnly |-> Reduces(start, to)]>>
           /\ CrossesZero(start, to) =>
                Orders(start, to) = <<[side |-> Sign(to - start), qty |-> Abs(start), reduceOnly |-> TRUE],
                                     [side |-> Sign(to - start), qty |-> Abs(to), reduceOnly |-> FALSE]>>
<1>1. Sign(to - start) \in {-1, 0, 1} /\ Abs(to - start) \in Nat /\ Abs(start) \in Nat /\ Abs(to) \in Nat
  BY DEF Sign, Abs
<1>2. Reduces(start, to) \in BOOLEAN
  BY DEF Reduces
<1>3. CASE ~CrossesZero(start, to)
  <2>1. Orders(start, to) = <<[side |-> Sign(to - start), qty |-> Abs(to - start),
                              reduceOnly |-> Reduces(start, to)]>>
    BY <1>3, Zenon DEF Orders
  <2>2. [side |-> Sign(to - start), qty |-> Abs(to - start), reduceOnly |-> Reduces(start, to)]
            \in OrderForms
    BY <1>1, <1>2 DEF OrderForms
  <2>3. \A o \in OrderForms : <<o>> \in Seq(OrderForms)
    OBVIOUS
  <2>4. Orders(start, to) \in Seq(OrderForms)
    BY <2>1, <2>2, <2>3, Zenon
  <2> QED
    BY <1>3, <2>1, <2>4, Zenon
<1>4. CASE CrossesZero(start, to)
  <2>1. Orders(start, to) =
            <<[side |-> Sign(to - start), qty |-> Abs(start), reduceOnly |-> TRUE],
              [side |-> Sign(to - start), qty |-> Abs(to), reduceOnly |-> FALSE]>>
    BY <1>4, Zenon DEF Orders
  <2>2. /\ [side |-> Sign(to - start), qty |-> Abs(start), reduceOnly |-> TRUE] \in OrderForms
        /\ [side |-> Sign(to - start), qty |-> Abs(to), reduceOnly |-> FALSE] \in OrderForms
    BY <1>1 DEF OrderForms
  <2>3. \A o, p \in OrderForms : <<o, p>> \in Seq(OrderForms)
    OBVIOUS
  <2>4. Orders(start, to) \in Seq(OrderForms)
    BY <2>1, <2>2, <2>3, Zenon
  <2> QED
    BY <1>4, <2>1, <2>4, Zenon
<1> QED
  BY <1>3, <1>4

\* What one order of a plan is.
LEMMA OrderIs ==
    ASSUME NEW start \in Int, NEW to \in Int, NEW i \in DOMAIN Orders(start, to)
    PROVE  /\ Orders(start, to)[i].side = Sign(to - start)
           /\ ~CrossesZero(start, to) => i = 1 /\ Orders(start, to)[i].qty = Abs(to - start)
           /\ CrossesZero(start, to) =>
                \/ i = 1 /\ Orders(start, to)[i].qty = Abs(start) /\ Orders(start, to)[i].reduceOnly = TRUE
                \/ i = 2 /\ Orders(start, to)[i].qty = Abs(to) /\ Orders(start, to)[i].reduceOnly = FALSE
<1>1. \A o : DOMAIN <<o>> = {1} /\ <<o>>[1] = o
  OBVIOUS
<1>2. \A o, p : DOMAIN <<o, p>> = {1, 2} /\ <<o, p>>[1] = o /\ <<o, p>>[2] = p
  OBVIOUS
<1>3. CASE ~CrossesZero(start, to)
  <2>1. PICK o : /\ o = [side |-> Sign(to - start), qty |-> Abs(to - start),
                         reduceOnly |-> Reduces(start, to)]
                 /\ Orders(start, to) = <<o>>
    BY <1>3, ZenonT(60) DEF Orders
  <2>2. o.side = Sign(to - start) /\ o.qty = Abs(to - start)
    BY <2>1
  <2>3. i = 1 /\ Orders(start, to)[i] = o
    BY <1>1, <2>1
  <2> QED
    BY <1>3, <2>2, <2>3, Zenon
<1>4. CASE CrossesZero(start, to)
  <2>1. PICK o, p : /\ o = [side |-> Sign(to - start), qty |-> Abs(start), reduceOnly |-> TRUE]
                    /\ p = [side |-> Sign(to - start), qty |-> Abs(to), reduceOnly |-> FALSE]
                    /\ Orders(start, to) = <<o, p>>
    BY <1>4, ZenonT(60) DEF Orders
  <2>2. /\ o.side = Sign(to - start) /\ o.qty = Abs(start) /\ o.reduceOnly = TRUE
        /\ p.side = Sign(to - start) /\ p.qty = Abs(to) /\ p.reduceOnly = FALSE
    BY <2>1
  <2>3. (i = 1 /\ Orders(start, to)[i] = o) \/ (i = 2 /\ Orders(start, to)[i] = p)
    <3>1. /\ DOMAIN Orders(start, to) = {1, 2}
          /\ Orders(start, to)[1] = o /\ Orders(start, to)[2] = p
      <4>1. DOMAIN <<o, p>> = {1, 2} /\ <<o, p>>[1] = o /\ <<o, p>>[2] = p
        BY <1>2
      <4> QED
        BY <2>1, <4>1, Zenon
    <3>2. i = 1 \/ i = 2
      BY <3>1
    <3> QED
      BY <3>1, <3>2, Zenon
  <2> QED
    BY <1>4, <2>2, <2>3, Zenon
<1> QED
  BY <1>3, <1>4

\* A new plan, from the position as it is.
LEMMA PlanKeeps ==
    ASSUME HedgeIInv, NEW depth \in Depths, NEW used \in UsedMargins, Plan(depth, used)
    PROVE  HedgeIInv'
<1>1. optionDelta \in Int /\ perp \in Int /\ hedge = NoPlan /\ answered = {}
  BY DEF HedgeIInv, Plan
<1>2. -optionDelta - perp \in Int
  BY <1>1
<1>3. PICK r \in Int : r = -optionDelta - perp
  BY <1>2
<1>4. NearestLot(r) \in Int /\ 2 * Abs(r - NearestLot(r)) <= Lot
  BY NearestIsNear
<1>5. PICK n \in Int : n = NearestLot(r)
  BY <1>4
<1>6. PICK p \in Int : p = perp + n
  BY <1>1
<1>7. PICK t \in Int : t = -optionDelta
  BY <1>1
<1>8. /\ Abs(n) >= Lot
      /\ hedge' = [target |-> t, start |-> perp, projected |-> p, orders |-> Orders(perp, p)]
      /\ UNCHANGED <<optionDelta, perp, revision, answered>>
  BY <1>3, <1>5, <1>6, <1>7 DEF Plan
<1>9. Orders(perp, p) \in Seq(OrderForms)
  BY <1>1, OrdersAre
<1>10. /\ hedge'.target = t /\ hedge'.start = perp /\ hedge'.projected = p
       /\ hedge'.orders = Orders(perp, p)
  BY <1>8
<1>11. hedge' \in HedgePlans
  BY <1>1, <1>8, <1>9 DEF HedgePlans
<1>12. 2 * Abs(p - t) <= Lot
  <2>1. p - t = -(r - n)
    BY <1>1, <1>3, <1>6, <1>7
  <2> QED
    BY <1>4, <1>5, <2>1 DEF Abs
<1>13. Abs(p - perp) >= Lot
  <2>1. p - perp = n
    BY <1>1, <1>6
  <2> QED
    BY <1>8, <2>1
<1>14. (CrossesZero(perp, p) => Between(perp, 0, perp)) /\ Between(perp, p, perp)
  BY <1>1 DEF Between, SmallerOf, LargerOf
<1>15. perp' = perp /\ answered' = {} /\ optionDelta' = optionDelta
  BY <1>1, <1>8
<1>16. Filled(hedge)'
  BY <1>10, <1>14, <1>15 DEF Filled
<1>17. HedgePlanOK'
  BY <1>10, <1>11, <1>12, <1>13, <1>15, <1>16 DEF HedgePlanOK
<1> QED
  BY <1>1, <1>15, <1>17 DEF HedgeIInv

\* A fill of an order of the plan.
LEMMA FillKeeps ==
    ASSUME HedgeIInv, NEW i \in 1 .. 2, NEW lots \in 0 .. MostLots, Fill(i, lots)
    PROVE  HedgeIInv'
<1>1. /\ optionDelta \in Int /\ perp \in Int
      /\ hedge # NoPlan /\ HedgePlanOK /\ i \notin answered
      /\ i \in DOMAIN hedge.orders
      /\ answered' = answered \cup {i} /\ optionDelta' = optionDelta /\ hedge' = hedge
  BY DEF HedgeIInv, Fill
<1>2. PICK start \in Int : start = hedge.start
  BY <1>1 DEF HedgePlanOK, HedgePlans
<1>3. PICK to \in Int : to = hedge.projected
  BY <1>1 DEF HedgePlanOK, HedgePlans
<1>4. hedge.orders = Orders(start, to) /\ Filled(hedge)
  BY <1>1, <1>2, <1>3 DEF HedgePlanOK
<1>5. PICK o : o = hedge.orders[i]
  OBVIOUS
<1>6. /\ o.side = Sign(to - start)
      /\ ~CrossesZero(start, to) => i = 1 /\ o.qty = Abs(to - start)
      /\ CrossesZero(start, to) =>
            \/ i = 1 /\ o.qty = Abs(start) /\ o.reduceOnly = TRUE
            \/ i = 2 /\ o.qty = Abs(to) /\ o.reduceOnly = FALSE
  <2>1. PICK j \in DOMAIN Orders(start, to) : j = i
    BY <1>1, <1>4, Zenon
  <2>2. o = Orders(start, to)[j]
    BY <1>4, <1>5, <2>1, Zenon
  <2> QED
    BY <2>1, <2>2, OrderIs, ZenonT(60)
<1>7. PICK most : /\ most = (IF ~o.reduceOnly THEN o.qty
                             ELSE IF Sign(perp) = -o.side THEN SmallerOf(o.qty, Abs(perp)) ELSE 0)
                  /\ lots * Lot <= most
                  /\ perp' = perp + o.side * lots * Lot
  BY <1>5, Zenon DEF Fill
<1>8. PICK s \in {-1, 0, 1} : s = Sign(to - start)
  BY DEF Sign
<1>9. lots \in Nat /\ Lot \in Nat
  BY HedgeAssumption
<1>10. PICK amount \in Nat : amount = lots * Lot
  BY <1>9
<1>11. s * lots * Lot = (IF s = 1 THEN amount ELSE IF s = 0 THEN 0 ELSE -amount)
  <2>1. CASE s = 1
    BY <1>9, <1>10, <2>1
  <2>2. CASE s = 0
    BY <1>9, <1>10, <2>2
  <2>3. CASE s = -1
    <3>1. s * lots = -lots
      BY <1>9, <2>3
    <3>2. (-lots) * Lot = -(lots * Lot)
      BY <1>9
    <3> QED
      BY <1>10, <2>3, <3>1, <3>2
  <2> QED
    BY <2>1, <2>2, <2>3
<1>12. perp' = perp + (IF s = 1 THEN amount ELSE IF s = 0 THEN 0 ELSE -amount)
  BY <1>6, <1>7, <1>8, <1>11
<1>13. amount <= most
  BY <1>7, <1>10
<1>14. perp' \in Int
  BY <1>1, <1>12
<1>15. s = (IF to > start THEN 1 ELSE IF to = start THEN 0 ELSE -1)
  BY <1>8 DEF Sign
<1>16. /\ answered = {} => perp = start
       /\ CrossesZero(start, to) /\ 2 \notin answered => Between(start, 0, perp)
       /\ Between(start, to, perp)
       /\ answered \subseteq DOMAIN Orders(start, to)
  BY <1>2, <1>3, <1>4 DEF Filled
<1>17. /\ CrossesZero(start, to) /\ 2 \notin answered' => Between(start, 0, perp')
       /\ Between(start, to, perp')
  <2>1. CASE ~CrossesZero(start, to)
    <3>1. \A j \in DOMAIN Orders(start, to) : j = 1
      BY <2>1, OrderIs, Zenon
    <3>2. i = 1 /\ answered = {}
      BY <1>1, <1>4, <1>16, <3>1
    <3>3. amount <= Abs(to - start)
      <4>1. Abs(to - start) \in Nat
        BY DEF Abs
      <4>2. PICK q \in Nat : q = Abs(to - start)
        BY <4>1
      <4>3. PICK held \in Nat : held = Abs(perp)
        BY <1>1 DEF Abs
      <4>4. o.qty = q
        BY <1>6, <2>1, <4>2, Zenon
      <4>5. most = q \/ most = SmallerOf(q, held) \/ most = 0
        BY <1>7, <4>3, <4>4, Zenon
      <4> QED
        BY <1>13, <4>2, <4>5 DEF SmallerOf
    <3> QED
      BY <1>12, <1>14, <1>15, <1>16, <2>1, <3>2, <3>3 DEF Abs, Between, SmallerOf, LargerOf
  <2>2. CASE CrossesZero(start, to) /\ i = 1
    <3>1. most = (IF Sign(perp) = -s THEN SmallerOf(Abs(start), Abs(perp)) ELSE 0)
      BY <1>6, <1>7, <1>8, <2>2
    <3>2. 2 \notin answered' => 2 \notin answered
      BY <1>1
    <3>3. CASE start < 0 /\ to > 0
      <4>1. /\ s = 1 /\ start <= perp /\ perp <= to
            /\ 2 \notin answered => perp <= 0
        BY <1>15, <1>16, <2>2, <3>3 DEF Between, SmallerOf, LargerOf
      <4>2. IF perp < 0 THEN amount <= -perp ELSE amount = 0
        BY <1>1, <1>13, <3>1, <3>3, <4>1 DEF Abs, SmallerOf, Sign
      <4>3. perp' = perp + amount
        BY <1>1, <1>12, <4>1
      <4>4. start <= perp' /\ perp' <= to /\ (2 \notin answered => perp' <= 0)
        BY <1>1, <3>3, <4>1, <4>2, <4>3
      <4> QED
        BY <1>14, <3>2, <3>3, <4>4 DEF Between, SmallerOf, LargerOf
    <3>4. CASE start > 0 /\ to < 0
      <4>1. /\ s = -1 /\ to <= perp /\ perp <= start
            /\ 2 \notin answered => 0 <= perp
        BY <1>15, <1>16, <2>2, <3>4 DEF Between, SmallerOf, LargerOf
      <4>2. IF perp > 0 THEN amount <= perp ELSE amount = 0
        BY <1>1, <1>13, <3>1, <3>4, <4>1 DEF Abs, SmallerOf, Sign
      <4>3. perp' = perp - amount
        BY <1>1, <1>12, <4>1
      <4>4. to <= perp' /\ perp' <= start /\ (2 \notin answered => 0 <= perp')
        BY <1>1, <3>4, <4>1, <4>2, <4>3
      <4> QED
        BY <1>14, <3>2, <3>4, <4>4 DEF Between, SmallerOf, LargerOf
    <3> QED
      BY <2>2, <3>3, <3>4 DEF CrossesZero, Sign
  <2>3. CASE CrossesZero(start, to) /\ i = 2
    <3>1. most = Abs(to)
      BY <1>6, <1>7, <2>3
    <3>2. 2 \in answered' /\ 2 \notin answered
      BY <1>1, <2>3
    <3> QED
      BY <1>1, <1>12, <1>13, <1>14, <1>15, <1>16, <2>3, <3>1, <3>2
         DEF Abs, Between, SmallerOf, LargerOf, Sign, CrossesZero
  <2> QED
    BY <1>6, <2>1, <2>2, <2>3
<1>18. /\ (answered = {})' => perp' = start
       /\ answered' \subseteq DOMAIN Orders(start, to)
  BY <1>1, <1>4, <1>16
<1>19. Filled(hedge)'
  BY <1>1, <1>2, <1>3, <1>4, <1>17, <1>18 DEF Filled
<1>20. HedgePlanOK'
  BY <1>1, <1>19 DEF HedgePlanOK
<1> QED
  BY <1>1, <1>14, <1>20 DEF HedgeIInv

\* HedgeOnlyImproves (planHyperliquidHedge): however the orders of a plan arrive
\* and fill, the position is nearer the target than it was, for any lot, band,
\* deltas and depths.
THEOREM HedgesOnlyImprove == HedgeSpec => []HedgeOnlyImproves
<1>1. HedgeInit => HedgeIInv
  BY DEF HedgeInit, HedgeIInv
<1>2. HedgeIInv /\ [HedgeNext]_hedgeVars => HedgeIInv'
  <2>1. HedgeIInv /\ UNCHANGED hedgeVars => HedgeIInv'
    BY DEF HedgeIInv, HedgePlanOK, Filled, hedgeVars
  <2>2. ASSUME HedgeIInv, NEW d \in Deltas, DeltaMoves(d) PROVE HedgeIInv'
    <3>1. optionDelta' \in Int /\ UNCHANGED <<perp, hedge, answered>>
      BY <2>2, HedgeAssumption DEF DeltaMoves
    <3> QED
      BY <2>2, <3>1 DEF HedgeIInv, HedgePlanOK, Filled
  <2>3. HedgeIInv /\ Reconcile => HedgeIInv'
    BY DEF HedgeIInv, Reconcile
  <2> QED
    BY <2>1, <2>2, <2>3, PlanKeeps, FillKeeps DEF HedgeNext
<1>3. HedgeIInv => HedgeOnlyImproves
  <2> SUFFICES ASSUME HedgeIInv, hedge # NoPlan
               PROVE  /\ 2 * Abs(hedge.projected - hedge.target) <= Lot
                      /\ Abs(perp - hedge.target) <= Abs(hedge.start - hedge.target)
                      /\ Between(hedge.start, hedge.projected, perp)
    BY DEF HedgeOnlyImproves, Between
  <2>1. /\ hedge.target \in Int /\ hedge.start \in Int /\ hedge.projected \in Int /\ perp \in Int
        /\ 2 * Abs(hedge.projected - hedge.target) <= Lot
        /\ Abs(hedge.projected - hedge.start) >= Lot
        /\ Between(hedge.start, hedge.projected, perp)
    BY DEF HedgeIInv, HedgePlanOK, HedgePlans, Filled
  <2> QED
    BY <2>1, OnTheWayIsNearer
<1> QED
  BY <1>1, <1>2, <1>3, PTL DEF HedgeSpec

-----------------------------------------------------------------------------
(* The maker channel. *)

\* The messages a bot is sent.
RfqOpen(r) == [type |-> "rfq_open", rfq |-> r]
BotMessages ==
    [type : {"auth_challenge", "auth_ok", "superseded"}]
    \cup [type : {"rfq_open", "rfq_closed"}, rfq : Auctions]

\* The messages under way to the bot of a connection.
Box(c) == ToSet(toBot[c])

\* The server's side of a connection.
SessionStates ==
    [opened : BOOLEAN, up : BOOLEAN, registered : BOOLEAN, named : BOOLEAN,
     verifying : SUBSET BOOLEAN, replay : SUBSET Auctions]

\* A bot.
BotStates ==
    [ws : Connections \cup {NoConnection}, authed : BOOLEAN, stopped : BOOLEAN,
     signing : SUBSET Connections, building : SUBSET Auctions, quoted : SUBSET Auctions]

\* The types the proof needs.
MakerTypes ==
    /\ auction \in [Auctions -> {"none", "stored", "open", "ended", "closed"}]
    /\ session \in [Connections -> SessionStates]
    /\ toBot \in [Connections -> Seq(BotMessages)]
    /\ bot \in [Bots -> BotStates]

\* A connection that nobody opened is down and unnamed, and each connection is
\* one bot's.
ConnectionsOwned ==
    /\ \A c \in Connections :
          ~session[c].opened => ~session[c].up /\ ~session[c].named /\ session[c].verifying = {}
    /\ \A b \in Bots : bot[b].ws # NoConnection => session[bot[b].ws].opened
    /\ \A b, d \in Bots : bot[b].ws # NoConnection /\ bot[b].ws = bot[d].ws => b = d

\* rfq_closed is only sent of an auction that is over.
ClosedIsTrue ==
    \A c \in Connections, m \in BotMessages :
        m \in Box(c) /\ m.type = "rfq_closed" => auction[m.rfq] = "closed"

\* The maker has one session.
OneSession ==
    \A c, d \in Connections : Authenticated(session[c]) /\ Authenticated(session[d]) => c = d

\* The auction is to be replayed, is under way, or is at the bot.
Reached(b, r) ==
    \/ r \in session[bot[b].ws].replay \/ RfqOpen(r) \in Box(bot[b].ws)
    \/ r \in bot[b].building \cup bot[b].quoted

\* The bot's connection is authenticated and up.
Live(b) ==
    bot[b].ws # NoConnection /\ Authenticated(session[bot[b].ws]) /\ session[bot[b].ws].up

\* Every open auction has reached the bot of a live connection.
AllReached ==
    \A b \in Bots, r \in Auctions : Live(b) /\ auction[r] = "open" => Reached(b, r)

\* The inductive invariant.
MakerIInv == MakerTypes /\ ConnectionsOwned /\ ClosedIsTrue /\ OneSession /\ AllReached

-----------------------------------------------------------------------------
\* One more message at the end of a queue.
LEMMA AppendHolds ==
    ASSUME NEW S, NEW s \in Seq(S), NEW e \in S
    PROVE  Append(s, e) \in Seq(S) /\ ToSet(Append(s, e)) = ToSet(s) \cup {e}
<1>1. /\ Append(s, e) \in Seq(S) /\ Len(s) \in Nat
      /\ DOMAIN s = 1 .. Len(s) /\ DOMAIN Append(s, e) = 1 .. Len(s) + 1
      /\ \A i \in 1 .. Len(s) : Append(s, e)[i] = s[i]
      /\ Append(s, e)[Len(s) + 1] = e
  OBVIOUS
<1>2. ASSUME NEW x \in ToSet(Append(s, e)) PROVE x \in ToSet(s) \cup {e}
  <2>1. PICK i \in 1 .. Len(s) + 1 : x = Append(s, e)[i]
    BY <1>1, <1>2 DEF ToSet
  <2> QED
    BY <1>1, <2>1 DEF ToSet
<1>3. ASSUME NEW x \in ToSet(s) \cup {e} PROVE x \in ToSet(Append(s, e))
  <2>1. CASE x \in ToSet(s)
    <3>1. PICK i \in 1 .. Len(s) : x = s[i]
      BY <1>1, <2>1 DEF ToSet
    <3> QED
      BY <1>1, <3>1 DEF ToSet
  <2>2. CASE x = e
    BY <1>1, <2>2 DEF ToSet
  <2> QED
    BY <1>3, <2>1, <2>2
<1> QED
  BY <1>1, <1>2, <1>3

\* The first message of a queue, and the rest.
LEMMA TailHolds ==
    ASSUME NEW S, NEW s \in Seq(S), s # <<>>
    PROVE  /\ Tail(s) \in Seq(S) /\ Head(s) \in S
           /\ ToSet(s) = {Head(s)} \cup ToSet(Tail(s))
<1>1. /\ Tail(s) \in Seq(S) /\ Len(s) \in Nat \ {0} /\ Head(s) = s[1] /\ s[1] \in S
      /\ DOMAIN s = 1 .. Len(s) /\ DOMAIN Tail(s) = 1 .. Len(s) - 1
      /\ \A i \in 1 .. Len(s) - 1 : Tail(s)[i] = s[i + 1]
  OBVIOUS
<1>2. ASSUME NEW x \in ToSet(s) PROVE x \in {Head(s)} \cup ToSet(Tail(s))
  <2>1. PICK i \in 1 .. Len(s) : x = s[i]
    BY <1>1, <1>2 DEF ToSet
  <2>2. CASE i = 1
    BY <1>1, <2>1, <2>2
  <2>3. CASE i # 1
    <3>1. i - 1 \in 1 .. Len(s) - 1 /\ Tail(s)[i - 1] = s[i]
      BY <1>1, <2>3
    <3> QED
      BY <1>1, <2>1, <3>1 DEF ToSet
  <2> QED
    BY <2>2, <2>3
<1>3. ASSUME NEW x \in ToSet(Tail(s)) PROVE x \in ToSet(s)
  <2>1. PICK i \in 1 .. Len(s) - 1 : x = Tail(s)[i]
    BY <1>1, <1>3 DEF ToSet
  <2>2. i + 1 \in 1 .. Len(s) /\ x = s[i + 1]
    BY <1>1, <2>1
  <2> QED
    BY <1>1, <2>2 DEF ToSet
<1>4. Head(s) \in ToSet(s)
  BY <1>1 DEF ToSet
<1> QED
  BY <1>1, <1>2, <1>3, <1>4

\* A queue after another.
LEMMA ConcatHolds ==
    ASSUME NEW S, NEW s \in Seq(S), NEW t \in Seq(S)
    PROVE  (s \o t) \in Seq(S) /\ ToSet(s \o t) = ToSet(s) \cup ToSet(t)
<1>1. /\ (s \o t) \in Seq(S) /\ Len(s) \in Nat /\ Len(t) \in Nat
      /\ DOMAIN s = 1 .. Len(s) /\ DOMAIN t = 1 .. Len(t)
      /\ DOMAIN (s \o t) = 1 .. Len(s) + Len(t)
      /\ \A i \in 1 .. Len(s) : (s \o t)[i] = s[i]
      /\ \A i \in 1 .. Len(t) : (s \o t)[Len(s) + i] = t[i]
  OBVIOUS
<1>2. ASSUME NEW x \in ToSet(s \o t) PROVE x \in ToSet(s) \cup ToSet(t)
  <2>1. PICK i \in 1 .. Len(s) + Len(t) : x = (s \o t)[i]
    BY <1>1, <1>2 DEF ToSet
  <2>2. CASE i \in 1 .. Len(s)
    BY <1>1, <2>1, <2>2 DEF ToSet
  <2>3. CASE i \notin 1 .. Len(s)
    <3>1. PICK j \in 1 .. Len(t) : i = Len(s) + j
      <4>1. i - Len(s) \in 1 .. Len(t) /\ i = Len(s) + (i - Len(s))
        BY <1>1, <2>3
      <4> QED
        BY <4>1
    <3> QED
      BY <1>1, <2>1, <3>1 DEF ToSet
  <2> QED
    BY <2>2, <2>3
<1>3. ASSUME NEW x \in ToSet(s) \cup ToSet(t) PROVE x \in ToSet(s \o t)
  <2>1. CASE x \in ToSet(s)
    <3>1. PICK i \in 1 .. Len(s) : x = s[i]
      BY <1>1, <2>1 DEF ToSet
    <3>2. i \in 1 .. Len(s) + Len(t)
      BY <1>1
    <3> QED
      BY <1>1, <3>1, <3>2 DEF ToSet
  <2>2. CASE x \in ToSet(t)
    <3>1. PICK i \in 1 .. Len(t) : x = t[i]
      BY <1>1, <2>2 DEF ToSet
    <3>2. Len(s) + i \in 1 .. Len(s) + Len(t)
      BY <1>1
    <3> QED
      BY <1>1, <3>1, <3>2 DEF ToSet
  <2> QED
    BY <1>3, <2>1, <2>2
<1> QED
  BY <1>1, <1>2, <1>3

\* SetToSeq lists a finite set.
LEMMA SetToSeqHolds ==
    ASSUME NEW S, IsFiniteSet(S)
    PROVE  SetToSeq(S) \in Seq(S) /\ ToSet(SetToSeq(S)) = S
<1>1. PICK n \in Nat : n = Cardinality(S)
  BY FS_CardinalityType
<1>2. \E f \in [1 .. n -> S] : IsInjective(f)
  <2>1. ExistsBijection(1 .. n, S)
    BY <1>1, FS_CardinalityType
  <2> QED
    BY <2>1 DEF ExistsBijection, Bijection, Injection
<1>3. PICK f : f = SetToSeq(S) /\ f \in [1 .. n -> S] /\ IsInjective(f)
  <2>1. SetToSeq(S) = CHOOSE f \in [1 .. n -> S] : IsInjective(f)
    BY <1>1, Zenon DEF SetToSeq
  <2> QED
    BY <1>2, <2>1
<1>4. DOMAIN f = 1 .. n /\ f \in Seq(S)
  BY <1>3
<1>5. ToSet(f) \in SUBSET S
  BY <1>3, <1>4 DEF ToSet
<1>6. f \in Bijection(1 .. n, ToSet(f))
  <2>1. f \in [1 .. n -> ToSet(f)]
    BY <1>3, <1>4 DEF ToSet
  <2>2. \A t \in ToSet(f) : \E i \in 1 .. n : f[i] = t
    BY <1>4 DEF ToSet
  <2> QED
    BY <1>3, <2>1, <2>2 DEF Bijection, Injection, Surjection
<1>7. IsFiniteSet(1 .. n) /\ Cardinality(1 .. n) = n
  BY FS_Interval
<1>8. Cardinality(ToSet(f)) = n
  BY <1>6, <1>7, FS_Bijection, Zenon DEF ExistsBijection
<1>9. S = ToSet(f)
  BY <1>1, <1>5, <1>8, FS_Subset
<1> QED
  BY <1>3, <1>4, <1>9

-----------------------------------------------------------------------------
\* The queues of messages have their types.
LEMMA BoxTyped ==
    ASSUME MakerTypes, NEW c \in Connections
    PROVE  toBot[c] \in Seq(BotMessages) /\ Box(c) \in SUBSET BotMessages
<1>1. toBot[c] \in Seq(BotMessages)
  BY DEF MakerTypes
<1>2. \A s \in Seq(BotMessages) : ToSet(s) \in SUBSET BotMessages
  BY DEF ToSet
<1> QED
  BY <1>1, <1>2 DEF Box

\* A message to the sessions that hear.
LEMMA BroadcastHolds ==
    ASSUME MakerTypes, NEW m \in BotMessages, Broadcast(m)
    PROVE  /\ toBot' \in [Connections -> Seq(BotMessages)]
           /\ \A c \in Connections :
                 /\ Box(c) \subseteq Box(c)' /\ Box(c)' \subseteq Box(c) \cup {m}
                 /\ Authenticated(session[c]) /\ session[c].up => m \in Box(c)'
<1>1. \A c \in Connections :
         /\ Append(toBot[c], m) \in Seq(BotMessages)
         /\ ToSet(Append(toBot[c], m)) = ToSet(toBot[c]) \cup {m}
  BY BoxTyped, AppendHolds
<1>2. \A c \in Connections :
         toBot'[c] = IF Authenticated(session[c]) /\ session[c].up THEN Append(toBot[c], m)
                     ELSE toBot[c]
  BY DEF Broadcast, Hears
<1>3. toBot' \in [Connections -> Seq(BotMessages)]
  <2>1. \A c \in Connections : toBot'[c] \in Seq(BotMessages)
    BY <1>1, <1>2, BoxTyped
  <2>2. toBot' = [c \in Connections |-> toBot'[c]]
    BY DEF Broadcast
  <2> QED
    BY <2>1, <2>2
<1>4. ASSUME NEW c \in Connections
      PROVE  /\ Box(c) \subseteq Box(c)' /\ Box(c)' \subseteq Box(c) \cup {m}
             /\ Authenticated(session[c]) /\ session[c].up => m \in Box(c)'
  <2>1. CASE Authenticated(session[c]) /\ session[c].up
    <3>1. ToSet(toBot'[c]) = ToSet(toBot[c]) \cup {m}
      BY <1>1, <1>2, <2>1
    <3> QED
      BY <3>1 DEF Box
  <2>2. CASE ~(Authenticated(session[c]) /\ session[c].up)
    <3>1. toBot'[c] = toBot[c]
      BY <1>2, <2>2
    <3> QED
      BY <2>2, <3>1 DEF Box
  <2> QED
    BY <2>1, <2>2
<1> QED
  BY <1>3, <1>4

\* What the invariant asks of a step, piece by piece: sessions that authenticate
\* no one else, bots that keep what they have, and messages that are not lost to
\* a live bot.
LEMMA MakerStep ==
    ASSUME MakerIInv, MakerTypes', ConnectionsOwned', OneSession',
           \A c \in Connections, m \in BotMessages :
              m \in Box(c)' /\ m.type = "rfq_closed" => m \in Box(c) \/ auction'[m.rfq] = "closed",
           \A r \in Auctions : auction[r] = "closed" => auction'[r] = "closed",
           \A b \in Bots, r \in Auctions : Live(b)' /\ auction'[r] = "open" => Reached(b, r)'
    PROVE  MakerIInv'
<1>1. ASSUME NEW c \in Connections, NEW m \in BotMessages, m \in Box(c)', m.type = "rfq_closed"
      PROVE  auction'[m.rfq] = "closed"
  <2>1. m.rfq \in Auctions
    BY <1>1 DEF BotMessages
  <2> QED
    BY <1>1, <2>1 DEF MakerIInv, ClosedIsTrue
<1>2. ClosedIsTrue'
  BY <1>1 DEF ClosedIsTrue
<1>3. AllReached'
  BY DEF AllReached
<1> QED
  BY <1>2, <1>3 DEF MakerIInv

\* The life of an auction (openRfq, the auction's timer).
LEMMA AuctionSteps ==
    ASSUME MakerIInv, NEW r \in Auctions,
           OpenRfq(r) \/ Announce(r) \/ AuctionEnds(r) \/ Closes(r)
    PROVE  MakerIInv'
<1>1. MakerTypes /\ ConnectionsOwned /\ OneSession /\ AllReached
  BY DEF MakerIInv
<1>2. /\ session' = session /\ bot' = bot
      /\ auction[r] # "closed"
      /\ auction' \in [Auctions -> {"none", "stored", "open", "ended", "closed"}]
      /\ \A x \in Auctions \ {r} : auction'[x] = auction[x]
  BY <1>1 DEF OpenRfq, Announce, AuctionEnds, Closes, MakerTypes
<1>3. ConnectionsOwned' /\ OneSession'
  BY <1>1, <1>2 DEF ConnectionsOwned, OneSession
<1>4. \A x \in Auctions : auction[x] = "closed" => auction'[x] = "closed"
  BY <1>2
<1>5. \A b \in Bots : Live(b)' <=> Live(b)
  BY <1>2 DEF Live
<1>6. CASE OpenRfq(r) \/ AuctionEnds(r)
  <2>1. toBot' = toBot /\ auction'[r] # "open"
    BY <1>1, <1>6 DEF OpenRfq, AuctionEnds, MakerTypes
  <2>2. MakerTypes'
    BY <1>1, <1>2, <2>1 DEF MakerTypes
  <2>3. \A c : Box(c)' = Box(c)
    BY <2>1 DEF Box
  <2>4. ASSUME NEW b \in Bots, NEW x \in Auctions, Live(b)', auction'[x] = "open"
        PROVE  Reached(b, x)'
    <3>1. Reached(b, x)
      BY <1>1, <1>2, <1>5, <2>1, <2>4 DEF AllReached
    <3> QED
      BY <1>2, <2>1, <3>1 DEF Reached, Box
  <2> QED
    BY <1>3, <1>4, <2>2, <2>3, <2>4, MakerStep
<1>7. CASE Announce(r) \/ Closes(r)
  <2>1. PICK m \in BotMessages :
            /\ Broadcast(m) /\ (m.type = "rfq_closed" => Closes(r) /\ m.rfq = r)
            /\ Announce(r) => m = RfqOpen(r)
    <3>1. CASE Announce(r)
      <4>1. RfqOpen(r) \in BotMessages /\ RfqOpen(r).type = "rfq_open"
        BY DEF BotMessages, RfqOpen
      <4>2. Broadcast(RfqOpen(r))
        BY <3>1 DEF Announce, RfqOpen
      <4> QED
        BY <4>1, <4>2
    <3>2. CASE Closes(r)
      <4>1. PICK m : m = [type |-> "rfq_closed", rfq |-> r]
        OBVIOUS
      <4>2. m \in BotMessages /\ m.rfq = r
        BY <4>1 DEF BotMessages
      <4>3. Broadcast(m)
        BY <3>2, <4>1 DEF Closes
      <4>4. ~Announce(r)
        BY <3>2 DEF Closes, Announce
      <4> QED
        BY <3>2, <4>2, <4>3, <4>4
    <3> QED
      BY <1>7, <3>1, <3>2
  <2>2. /\ toBot' \in [Connections -> Seq(BotMessages)]
        /\ \A c \in Connections :
                 /\ Box(c) \subseteq Box(c)' /\ Box(c)' \subseteq Box(c) \cup {m}
                 /\ Authenticated(session[c]) /\ session[c].up => m \in Box(c)'
    BY <1>1, <2>1, BroadcastHolds
  <2>3. MakerTypes'
    BY <1>1, <1>2, <2>2 DEF MakerTypes
  <2>4. Closes(r) => auction'[r] = "closed"
    BY <1>1 DEF Closes, MakerTypes
  <2>5. \A c \in Connections, n \in BotMessages :
              n \in Box(c)' /\ n.type = "rfq_closed" => n \in Box(c) \/ auction'[n.rfq] = "closed"
    BY <2>1, <2>2, <2>4
  <2>6. ASSUME NEW b \in Bots, NEW x \in Auctions, Live(b)', auction'[x] = "open"
        PROVE  Reached(b, x)'
    <3>1. /\ Live(b) /\ bot[b].ws \in Connections
      BY <1>1, <1>5, <2>6 DEF MakerTypes, BotStates, Live
    <3>2. CASE x = r
      <4>1. Announce(r)
        BY <1>7, <2>4, <2>6, <3>2
      <4>2. RfqOpen(r) \in Box(bot[b].ws)'
        BY <1>2, <2>1, <2>2, <3>1, <4>1 DEF Live
      <4> QED
        BY <1>2, <3>2, <4>2 DEF Reached
    <3>3. CASE x # r
      <4>1. Reached(b, x)
        BY <1>1, <1>2, <2>6, <3>1, <3>3 DEF AllReached
      <4> QED
        BY <1>2, <2>2, <3>1, <4>1 DEF Reached
    <3> QED
      BY <3>2, <3>3
  <2> QED
    BY <1>3, <1>4, <2>3, <2>5, <2>6, MakerStep
<1> QED
  BY <1>6, <1>7

\* A new connection is nobody's yet (connect, onMakerConnect).
LEMMA ConnectKeeps ==
    ASSUME MakerIInv, NEW b \in Bots, NEW c \in Connections, Connect(b, c)
    PROVE  MakerIInv'
<1>1. MakerTypes /\ ConnectionsOwned /\ OneSession /\ AllReached
  BY DEF MakerIInv
<1>2. PICK s : s = [session[c] EXCEPT !.opened = TRUE, !.up = TRUE, !.registered = TRUE]
  OBVIOUS
<1>3. session[c] \in SessionStates /\ ~session[c].opened /\ ~session[c].named
  BY <1>1 DEF Connect, Used, MakerTypes, ConnectionsOwned
<1>4. s \in SessionStates /\ s.opened /\ ~s.named
  BY <1>2, <1>3 DEF SessionStates
<1>5. PICK m : m = [type |-> "auth_challenge"]
  OBVIOUS
<1>6. m \in BotMessages /\ m.type = "auth_challenge"
  BY <1>5 DEF BotMessages
<1>7. /\ session' = [session EXCEPT ![c] = s] /\ toBot' = [toBot EXCEPT ![c] = <<m>>]
      /\ bot' = [bot EXCEPT ![b].ws = c, ![b].authed = FALSE]
      /\ auction' = auction /\ c # NoConnection
  BY <1>2, <1>5 DEF Connect, Connections, NoConnection
<1>8. /\ session'[c] = s /\ \A d \in Connections \ {c} : session'[d] = session[d]
      /\ toBot'[c] = <<m>> /\ \A d \in Connections \ {c} : toBot'[d] = toBot[d]
  BY <1>1, <1>7 DEF MakerTypes
<1>9. bot[b] \in BotStates
  BY <1>1 DEF MakerTypes
<1>10. /\ bot'[b] = [bot[b] EXCEPT !.ws = c, !.authed = FALSE]
       /\ \A d \in Bots \ {b} : bot'[d] = bot[d]
  BY <1>1, <1>7 DEF MakerTypes
<1>11. bot'[b] \in BotStates /\ bot'[b].ws = c
  BY <1>9, <1>10 DEF BotStates
<1>12. \A d \in Bots \ {b} : bot[d].ws # c /\ bot'[d].ws = bot[d].ws
  BY <1>1, <1>3, <1>7, <1>10 DEF ConnectionsOwned
<1>13. MakerTypes'
  <2>1. <<m>> \in Seq(BotMessages)
    BY <1>6
  <2>2. toBot' \in [Connections -> Seq(BotMessages)]
    BY <1>1, <1>7, <2>1 DEF MakerTypes
  <2>3. session' \in [Connections -> SessionStates]
    BY <1>1, <1>4, <1>7 DEF MakerTypes
  <2>4. bot' \in [Bots -> BotStates]
    <3>1. bot' = [bot EXCEPT ![b] = bot'[b]]
      BY <1>1, <1>7, <1>10 DEF MakerTypes
    <3> QED
      BY <1>1, <1>11, <3>1 DEF MakerTypes
  <2> QED
    BY <1>1, <1>7, <2>2, <2>3, <2>4 DEF MakerTypes
<1>14. ConnectionsOwned'
  <2>1. \A d \in Connections :
          ~session'[d].opened => ~session'[d].up /\ ~session'[d].named /\ session'[d].verifying = {}
    BY <1>1, <1>4, <1>8 DEF ConnectionsOwned
  <2>2. \A d \in Bots : bot'[d].ws # NoConnection => session'[bot'[d].ws].opened
    <3> SUFFICES ASSUME NEW d \in Bots, bot'[d].ws # NoConnection
                 PROVE  session'[bot'[d].ws].opened
      OBVIOUS
    <3>1. CASE d = b
      BY <1>4, <1>8, <1>11, <3>1
    <3>2. CASE d # b
      <4>1. bot[d].ws \in Connections \ {c} /\ bot'[d].ws = bot[d].ws
        BY <1>1, <1>12, <3>2 DEF MakerTypes, BotStates
      <4> QED
        BY <1>1, <1>8, <4>1 DEF ConnectionsOwned
    <3> QED
      BY <3>1, <3>2
  <2>3. \A d, e \in Bots : bot'[d].ws # NoConnection /\ bot'[d].ws = bot'[e].ws => d = e
    BY <1>1, <1>11, <1>12 DEF ConnectionsOwned
  <2> QED
    BY <2>1, <2>2, <2>3 DEF ConnectionsOwned
<1>15. OneSession'
  <2>1. ~Authenticated(session'[c])
    BY <1>4, <1>8 DEF Authenticated
  <2> QED
    BY <1>1, <1>8, <2>1 DEF OneSession
<1>16. ASSUME NEW d \in Connections, NEW n \in BotMessages, n \in Box(d)', n.type = "rfq_closed"
       PROVE  n \in Box(d)
  <2>1. CASE d = c
    <3>1. Box(c)' = {m}
      BY <1>8 DEF Box, ToSet
    <3> QED
      BY <1>6, <1>16, <2>1, <3>1
  <2>2. CASE d # c
    BY <1>8, <1>16, <2>2 DEF Box
  <2> QED
    BY <2>1, <2>2
<1>17. ASSUME NEW d \in Bots, NEW x \in Auctions, Live(d)', auction'[x] = "open"
       PROVE  Reached(d, x)'
  <2>1. d # b
    BY <1>4, <1>8, <1>11, <1>17 DEF Live, Authenticated
  <2>2. bot[d].ws \in Connections \ {c} /\ bot'[d] = bot[d]
    BY <1>1, <1>10, <1>12, <1>17, <2>1 DEF MakerTypes, BotStates, Live
  <2>3. Live(d) /\ auction[x] = "open"
    BY <1>7, <1>8, <1>17, <2>2 DEF Live
  <2>4. Reached(d, x)
    BY <1>1, <2>3 DEF AllReached
  <2> QED
    BY <1>8, <2>2, <2>4 DEF Reached, Box
<1> QED
  BY <1>7, <1>13, <1>14, <1>15, <1>16, <1>17, MakerStep

\* What a bot does with a message (MakerWsClient.handle, cmdRun).
LEMMA HandledIs ==
    ASSUME MakerTypes, NEW b \in Bots, NEW c \in Connections, NEW m \in BotMessages, bot[b].ws = c
    PROVE  /\ Handled(bot[b], c, m) \in BotStates
           /\ Handled(bot[b], c, m).ws \in {c, NoConnection}
           /\ bot[b].building \subseteq Handled(bot[b], c, m).building
           /\ \A x \in bot[b].quoted :
                 x \in Handled(bot[b], c, m).quoted \/ (m.type = "rfq_closed" /\ m.rfq = x)
           /\ \A x \in Auctions :
                 m = RfqOpen(x) =>
                    \/ x \in Handled(bot[b], c, m).building \cup Handled(bot[b], c, m).quoted
                    \/ auction[x] \in {"ended", "closed"}
<1>1. PICK v \in BotStates : v = bot[b] /\ v.ws = c
  BY DEF MakerTypes
<1>2. v.building \in SUBSET Auctions /\ v.quoted \in SUBSET Auctions /\ v.signing \in SUBSET Connections
  BY DEF BotStates
<1>3. PICK h : h = Handled(v, c, m)
  OBVIOUS
<1>4. CASE m.type = "auth_challenge"
  <2>1. h = [v EXCEPT !.signing = v.signing \cup {c}]
    BY <1>3, <1>4 DEF Handled
  <2>2. h \in BotStates /\ h.ws = c /\ h.building = v.building /\ h.quoted = v.quoted
    BY <1>1, <1>2, <2>1 DEF BotStates
  <2>3. \A x : m # RfqOpen(x)
    BY <1>4 DEF RfqOpen
  <2> QED
    BY <1>1, <1>3, <2>2, <2>3
<1>5. CASE m.type = "auth_ok"
  <2>1. h = [v EXCEPT !.authed = TRUE]
    BY <1>3, <1>5 DEF Handled
  <2>2. h \in BotStates /\ h.ws = c /\ h.building = v.building /\ h.quoted = v.quoted
    BY <1>1, <1>2, <2>1 DEF BotStates
  <2>3. \A x : m # RfqOpen(x)
    BY <1>5 DEF RfqOpen
  <2> QED
    BY <1>1, <1>3, <2>2, <2>3
<1>6. CASE m.type = "superseded"
  <2>1. h = [v EXCEPT !.ws = NoConnection, !.stopped = TRUE]
    BY <1>3, <1>6 DEF Handled
  <2>2. h \in BotStates /\ h.ws = NoConnection /\ h.building = v.building /\ h.quoted = v.quoted
    BY <1>1, <1>2, <2>1 DEF BotStates
  <2>3. \A x : m # RfqOpen(x)
    BY <1>6 DEF RfqOpen
  <2> QED
    BY <1>1, <1>3, <2>2, <2>3
<1>7. CASE m.type = "rfq_closed"
  <2>1. h = [v EXCEPT !.quoted = v.quoted \ {m.rfq}]
    BY <1>3, <1>7 DEF Handled
  <2>2. h \in BotStates /\ h.ws = c /\ h.building = v.building /\ h.quoted = v.quoted \ {m.rfq}
    BY <1>1, <1>2, <2>1 DEF BotStates
  <2>3. \A x : m # RfqOpen(x)
    BY <1>7 DEF RfqOpen
  <2> QED
    BY <1>1, <1>3, <1>7, <2>2, <2>3
<1>8. CASE m.type = "rfq_open"
  <2>1. m.rfq \in Auctions
    BY <1>8 DEF BotMessages
  <2>2. \A x : m = RfqOpen(x) => m.rfq = x
    BY DEF RfqOpen
  <2>3. CASE m.rfq \in v.quoted \/ auction[m.rfq] \in {"ended", "closed"}
    <3>1. h = v
      BY <1>3, <1>8, <2>3 DEF Handled
    <3> QED
      BY <1>1, <1>3, <2>2, <2>3, <3>1
  <2>4. CASE ~(m.rfq \in v.quoted \/ auction[m.rfq] \in {"ended", "closed"})
    <3>1. h = [v EXCEPT !.building = v.building \cup {m.rfq}]
      BY <1>3, <1>8, <2>4 DEF Handled
    <3>2. h \in BotStates /\ h.ws = c /\ h.building = v.building \cup {m.rfq} /\ h.quoted = v.quoted
      BY <1>1, <1>2, <2>1, <3>1 DEF BotStates
    <3> QED
      BY <1>1, <1>3, <2>2, <3>2
  <2> QED
    BY <2>3, <2>4
<1>9. m.type \in {"auth_challenge", "auth_ok", "superseded", "rfq_open", "rfq_closed"}
  BY DEF BotMessages
<1> QED
  BY <1>4, <1>5, <1>6, <1>7, <1>8, <1>9

\* A message reaches a bot.
LEMMA BotReceivesKeeps ==
    ASSUME MakerIInv, NEW b \in Bots, BotReceives(b)
    PROVE  MakerIInv'
<1>1. MakerTypes /\ ConnectionsOwned /\ OneSession /\ ClosedIsTrue /\ AllReached
  BY DEF MakerIInv
<1>2. bot[b].ws \in Connections
  BY <1>1 DEF BotReceives, MakerTypes, BotStates
<1>3. PICK c \in Connections : c = bot[b].ws
  BY <1>2
<1>4. /\ toBot[c] # <<>> /\ session' = session /\ auction' = auction
      /\ c # NoConnection
      /\ bot' = [bot EXCEPT ![b] = Handled(bot[b], c, Head(toBot[c]))]
      /\ toBot' = [toBot EXCEPT ![c] = Tail(toBot[c])]
  BY <1>3 DEF BotReceives, Connections, NoConnection
<1>5. /\ Tail(toBot[c]) \in Seq(BotMessages) /\ Head(toBot[c]) \in BotMessages
      /\ ToSet(toBot[c]) = {Head(toBot[c])} \cup ToSet(Tail(toBot[c]))
  BY <1>1, <1>4, BoxTyped, TailHolds
<1>6. PICK m \in BotMessages : m = Head(toBot[c])
  BY <1>5
<1>7. PICK h : h = Handled(bot[b], c, m)
  OBVIOUS
<1>8. /\ h \in BotStates /\ h.ws \in {c, NoConnection}
      /\ bot[b].building \subseteq h.building
      /\ \A x \in bot[b].quoted : x \in h.quoted \/ (m.type = "rfq_closed" /\ m.rfq = x)
      /\ \A x \in Auctions :
            m = RfqOpen(x) => x \in h.building \cup h.quoted \/ auction[x] \in {"ended", "closed"}
  BY <1>1, <1>3, <1>7, HandledIs
<1>9. /\ bot'[b] = h /\ \A d \in Bots \ {b} : bot'[d] = bot[d]
      /\ toBot'[c] = Tail(toBot[c]) /\ \A d \in Connections \ {c} : toBot'[d] = toBot[d]
  BY <1>1, <1>4, <1>6, <1>7 DEF MakerTypes
<1>10. MakerTypes'
  BY <1>1, <1>4, <1>5, <1>6, <1>7, <1>8 DEF MakerTypes
<1>11. /\ Box(c) = {m} \cup Box(c)'
       /\ \A d \in Connections \ {c} : Box(d)' = Box(d)
  BY <1>5, <1>6, <1>9 DEF Box
<1>12. \A d \in Bots : bot'[d].ws = bot[d].ws \/ bot'[d].ws = NoConnection
  BY <1>3, <1>8, <1>9
<1>13. ConnectionsOwned'
  BY <1>1, <1>4, <1>12 DEF ConnectionsOwned
<1>14. OneSession'
  BY <1>1, <1>4 DEF OneSession
<1>15. ASSUME NEW d \in Bots, NEW x \in Auctions, Live(d)', auction'[x] = "open"
       PROVE  Reached(d, x)'
  <2>1. /\ bot'[d].ws = bot[d].ws /\ bot[d].ws \in Connections
        /\ Live(d) /\ auction[x] = "open"
    BY <1>1, <1>4, <1>12, <1>15 DEF Live, MakerTypes, BotStates
  <2>2. Reached(d, x)
    BY <1>1, <2>1 DEF AllReached
  <2>3. CASE d # b
    <3>1. bot[d].ws \in Connections \ {c} /\ bot'[d] = bot[d]
      BY <1>1, <1>3, <1>4, <1>9, <2>1, <2>3 DEF ConnectionsOwned
    <3> QED
      BY <1>4, <1>11, <2>2, <3>1 DEF Reached
  <2>4. CASE d = b
    <3>1. CASE x \in session[c].replay
      BY <1>3, <1>4, <2>1, <2>4, <3>1 DEF Reached
    <3>2. CASE RfqOpen(x) \in Box(c)
      <4>1. CASE RfqOpen(x) \in Box(c)'
        BY <1>3, <2>1, <2>4, <4>1 DEF Reached
      <4>2. CASE m = RfqOpen(x)
        BY <1>8, <1>9, <2>1, <2>4, <4>2 DEF Reached
      <4> QED
        BY <1>11, <3>2, <4>1, <4>2
    <3>3. CASE x \in bot[b].building \cup bot[b].quoted
      <4>1. ~(m.type = "rfq_closed" /\ m.rfq = x)
        BY <1>1, <1>11, <2>1 DEF ClosedIsTrue
      <4> QED
        BY <1>8, <1>9, <2>4, <3>3, <4>1 DEF Reached
    <3> QED
      BY <1>3, <2>2, <2>4, <3>1, <3>2, <3>3 DEF Reached
  <2> QED
    BY <2>3, <2>4
<1>16. \A d \in Connections : Box(d)' \subseteq Box(d)
  BY <1>11
<1> QED
  BY <1>4, <1>10, <1>13, <1>14, <1>15, <1>16, MakerStep

\* Steps of a bot that leave the server and the messages to it alone: the socket
\* is kept or given up, and what the bot has in hand is kept (Signed, QuoteBuilt,
\* BotNotices).
LEMMA BotAlone ==
    ASSUME MakerIInv, NEW b \in Bots, NEW h \in BotStates,
           h.ws \in {bot[b].ws, NoConnection},
           h.ws # NoConnection => bot[b].building \cup bot[b].quoted \subseteq h.building \cup h.quoted,
           bot' = [bot EXCEPT ![b] = h], UNCHANGED <<auction, session, toBot>>
    PROVE  MakerIInv'
<1>1. MakerTypes /\ ConnectionsOwned /\ OneSession /\ AllReached
  BY DEF MakerIInv
<1>2. bot'[b] = h /\ \A d \in Bots \ {b} : bot'[d] = bot[d]
  BY <1>1 DEF MakerTypes
<1>3. MakerTypes'
  BY <1>1 DEF MakerTypes
<1>4. \A d \in Bots : bot'[d].ws = bot[d].ws \/ bot'[d].ws = NoConnection
  BY <1>2
<1>5. ConnectionsOwned' /\ OneSession'
  BY <1>1, <1>4 DEF ConnectionsOwned, OneSession
<1>6. ASSUME NEW d \in Bots, NEW x \in Auctions, Live(d)', auction'[x] = "open"
      PROVE  Reached(d, x)'
  <2>1. bot'[d].ws = bot[d].ws /\ Live(d) /\ bot[d].ws # NoConnection /\ auction[x] = "open"
    BY <1>4, <1>6 DEF Live
  <2>2. Reached(d, x)
    BY <1>1, <2>1 DEF AllReached
  <2>3. bot[d].building \cup bot[d].quoted \subseteq bot'[d].building \cup bot'[d].quoted
    BY <1>2, <2>1
  <2> QED
    BY <2>1, <2>2, <2>3 DEF Reached, Box
<1>7. \A c : Box(c)' = Box(c)
  BY DEF Box
<1> QED
  BY <1>3, <1>5, <1>6, <1>7, MakerStep

\* The bot signs, quotes, or notices that its connection is down.
LEMMA BotSteps ==
    ASSUME MakerIInv, NEW b \in Bots,
           \/ \E c \in Connections : Signed(b, c)
           \/ \E r \in Auctions : QuoteBuilt(b, r)
           \/ BotNotices(b)
    PROVE  MakerIInv'
<1>1. MakerTypes
  BY DEF MakerIInv
<1>2. PICK v \in BotStates : v = bot[b]
  BY <1>1 DEF MakerTypes
<1>3. v.building \in SUBSET Auctions /\ v.quoted \in SUBSET Auctions /\ v.signing \in SUBSET Connections
  BY DEF BotStates
<1>4. ASSUME NEW c \in Connections, Signed(b, c) PROVE MakerIInv'
  <2>1. PICK h : h = [v EXCEPT !.signing = v.signing \ {c}]
    OBVIOUS
  <2>2. h \in BotStates /\ h.ws = v.ws /\ h.building = v.building /\ h.quoted = v.quoted
    BY <1>3, <2>1 DEF BotStates
  <2>3. bot' = [bot EXCEPT ![b] = h] /\ UNCHANGED <<auction, session, toBot>>
    BY <1>1, <1>2, <1>4, <2>1 DEF Signed, MakerTypes
  <2> QED
    BY <1>2, <2>2, <2>3, BotAlone
<1>5. ASSUME NEW r \in Auctions, QuoteBuilt(b, r) PROVE MakerIInv'
  <2>1. PICK q \in SUBSET Auctions : q = IF v.ws = NoConnection THEN v.quoted ELSE v.quoted \cup {r}
    BY <1>3
  <2>2. PICK h : h = [v EXCEPT !.building = v.building \ {r}, !.quoted = q]
    OBVIOUS
  <2>3. h \in BotStates /\ h.ws = v.ws /\ h.building = v.building \ {r} /\ h.quoted = q
    BY <1>3, <2>2 DEF BotStates
  <2>4. bot' = [bot EXCEPT ![b] = h] /\ UNCHANGED <<auction, session, toBot>>
    BY <1>1, <1>2, <1>5, <2>1, <2>2 DEF QuoteBuilt, MakerTypes
  <2> QED
    BY <1>2, <2>1, <2>3, <2>4, BotAlone
<1>6. CASE BotNotices(b)
  <2>1. PICK h : h = [v EXCEPT !.ws = NoConnection, !.authed = FALSE]
    OBVIOUS
  <2>2. h \in BotStates /\ h.ws = NoConnection
    BY <2>1 DEF BotStates
  <2>3. bot' = [bot EXCEPT ![b] = h] /\ UNCHANGED <<auction, session, toBot>>
    BY <1>1, <1>2, <1>6, <2>1 DEF BotNotices, MakerTypes
  <2> QED
    BY <1>2, <2>2, <2>3, BotAlone
<1> QED
  BY <1>4, <1>5, <1>6

\* Steps of one session that authenticate it no more than it was: it receives a
\* message, goes down, is forgotten, or sends its replay.  What is to be replayed
\* or under way on a session that is up is so afterwards.
LEMMA SessionAlone ==
    ASSUME MakerIInv, NEW c \in Connections, NEW s \in SessionStates,
           s.opened = session[c].opened, s.named = session[c].named,
           s.up => session[c].up, s.registered => session[c].registered,
           s.verifying # {} => session[c].opened,
           session' = [session EXCEPT ![c] = s],
           toBot' \in [Connections -> Seq(BotMessages)],
           \A d \in Connections \ {c} : toBot'[d] = toBot[d],
           s.up => Box(c) \subseteq Box(c)'
                   /\ \A r \in session[c].replay : r \in s.replay \/ RfqOpen(r) \in Box(c)',
           \A m \in Box(c)' : m \in Box(c) \/ m.type # "rfq_closed",
           UNCHANGED <<auction, bot>>
    PROVE  MakerIInv'
<1>1. MakerTypes /\ ConnectionsOwned /\ OneSession /\ AllReached
  BY DEF MakerIInv
<1>2. session'[c] = s /\ \A d \in Connections \ {c} : session'[d] = session[d]
  BY <1>1 DEF MakerTypes
<1>3. MakerTypes'
  BY <1>1 DEF MakerTypes
<1>4. \A d \in Connections :
        /\ session'[d].opened = session[d].opened /\ session'[d].named = session[d].named
        /\ session'[d].up => session[d].up
        /\ session'[d].registered => session[d].registered
        /\ session'[d].verifying # {} => session[d].opened
  BY <1>1, <1>2 DEF ConnectionsOwned
<1>5. ConnectionsOwned'
  <2>1. \A b \in Bots : bot[b].ws # NoConnection => bot[b].ws \in Connections
    BY <1>1 DEF MakerTypes, BotStates
  <2> QED
    BY <1>1, <1>4, <2>1 DEF ConnectionsOwned
<1>6. OneSession'
  BY <1>1, <1>4 DEF OneSession, Authenticated
<1>7. \A d \in Connections, m \in BotMessages :
        m \in Box(d)' /\ m.type = "rfq_closed" => m \in Box(d)
  <2>1. \A d \in Connections \ {c} : Box(d)' = Box(d)
    BY DEF Box
  <2> QED
    BY <2>1
<1>8. ASSUME NEW b \in Bots, NEW x \in Auctions, Live(b)', auction'[x] = "open"
      PROVE  Reached(b, x)'
  <2>1. PICK d \in Connections : d = bot[b].ws
    BY <1>1, <1>8 DEF Live, MakerTypes, BotStates
  <2>2. session'[d].up /\ Live(b) /\ auction[x] = "open"
    BY <1>4, <1>8, <2>1 DEF Live, Authenticated
  <2>3. Reached(b, x)
    BY <1>1, <2>2 DEF AllReached
  <2>4. Box(d) \subseteq Box(d)'
    BY <1>2, <2>2 DEF Box
  <2>5. x \in session[d].replay => x \in session'[d].replay \/ RfqOpen(x) \in Box(d)'
    BY <1>2, <2>2
  <2> QED
    BY <2>1, <2>3, <2>4, <2>5 DEF Reached
<1> QED
  BY <1>3, <1>5, <1>6, <1>7, <1>8, MakerStep

\* The replay is sent (onMakerMessage after listOpenRfqs).
LEMMA ReplayKeeps ==
    ASSUME MakerIInv, NEW c \in Connections, ReplayOpen(c)
    PROVE  MakerIInv'
<1>1. MakerTypes /\ ConnectionsOwned
  BY DEF MakerIInv
<1>2. PICK v \in SessionStates : v = session[c]
  BY <1>1 DEF MakerTypes
<1>3. PICK s : s = [v EXCEPT !.replay = {}]
  OBVIOUS
<1>4. /\ s \in SessionStates /\ s.opened = v.opened /\ s.named = v.named /\ s.up = v.up
      /\ s.registered = v.registered /\ s.verifying = v.verifying
  BY <1>3 DEF SessionStates
<1>5. session' = [session EXCEPT ![c] = s] /\ UNCHANGED <<auction, bot>>
  BY <1>1, <1>2, <1>3 DEF ReplayOpen, MakerTypes
<1>6. s.verifying # {} => session[c].opened
  BY <1>1, <1>2, <1>4 DEF ConnectionsOwned
<1>7. PICK opens : opens = {[type |-> "rfq_open", rfq |-> r] : r \in session[c].replay}
  OBVIOUS
<1>8. opens \in SUBSET BotMessages /\ \A m \in opens : m.type = "rfq_open"
  <2>1. session[c].replay \in SUBSET Auctions
    BY <1>1 DEF MakerTypes, SessionStates
  <2> QED
    BY <1>7, <2>1 DEF BotMessages
<1>9. IsFiniteSet(opens)
  <2>1. PICK held : held = session[c].replay
    OBVIOUS
  <2>2. held \in SUBSET Auctions
    BY <1>1, <2>1 DEF MakerTypes, SessionStates
  <2>3. IsFiniteSet(held)
    BY <2>2, MakerAssumption, FS_Subset
  <2>4. PICK f : f = [r \in held |-> RfqOpen(r)]
    OBVIOUS
  <2>5. opens = {RfqOpen(r) : r \in held}
    BY <1>7, <2>1, Zenon DEF RfqOpen
  <2>6. f \in Bijection(held, opens)
    <3>1. f \in [held -> opens]
      BY <2>4, <2>5
    <3>2. \A x, y \in held : RfqOpen(x) = RfqOpen(y) => x = y
      BY DEF RfqOpen
    <3>3. IsInjective(f)
      BY <2>4, <3>2 DEF IsInjective
    <3>4. \A m \in opens : \E r \in held : f[r] = m
      BY <2>4, <2>5
    <3> QED
      BY <3>1, <3>3, <3>4 DEF Bijection, Injection, Surjection
  <2> QED
    BY <2>3, <2>6, FS_Bijection, Zenon DEF ExistsBijection
<1>10. PICK list : list = SetToSeq(opens)
  OBVIOUS
<1>11. list \in Seq(BotMessages) /\ ToSet(list) = opens
  <2>1. list \in Seq(opens) /\ ToSet(list) = opens
    BY <1>9, <1>10, SetToSeqHolds
  <2> QED
    BY <1>8, <2>1
<1>12. toBot' = IF v.up THEN [toBot EXCEPT ![c] = toBot[c] \o list] ELSE toBot
  BY <1>2, <1>7, <1>10 DEF ReplayOpen, Sent
<1>13. CASE v.up
  <2>1. (toBot[c] \o list) \in Seq(BotMessages) /\ ToSet(toBot[c] \o list) = Box(c) \cup opens
    BY <1>1, <1>11, BoxTyped, ConcatHolds DEF Box
  <2>2. /\ toBot'[c] = toBot[c] \o list /\ \A d \in Connections \ {c} : toBot'[d] = toBot[d]
        /\ toBot' \in [Connections -> Seq(BotMessages)]
    BY <1>1, <1>12, <1>13, <2>1 DEF MakerTypes
  <2>3. Box(c)' = Box(c) \cup opens
    BY <2>1, <2>2 DEF Box
  <2>4. \A r \in session[c].replay : RfqOpen(r) \in Box(c)'
    BY <1>7, <2>3 DEF RfqOpen
  <2>5. \A m \in Box(c)' : m \in Box(c) \/ m.type # "rfq_closed"
    BY <1>8, <2>3
  <2>6. Box(c) \subseteq Box(c)'
    BY <2>3
  <2> QED
    BY <1>2, <1>4, <1>5, <1>6, <2>2, <2>4, <2>5, <2>6, SessionAlone
<1>14. CASE ~v.up
  <2>1. toBot' = toBot /\ toBot \in [Connections -> Seq(BotMessages)]
    BY <1>1, <1>12, <1>14 DEF MakerTypes
  <2>2. Box(c)' = Box(c)
    BY <2>1 DEF Box
  <2> QED
    BY <1>2, <1>4, <1>5, <1>6, <1>14, <2>1, <2>2, SessionAlone
<1> QED
  BY <1>13, <1>14

\* The other steps of a session by itself: a message arrives, a signature is
\* found bad, the connection goes down, and the server notices.
LEMMA SessionSteps ==
    ASSUME MakerIInv, NEW c \in Connections,
           ServerReceives(c) \/ Verified(c, FALSE) \/ GoesDown(c) \/ ServerNotices(c)
    PROVE  MakerIInv'
<1>1. MakerTypes /\ ConnectionsOwned
  BY DEF MakerIInv
<1>2. PICK v \in SessionStates : v = session[c]
  BY <1>1 DEF MakerTypes
<1>3. v.verifying # {} => v.opened
  BY <1>1, <1>2 DEF ConnectionsOwned
<1>4. v.up => v.opened
  BY <1>1, <1>2 DEF ConnectionsOwned, SessionStates
<1>5. v.verifying \in SUBSET BOOLEAN
  BY DEF SessionStates
<1>6. session[c].replay = v.replay
  BY <1>2
<1>7. toBot \in [Connections -> Seq(BotMessages)]
  BY <1>1 DEF MakerTypes
<1>8. CASE ServerReceives(c)
  <2>1. v.up /\ UNCHANGED <<auction, bot, toBot>>
    BY <1>2, <1>8 DEF ServerReceives
  <2>2. PICK w \in SUBSET BOOLEAN : session' = [session EXCEPT ![c] = [v EXCEPT !.verifying = w]]
    <3>1. CASE Head(toServer[c]).type = "auth"
      <4>1. PICK g \in BOOLEAN : g = (Head(toServer[c]).challenge = c)
        OBVIOUS
      <4>2. session' = [session EXCEPT ![c] = [v EXCEPT !.verifying = v.verifying \cup {g}]]
        BY <1>1, <1>2, <1>8, <3>1, <4>1 DEF ServerReceives, MakerTypes
      <4> QED
        BY <1>5, <4>1, <4>2
    <3>2. CASE Head(toServer[c]).type # "auth"
      <4>1. session' = session
        BY <1>8, <3>2 DEF ServerReceives
      <4>2. [v EXCEPT !.verifying = v.verifying] = v
        BY DEF SessionStates
      <4>3. session' = [session EXCEPT ![c] = [v EXCEPT !.verifying = v.verifying]]
        BY <1>1, <1>2, <4>1, <4>2 DEF MakerTypes
      <4> QED
        BY <1>5, <4>3
    <3> QED
      BY <3>1, <3>2
  <2>3. PICK s : s = [v EXCEPT !.verifying = w]
    OBVIOUS
  <2>4. /\ s \in SessionStates /\ s.opened = v.opened /\ s.named = v.named /\ s.up = v.up
        /\ s.registered = v.registered /\ s.replay = v.replay
    BY <2>3 DEF SessionStates
  <2>5. Box(c)' = Box(c)
    BY <2>1 DEF Box
  <2> QED
    BY <1>2, <1>4, <1>7, <2>1, <2>2, <2>3, <2>4, <2>5, SessionAlone
<1>9. CASE Verified(c, FALSE)
  <2>1. PICK s : s = [v EXCEPT !.verifying = v.verifying \ {FALSE}]
    OBVIOUS
  <2>2. /\ s \in SessionStates /\ s.opened = v.opened /\ s.named = v.named /\ s.up = v.up
        /\ s.registered = v.registered /\ s.replay = v.replay
    BY <1>5, <2>1 DEF SessionStates
  <2>3. v.opened
    BY <1>2, <1>3, <1>9 DEF Verified
  <2>4. session' = [session EXCEPT ![c] = s] /\ UNCHANGED <<auction, bot, toBot>>
    BY <1>1, <1>2, <1>9, <2>1 DEF Verified, MakerTypes
  <2>5. Box(c)' = Box(c)
    BY <2>4 DEF Box
  <2> QED
    BY <1>2, <1>7, <2>2, <2>3, <2>4, <2>5, SessionAlone
<1>10. CASE GoesDown(c)
  <2>1. PICK s : s = [v EXCEPT !.up = FALSE]
    OBVIOUS
  <2>2. /\ s \in SessionStates /\ s.opened = v.opened /\ s.named = v.named /\ ~s.up
        /\ s.registered = v.registered /\ s.verifying = v.verifying
    BY <2>1 DEF SessionStates
  <2>3. /\ session' = [session EXCEPT ![c] = s] /\ UNCHANGED <<auction, bot>>
        /\ toBot' = [toBot EXCEPT ![c] = <<>>]
    BY <1>1, <1>2, <1>10, <2>1 DEF GoesDown, MakerTypes
  <2>4. /\ toBot' \in [Connections -> Seq(BotMessages)]
        /\ toBot'[c] = <<>> /\ \A d \in Connections \ {c} : toBot'[d] = toBot[d]
    BY <1>7, <2>3
  <2>5. Box(c)' = {}
    BY <2>4 DEF Box, ToSet
  <2> QED
    BY <1>2, <1>3, <2>2, <2>3, <2>4, <2>5, SessionAlone
<1>11. CASE ServerNotices(c)
  <2>1. PICK s : s = [v EXCEPT !.registered = FALSE]
    OBVIOUS
  <2>2. /\ s \in SessionStates /\ s.opened = v.opened /\ s.named = v.named /\ s.up = v.up
        /\ ~s.registered /\ s.verifying = v.verifying /\ s.replay = v.replay
    BY <2>1 DEF SessionStates
  <2>3. session' = [session EXCEPT ![c] = s] /\ UNCHANGED <<auction, bot, toBot>>
    BY <1>1, <1>2, <1>11, <2>1 DEF ServerNotices, MakerTypes
  <2>4. Box(c)' = Box(c)
    BY <2>3 DEF Box
  <2> QED
    BY <1>2, <1>3, <1>7, <2>2, <2>3, <2>4, SessionAlone
<1> QED
  BY <1>8, <1>9, <1>10, <1>11

\* A session is authenticated: the maker's others are superseded in the same
\* step, and every auction in the store is to be replayed (onMakerMessage).
LEMMA VerifiedKeeps ==
    ASSUME MakerIInv, NEW c \in Connections, Verified(c, TRUE)
    PROVE  MakerIInv'
<1>1. MakerTypes /\ ConnectionsOwned /\ OneSession /\ AllReached
  BY DEF MakerIInv
<1>2. \A d \in Connections : session[d] \in SessionStates
  BY <1>1 DEF MakerTypes
<1>3. PICK open \in SUBSET Auctions : open = {r \in Auctions : InStore(r)}
  OBVIOUS
<1>4. PICK s : s = [session[c] EXCEPT !.verifying = session[c].verifying \ {TRUE},
                                      !.named = TRUE, !.replay = open]
  OBVIOUS
<1>5. /\ s \in SessionStates /\ s.opened = session[c].opened /\ s.up = session[c].up
      /\ s.registered = session[c].registered /\ s.replay = open
  BY <1>2, <1>3, <1>4 DEF SessionStates
<1>6. session[c].opened
  BY <1>1 DEF Verified, ConnectionsOwned
<1>7. \A d \in Connections : [session[d] EXCEPT !.registered = FALSE] \in SessionStates
  BY <1>2 DEF SessionStates
<1>8. \A d \in Connections :
        session'[d] = IF d \in Older(c) THEN [session[d] EXCEPT !.registered = FALSE]
                      ELSE IF d = c THEN s ELSE session[d]
  BY <1>3, <1>4 DEF Verified
<1>9. c \notin Older(c)
  BY DEF Older
<1>10. /\ session'[c] = s
       /\ \A d \in Connections \ {c} : ~Authenticated(session'[d])
  <2>1. session'[c] = s
    BY <1>8, <1>9
  <2>2. ASSUME NEW d \in Connections \ {c} PROVE ~Authenticated(session'[d])
    <3>1. CASE d \in Older(c)
      <4>1. session'[d] = [session[d] EXCEPT !.registered = FALSE]
        BY <1>8, <3>1
      <4>2. ~session'[d].registered
        BY <1>2, <4>1 DEF SessionStates
      <4> QED
        BY <4>2 DEF Authenticated
    <3>2. CASE d \notin Older(c)
      <4>1. session'[d] = session[d]
        BY <1>8, <3>2
      <4> QED
        BY <3>2, <4>1 DEF Older
    <3> QED
      BY <3>1, <3>2
  <2> QED
    BY <2>1, <2>2
<1>11. OneSession'
  BY <1>10 DEF OneSession
<1>12. \A d \in Connections \ {c} :
         /\ session'[d].opened = session[d].opened /\ session'[d].up = session[d].up
         /\ session'[d].named = session[d].named /\ session'[d].verifying = session[d].verifying
  <2> SUFFICES ASSUME NEW d \in Connections \ {c}
               PROVE  /\ session'[d].opened = session[d].opened /\ session'[d].up = session[d].up
                      /\ session'[d].named = session[d].named
                      /\ session'[d].verifying = session[d].verifying
    OBVIOUS
  <2>1. session'[d] = session[d] \/ session'[d] = [session[d] EXCEPT !.registered = FALSE]
    BY <1>8
  <2> QED
    BY <1>2, <2>1 DEF SessionStates
<1>13. ConnectionsOwned'
  <2>1. bot' = bot
    BY DEF Verified
  <2>2. \A b \in Bots : bot[b].ws # NoConnection => bot[b].ws \in Connections
    BY <1>1 DEF MakerTypes, BotStates
  <2> QED
    BY <1>1, <1>5, <1>6, <1>10, <1>12, <2>1, <2>2 DEF ConnectionsOwned
<1>14. PICK superseded : superseded = [type |-> "superseded"]
  OBVIOUS
<1>15. PICK ok : ok = [type |-> "auth_ok"]
  OBVIOUS
<1>16. /\ superseded \in BotMessages /\ superseded.type = "superseded"
       /\ ok \in BotMessages /\ ok.type = "auth_ok"
  BY <1>14, <1>15 DEF BotMessages
<1>17. \A d \in Connections :
         toBot'[d] = IF ~session[d].up THEN toBot[d]
                     ELSE IF d \in Older(c) THEN Append(toBot[d], superseded)
                     ELSE IF d = c THEN Append(toBot[d], ok) ELSE toBot[d]
  BY <1>14, <1>15 DEF Verified
<1>18. \A d \in Connections, m \in BotMessages :
         /\ Append(toBot[d], m) \in Seq(BotMessages)
         /\ ToSet(Append(toBot[d], m)) = ToSet(toBot[d]) \cup {m}
  BY <1>1, BoxTyped, AppendHolds
<1>19. ASSUME NEW d \in Connections
       PROVE  toBot'[d] \in Seq(BotMessages) /\ Box(d)' \subseteq Box(d) \cup {superseded, ok}
  <2>1. PICK q : q = toBot'[d]
    OBVIOUS
  <2>2. q = toBot[d] \/ q = Append(toBot[d], superseded) \/ q = Append(toBot[d], ok)
    BY <1>17, <2>1
  <2>3. toBot[d] \in Seq(BotMessages)
    BY <1>1, BoxTyped
  <2>4. q \in Seq(BotMessages) /\ ToSet(q) \subseteq ToSet(toBot[d]) \cup {superseded, ok}
    <3>1. CASE q = toBot[d]
      BY <2>3, <3>1
    <3>2. CASE q = Append(toBot[d], superseded)
      <4>1. /\ Append(toBot[d], superseded) \in Seq(BotMessages)
            /\ ToSet(Append(toBot[d], superseded)) = ToSet(toBot[d]) \cup {superseded}
        BY <1>16, <1>18, Zenon
      <4> QED
        BY <3>2, <4>1
    <3>3. CASE q = Append(toBot[d], ok)
      <4>1. /\ Append(toBot[d], ok) \in Seq(BotMessages)
            /\ ToSet(Append(toBot[d], ok)) = ToSet(toBot[d]) \cup {ok}
        BY <1>16, <1>18, Zenon
      <4> QED
        BY <3>3, <4>1
    <3> QED
      BY <2>2, <3>1, <3>2, <3>3
  <2> QED
    BY <2>1, <2>4 DEF Box
<1>20. MakerTypes'
  <2>1. \A d \in Connections : session'[d] \in SessionStates
    BY <1>2, <1>5, <1>7, <1>8
  <2>2. session' \in [Connections -> SessionStates]
    <3>1. session' = [d \in Connections |-> session'[d]]
      BY DEF Verified
    <3> QED
      BY <2>1, <3>1
  <2>3. toBot' \in [Connections -> Seq(BotMessages)]
    <3>1. toBot' = [d \in Connections |-> toBot'[d]]
      BY DEF Verified
    <3> QED
      BY <1>19, <3>1
  <2> QED
    BY <1>1, <2>2, <2>3 DEF MakerTypes, Verified
<1>21. ASSUME NEW b \in Bots, NEW x \in Auctions, Live(b)', auction'[x] = "open"
       PROVE  Reached(b, x)'
  <2>1. bot' = bot /\ auction' = auction
    BY DEF Verified
  <2>2. bot[b].ws \in Connections
    BY <1>1, <1>21, <2>1 DEF Live, MakerTypes, BotStates
  <2>3. bot[b].ws = c
    BY <1>10, <1>21, <2>1, <2>2 DEF Live
  <2>4. x \in open
    BY <1>3, <1>21, <2>1 DEF InStore
  <2> QED
    BY <1>5, <1>10, <2>1, <2>3, <2>4 DEF Reached
<1>22. \A d \in Connections, m \in BotMessages :
         m \in Box(d)' /\ m.type = "rfq_closed" => m \in Box(d)
  BY <1>16, <1>19
<1>23. auction' = auction
  BY DEF Verified
<1> QED
  BY <1>11, <1>13, <1>20, <1>21, <1>22, <1>23, MakerStep

\* At the start no connection is open.
LEMMA MakerInitial == MakerInit => MakerIInv
<1> SUFFICES ASSUME MakerInit PROVE MakerIInv
  OBVIOUS
<1>1. /\ NoSession \in SessionStates /\ ~NoSession.opened /\ ~NoSession.up /\ ~NoSession.named
      /\ NoSession.verifying = {}
  BY DEF NoSession, SessionStates
<1>2. \A c \in Connections : session[c] = NoSession /\ toBot[c] = <<>>
  BY DEF MakerInit
<1>3. \A b \in Bots : bot[b] \in BotStates /\ bot[b].ws = NoConnection
  BY DEF MakerInit, BotStates
<1>4. MakerTypes
  <2>1. session \in [Connections -> SessionStates] /\ toBot \in [Connections -> Seq(BotMessages)]
    BY <1>1 DEF MakerInit
  <2>2. bot \in [Bots -> BotStates]
    <3>1. DOMAIN bot = Bots /\ bot = [b \in Bots |-> bot[b]]
      BY DEF MakerInit
    <3> QED
      BY <1>3, <3>1
  <2>3. auction \in [Auctions -> {"none", "stored", "open", "ended", "closed"}]
    BY DEF MakerInit
  <2> QED
    BY <2>1, <2>2, <2>3 DEF MakerTypes
<1>5. \A c \in Connections : Box(c) = {}
  BY <1>2 DEF Box, ToSet
<1>6. ConnectionsOwned
  BY <1>1, <1>2, <1>3 DEF ConnectionsOwned
<1>7. OneSession
  BY <1>1, <1>2 DEF OneSession, Authenticated
<1> QED
  BY <1>3, <1>4, <1>5, <1>6, <1>7 DEF MakerIInv, ClosedIsTrue, AllReached, Live

\* LiveAuctionsReachMaker (onMakerMessage, broadcastToMakers): the maker has one
\* session, and no announced auction is lost to its bot while the connection
\* lasts, for any number of auctions, bots and connections.
THEOREM AuctionsReachMaker == MakerSpec => []LiveAuctionsReachMaker
<1>1. MakerIInv /\ [MakerNext]_makerVars => MakerIInv'
  <2>1. MakerIInv /\ UNCHANGED makerVars => MakerIInv'
    BY DEF MakerIInv, MakerTypes, ConnectionsOwned, ClosedIsTrue, OneSession, AllReached, Reached,
           Live, Box, makerVars
  <2>2. ASSUME MakerIInv, NEW c \in Connections, NEW good \in BOOLEAN, Verified(c, good)
        PROVE  MakerIInv'
    <3>1. CASE good = TRUE
      BY <2>2, <3>1, VerifiedKeeps
    <3>2. CASE good = FALSE
      BY <2>2, <3>2, SessionSteps
    <3> QED
      BY <3>1, <3>2
  <2> QED
    BY <2>1, <2>2, AuctionSteps, ConnectKeeps, BotReceivesKeeps, BotSteps, ReplayKeeps, SessionSteps
       DEF MakerNext
<1>2. MakerIInv => LiveAuctionsReachMaker
  <2> SUFFICES ASSUME MakerIInv PROVE LiveAuctionsReachMaker
    OBVIOUS
  <2>1. OneSession /\ AllReached /\ MakerTypes
    BY DEF MakerIInv
  <2>2. ASSUME NEW c, NEW r \in Auctions, RfqOpen(r) \in Box(c) PROVE UnderWay(c, r)
    BY <2>2 DEF Box, ToSet, UnderWay, RfqOpen
  <2>3. ASSUME NEW b \in Bots, NEW r \in Auctions, bot[b].ws # NoConnection, auction[r] = "open",
               Authenticated(session[bot[b].ws]), session[bot[b].ws].up
        PROVE  \/ r \in session[bot[b].ws].replay \/ UnderWay(bot[b].ws, r)
               \/ r \in bot[b].building \cup bot[b].quoted
    BY <2>1, <2>2, <2>3 DEF AllReached, Live, Reached
  <2> QED
    BY <2>1, <2>3 DEF OneSession, LiveAuctionsReachMaker
<1> QED
  BY <1>1, <1>2, MakerInitial, PTL DEF MakerSpec

-----------------------------------------------------------------------------
\* Products with a positive factor are ordered as the other factors are.
LEMMA ProductsOrdered ==
    ASSUME NEW q \in Nat \ {0}, NEW a \in Int, NEW b \in Int
    PROVE  /\ q * a \in Int /\ q * b \in Int /\ q * a = a * q
           /\ a <= b <=> q * a <= q * b
<1>1. q * a \in Int /\ q * b \in Int /\ q * a = a * q
  OBVIOUS
<1>2. ASSUME a <= b PROVE q * a <= q * b
  BY <1>2
<1>3. ASSUME ~(a <= b) PROVE ~(q * a <= q * b)
  <2>1. a >= b + 1
    BY <1>3
  <2>2. q * a >= q * (b + 1)
    BY <2>1
  <2>3. q * (b + 1) = q * b + q
    OBVIOUS
  <2> QED
    BY <1>1, <2>2, <2>3
<1> QED
  BY <1>1, <1>2, <1>3

\* The quotient is the most that fits.
LEMMA QuotientIsMost ==
    ASSUME NEW q \in Nat \ {0}, NEW a \in Nat, NEW k \in Int
    PROVE  /\ a \div q \in Nat
           /\ k <= a \div q <=> q * k <= a
<1> DEFINE d == a \div q
<1>1. d \in Nat /\ q * d <= a /\ a < q * d + q
  OBVIOUS
<1>2. q * (d + 1) = q * d + q
  BY <1>1
<1> HIDE DEF d
<1>3. k <= d <=> q * k <= q * d
  BY <1>1, ProductsOrdered
<1>4. d + 1 <= k <=> q * (d + 1) <= q * k
  BY <1>1, ProductsOrdered
<1>5. q * k \in Int /\ q * d \in Int
  BY <1>1, ProductsOrdered
<1>6. k <= d <=> q * k <= a
  BY <1>1, <1>2, <1>3, <1>4, <1>5
<1> QED
  BY <1>1, <1>6 DEF d

\* A whole number of quanta is below a number exactly when it is below the
\* number's whole quanta.
LEMMA WholeQuanta ==
    ASSUME NEW q \in Nat \ {0}, NEW a \in Nat, NEW n \in Nat, n % q = 0
    PROVE  /\ (a \div q) * q \in Nat
           /\ n <= (a \div q) * q <=> n <= a
<1>1. PICK k \in Nat : n = q * k
  <2>1. n \div q \in Nat /\ n = q * (n \div q)
    OBVIOUS
  <2> QED
    BY <2>1
<1>2. PICK d \in Nat : d = a \div q
  BY QuotientIsMost
<1>3. k <= d <=> n <= a
  BY <1>1, <1>2, QuotientIsMost
<1>4. q * d \in Nat /\ q * d = d * q
  BY <1>2
<1>5. k <= d <=> q * k <= q * d
  BY <1>1, <1>2, ProductsOrdered
<1> QED
  BY <1>1, <1>2, <1>3, <1>4, <1>5

\* Units of the token are counted on cash that pays for them.
LEMMA UnitsArePaid ==
    ASSUME units \in Conversions, NEW x \in Int, NEW n \in Nat \ {0}, n % units.quantum = 0
    PROVE  /\ TokenUnitsFloor(x) \in Nat
           /\ n <= TokenUnitsFloor(x) <=> n * units.scale <= x * units.quantum
<1>1. PICK q \in Nat \ {0} : q = units.quantum
  BY PrepareAssumption
<1>2. PICK s \in Nat \ {0} : s = units.scale
  BY PrepareAssumption
<1>3. PICK k \in Nat : n = q * k
  <2>1. n \div q \in Nat /\ n = q * (n \div q)
    BY <1>1
  <2> QED
    BY <2>1
<1>4. k > 0
  BY <1>3
<1>5. PICK p \in Nat : p = AtLeastZero(x)
  BY DEF AtLeastZero
<1>6. PICK d \in Nat : d = p \div s
  BY <1>5, QuotientIsMost
<1>7. TokenUnitsFloor(x) = d * q
  BY <1>1, <1>2, <1>5, <1>6 DEF TokenUnitsFloor
<1>8. d * q \in Nat /\ q * d = d * q
  OBVIOUS
<1>9. n <= d * q <=> k <= d
  BY <1>3, <1>8, ProductsOrdered
<1>10. k <= d <=> s * k <= p
  BY <1>5, <1>6, QuotientIsMost
<1>11. s * k > 0
  BY <1>4
<1>12. s * k <= p <=> s * k <= x
  BY <1>5, <1>11 DEF AtLeastZero
<1>13. s * k \in Int
  BY ProductsOrdered
<1>14. s * k <= x <=> q * (s * k) <= q * x
  BY <1>13, ProductsOrdered
<1>15. q * (s * k) = n * s /\ q * x = x * q
  BY <1>3
<1> QED
  BY <1>1, <1>2, <1>7, <1>8, <1>9, <1>10, <1>12, <1>14, <1>15

-----------------------------------------------------------------------------
\* One step of the bisection, and a function that computes it up to a bound.
CutStep(s, f, p) ==
    LET candidate == (p[1] + p[2]) \div 2
    IN  IF p[1] + 1 >= p[2] THEN p[1]
        ELSE IF Simulated(s, candidate) THEN f[<<candidate, p[2]>>] ELSE f[<<p[1], candidate>>]

IsCut(s, f, D) == f = [p \in D |-> CutStep(s, f, p)]

Cut(s, n) == CHOOSE f : IsCut(s, f, (0..n) \X (0..n))

\* FindMaximum, unfolded.
LEMMA FindMaximumIsCut ==
    ASSUME NEW s, NEW n
    PROVE  FindMaximum(s, n) = IF Simulated(s, n) THEN n ELSE Cut(s, n)[<<0, n>>]
BY Zenon DEF FindMaximum, Cut, IsCut, CutStep

\* The candidate lies strictly inside a range that is cut.
LEMMA CutInside ==
    ASSUME NEW a \in Nat, NEW b \in Nat, ~(a + 1 >= b)
    PROVE  (a + b) \div 2 \in Nat /\ a < (a + b) \div 2 /\ (a + b) \div 2 < b
OBVIOUS

\* The recursion defines a function.
LEMMA CutExists ==
    ASSUME NEW s, NEW n \in Nat
    PROVE  IsCut(s, Cut(s, n), (0..n) \X (0..n))
<1> DEFINE All == (0..n) \X (0..n)
           Level(k) == {p \in All : p[2] - p[1] <= k}
           G == {k \in Nat : \E f : IsCut(s, f, Level(k))}
<1>0. \A p \in All : p[1] \in 0..n /\ p[2] \in 0..n
  OBVIOUS
<1>1. 0 \in G
  <2>1. \A p \in Level(0) : p[1] + 1 >= p[2]
    BY <1>0
  <2>2. IsCut(s, [p \in Level(0) |-> p[1]], Level(0))
    BY <2>1 DEF IsCut, CutStep
  <2> QED
    BY <2>2
<1>2. ASSUME NEW k \in Nat, k \in G PROVE k + 1 \in G
  <2>1. PICK g : IsCut(s, g, Level(k))
    BY <1>2
  <2> DEFINE h == [p \in Level(k + 1) |-> IF p \in Level(k) THEN g[p] ELSE CutStep(s, g, p)]
  <2>2. ASSUME NEW p \in Level(k + 1), ~(p[1] + 1 >= p[2])
        PROVE  /\ <<(p[1] + p[2]) \div 2, p[2]>> \in Level(k)
               /\ <<p[1], (p[1] + p[2]) \div 2>> \in Level(k)
    <3>1. p[1] \in 0..n /\ p[2] \in 0..n /\ p[2] - p[1] <= k + 1
      BY <1>0
    <3>2. PICK c \in Nat : c = (p[1] + p[2]) \div 2 /\ p[1] < c /\ c < p[2]
      BY <2>2, <3>1, CutInside
    <3> QED
      BY <3>1, <3>2
  <2>3. \A p \in Level(k) : p \in Level(k + 1)
    BY <1>0
  <2>4. \A p \in Level(k) : g[p] = CutStep(s, g, p)
    BY <2>1 DEF IsCut
  <2>5. ASSUME NEW p \in Level(k + 1) PROVE h[p] = CutStep(s, h, p)
    <3>1. h[p] = CutStep(s, g, p)
      BY <2>4
    <3>2. \A q \in Level(k) : h[q] = g[q]
      BY <2>3
    <3> HIDE DEF h, Level
    <3> QED
      BY <2>2, <3>1, <3>2 DEF CutStep
  <2>6. IsCut(s, h, Level(k + 1))
    <3>1. h = [p \in Level(k + 1) |-> h[p]]
      OBVIOUS
    <3> HIDE DEF h
    <3> QED
      BY <3>1, <2>5 DEF IsCut
  <2> HIDE DEF h, Level
  <2> QED
    BY <2>6
<1>3. n \in G
  <2> HIDE DEF G
  <2> QED BY <1>1, <1>2, NatSetInduction
<1>4. Level(n) = All
  BY <1>0
<1>5. \E f : IsCut(s, f, All)
  BY <1>3, <1>4
<1> QED
  BY <1>5, Zenon DEF Cut

\* Of a range whose lower end passes and whose upper end fails, the search
\* finds the most that passes.
LEMMA CutFinds ==
    ASSUME NEW s, s.free \in Nat, NEW n \in Nat
    PROVE  \A a, b \in 0..n : a <= s.free /\ s.free < b => Cut(s, n)[<<a, b>>] = s.free
<1> DEFINE f == Cut(s, n)
           Good(a, b) == a <= s.free /\ s.free < b => f[<<a, b>>] = s.free
           G == {k \in Nat : \A a, b \in 0..n : b - a <= k => Good(a, b)}
<1>1. \A a, b \in 0..n :
         f[<<a, b>>] =
            IF a + 1 >= b THEN a
            ELSE IF (a + b) \div 2 <= s.free THEN f[<<(a + b) \div 2, b>>]
            ELSE f[<<a, (a + b) \div 2>>]
  <2> HIDE DEF f
  <2>1. IsCut(s, f, (0..n) \X (0..n))
    BY CutExists DEF f
  <2>2. ASSUME NEW a \in 0..n, NEW b \in 0..n
        PROVE  f[<<a, b>>] = CutStep(s, f, <<a, b>>)
    BY <2>1 DEF IsCut
  <2> QED
    BY <2>2 DEF CutStep, Simulated
<1> HIDE DEF f
<1>2. 0 \in G
  OBVIOUS
<1>3. ASSUME NEW k \in Nat, k \in G PROVE k + 1 \in G
  <2> SUFFICES ASSUME NEW a \in 0..n, NEW b \in 0..n, b - a <= k + 1,
                      a <= s.free, s.free < b
               PROVE  f[<<a, b>>] = s.free
    OBVIOUS
  <2>1. CASE a + 1 >= b
    <3>1. f[<<a, b>>] = a
      BY <1>1, <2>1, Zenon
    <3> QED
      BY <2>1, <3>1
  <2>2. CASE ~(a + 1 >= b)
    <3>1. PICK c \in Nat : c = (a + b) \div 2 /\ a < c /\ c < b
      BY <2>2, CutInside
    <3>2. f[<<a, b>>] = IF c <= s.free THEN f[<<c, b>>] ELSE f[<<a, c>>]
      BY <1>1, <2>2, <3>1
    <3>3. Good(c, b) /\ Good(a, c)
      BY <1>3, <3>1
    <3> QED
      BY <3>1, <3>2, <3>3
  <2> QED
    BY <2>1, <2>2
<1>4. n \in G
  <2> HIDE DEF G
  <2> QED BY <1>2, <1>3, NatSetInduction
<1> QED
  BY <1>4 DEF f

\* findMaximum finds the most that passes, up to the upper bound.
LEMMA FindMaximumIsMost ==
    ASSUME NEW s, s.free \in Nat, NEW n \in Nat
    PROVE  FindMaximum(s, n) = Least(n, s.free)
<1>1. CASE n <= s.free
  BY <1>1, FindMaximumIsCut DEF Simulated, Least
<1>2. CASE ~(n <= s.free)
  <2>1. Cut(s, n)[<<0, n>>] = s.free
    BY <1>2, CutFinds
  <2> QED
    BY <1>2, <2>1, FindMaximumIsCut DEF Simulated, Least
<1> QED
  BY <1>1, <1>2

\* A request that is judged by the maximum of a state is allowed exactly when
\* its amount is withdrawable in it.
LEMMA JudgedByTheMaximum ==
    ASSUME units \in Conversions, NEW s \in CashStates, NEW held \in Reservations,
           NEW n \in Amounts
    PROVE  /\ Upper(s, held) \in Nat
           /\ (/\ n % units.quantum = 0
               /\ n <= (FindMaximum(s, Upper(s, held)) \div units.quantum) * units.quantum)
              <=> n \in Withdrawable(s, held)
<1>1. /\ s.cash \in Int /\ s.liquidity \in Nat /\ s.free \in Nat
      /\ held \in Nat /\ n \in Nat \ {0}
  BY PrepareAssumption
<1>2. PICK q \in Nat \ {0} : q = units.quantum
  BY PrepareAssumption
<1>3. PICK x \in Int : x = s.cash - held
  BY <1>1
<1>4. PICK floor \in Nat : floor = TokenUnitsFloor(x)
  <2>1. 0 % units.quantum = 0 /\ AtLeastZero(x) \in Nat
    BY <1>2 DEF AtLeastZero
  <2>2. units.scale \in Nat \ {0}
    BY PrepareAssumption
  <2>3. PICK d \in Nat : d = AtLeastZero(x) \div units.scale
    BY <2>1, <2>2, QuotientIsMost
  <2>4. d * q \in Nat
    OBVIOUS
  <2> QED
    BY <1>2, <2>3, <2>4 DEF TokenUnitsFloor
<1>5. PICK most \in Nat : most = Least(floor, s.liquidity)
  BY <1>1 DEF Least
<1>6. PICK upper \in Nat : upper = (most \div q) * q
  <2>1. PICK d \in Nat : d = most \div q
    BY QuotientIsMost
  <2>2. d * q \in Nat
    OBVIOUS
  <2> QED BY <2>1, <2>2
<1>7. Upper(s, held) = upper
  BY <1>2, <1>3, <1>4, <1>5, <1>6 DEF Upper
<1>8. PICK found \in Nat : found = Least(upper, s.free) /\ found = FindMaximum(s, upper)
  BY <1>1, FindMaximumIsMost DEF Least
<1>9. ASSUME n % q = 0
      PROVE  n <= (found \div q) * q <=> n \in Withdrawable(s, held)
  <2>1. n <= (found \div q) * q <=> n <= found
    BY <1>1, <1>9, WholeQuanta
  <2>2. n <= found <=> n <= upper /\ n <= s.free
    BY <1>1, <1>8 DEF Least
  <2>3. n <= upper <=> n <= most
    BY <1>1, <1>6, <1>9, WholeQuanta
  <2>4. n <= most <=> n <= floor /\ n <= s.liquidity
    BY <1>1, <1>5 DEF Least
  <2>5. n <= floor <=> n * units.scale <= x * units.quantum
    BY <1>1, <1>2, <1>4, <1>9, UnitsArePaid
  <2>6. n \in Withdrawable(s, held) <=>
          /\ n <= s.liquidity /\ n * units.scale <= x * units.quantum /\ n <= s.free
    BY <1>1, <1>2, <1>3, <1>9 DEF Withdrawable, Simulated
  <2> QED
    BY <2>1, <2>2, <2>3, <2>4, <2>5, <2>6
<1>10. n \in Withdrawable(s, held) => n % q = 0
  BY <1>2 DEF Withdrawable
<1> QED
  BY <1>2, <1>7, <1>8, <1>9, <1>10

-----------------------------------------------------------------------------
PinRecords == [fork : Nat, state : CashStates]
OperationRecords == [key : AskKeys, amount : Amounts, id : Nat, by : Askers]

\* The chain.
PinsOK ==
    /\ units \in Conversions
    /\ pins \in Seq(PinRecords) /\ pins # <<>>
    /\ undone \in Nat
    /\ \A n \in DOMAIN pins : pins[n].fork \in 0..undone

\* An operation on file is under its key, and is what was answered for it.
OnFile ==
    /\ operationOf \in [AskKeys -> {NoOperation} \cup OperationRecords]
    /\ \A k \in AskKeys : operationOf[k] # NoOperation => operationOf[k].key = k
    /\ \A o \in prepared : o \in OperationRecords /\ operationOf[o.key] = o

\* What a request has computed follows from its block, as long as that block
\* stands; one that waits is chained; and one past the gate is first, and
\* finds its key free.
RequestOK(c) ==
    ask[c] # NoAsk =>
      /\ ask[c].key \in AskKeys /\ ask[c].amount \in Amounts
      /\ ask[c].at \in {"snapshot", "search", "canonical"} =>
            ask[c].number \in DOMAIN pins /\ ask[c].pin \in PinRecords /\ ask[c].pin.fork \in 0..undone
      /\ ask[c].at \in {"search", "canonical"} => ask[c].reserved \in Reservations
      /\ ask[c].at = "search" =>
            (Canonical(c) => ask[c].upper = Upper(ask[c].pin.state, ask[c].reserved))
      /\ ask[c].at = "canonical" =>
            (Canonical(c) =>
               ask[c].maximum =
                  (FindMaximum(ask[c].pin.state, Upper(ask[c].pin.state, ask[c].reserved))
                      \div units.quantum) * units.quantum)
      /\ ask[c].at = "gate" => \E i \in DOMAIN gate : gate[i] = c
      /\ ask[c].at = "put" =>
            gate # <<>> /\ Head(gate) = c /\ operationOf[ask[c].key] = NoOperation

RequestsOK == ask = [c \in Askers |-> ask[c]] /\ \A c \in Askers : RequestOK(c)

VerdictOK ==
    verdict # NoAsk =>
        (verdict.allowed <=> verdict.amount \in Withdrawable(verdict.of, verdict.reserved))

PrepareIInv ==
    /\ PinsOK /\ gate \in Seq(Askers) /\ asked \in Nat
    /\ OnFile /\ RequestsOK /\ VerdictOK

LEMMA PrepareInitial == PrepareInit => PrepareIInv
<1> SUFFICES ASSUME PrepareInit PROVE PrepareIInv
  OBVIOUS
<1>1. PinsOK
  <2>1. PICK s \in CashStates : pins = <<[fork |-> 0, state |-> s]>>
    BY DEF PrepareInit
  <2> QED
    BY <2>1 DEF PrepareInit, PinsOK, PinRecords
<1>2. gate \in Seq(Askers) /\ asked \in Nat /\ OnFile /\ VerdictOK
  BY DEF PrepareInit, OnFile, VerdictOK
<1>3. RequestsOK
  BY DEF PrepareInit, RequestsOK, RequestOK
<1> QED
  BY <1>1, <1>2, <1>3 DEF PrepareIInv

\* A step that moves one request and leaves the chain, the gate and the file.
LEMMA OneRequestMoves ==
    ASSUME PrepareIInv, NEW c \in Askers, NEW r, ask' = [ask EXCEPT ![c] = r],
           UNCHANGED <<units, pins, gate, operationOf, undone>>,
           ask'[c] = r => RequestOK(c)'
    PROVE  PinsOK' /\ gate' \in Seq(Askers) /\ RequestsOK'
<1>1. PinsOK' /\ gate' \in Seq(Askers)
  BY DEF PrepareIInv, PinsOK
<1>2. ask' = [d \in Askers |-> ask'[d]] /\ ask'[c] = r
  BY DEF PrepareIInv, RequestsOK
<1>3. ASSUME NEW d \in Askers, d # c PROVE RequestOK(d)'
  <2>1. ask'[d] = ask[d] /\ RequestOK(d)
    BY <1>3 DEF PrepareIInv, RequestsOK
  <2> QED
    BY <2>1 DEF RequestOK, Canonical, Upper, TokenUnitsFloor
<1> QED
  BY <1>1, <1>2, <1>3 DEF RequestsOK

\* The verdict is about amounts and states, not about where the chain is.
LEMMA VerdictKept ==
    ASSUME VerdictOK, UNCHANGED <<units, verdict>>
    PROVE  VerdictOK'
BY DEF VerdictOK, Withdrawable, Simulated

\* An answer out of the file changes nothing about the file.
LEMMA ReplayedIsOnFile ==
    ASSUME OnFile, NEW c, NEW k \in AskKeys, NEW n, operationOf[k] # NoOperation,
           Replayed(c, k, n), operationOf' = operationOf
    PROVE  OnFile' /\ ask' = [ask EXCEPT ![c] = NoAsk]
<1>1. operationOf[k] \in OperationRecords /\ operationOf[operationOf[k].key] = operationOf[k]
  BY DEF OnFile
<1>2. prepared' = prepared \/ prepared' = prepared \cup {operationOf[k]}
  BY DEF Replayed, Answered, Failed
<1>3. ask' = [ask EXCEPT ![c] = NoAsk]
  BY DEF Replayed, Answered, Failed
<1> QED
  BY <1>1, <1>2, <1>3 DEF OnFile

LEMMA AsksKeeps ==
    ASSUME PrepareIInv, NEW c \in Askers, NEW k \in AskKeys, NEW n \in Amounts, Asks(c, k, n)
    PROVE  PrepareIInv'
<1>1. /\ asked' \in Nat /\ VerdictOK'
      /\ UNCHANGED <<units, pins, gate, operationOf, undone>>
  BY VerdictKept DEF PrepareIInv, Asks
<1>2. CASE operationOf[k] # NoOperation
  <2>1. Replayed(c, k, n)
    BY <1>2 DEF Asks
  <2>2. OnFile' /\ ask' = [ask EXCEPT ![c] = NoAsk]
    BY <1>1, <1>2, <2>1, ReplayedIsOnFile DEF PrepareIInv
  <2>3. ask'[c] = NoAsk => RequestOK(c)'
    BY DEF RequestOK
  <2> QED
    BY <1>1, <2>2, <2>3, OneRequestMoves DEF PrepareIInv
<1>3. CASE operationOf[k] = NoOperation
  <2> DEFINE r == [at |-> "pin", key |-> k, amount |-> n]
  <2>1. ask' = [ask EXCEPT ![c] = r] /\ UNCHANGED prepared
    BY <1>3 DEF Asks
  <2>2. OnFile'
    BY <1>1, <2>1 DEF PrepareIInv, OnFile
  <2>3. ask'[c] = r => RequestOK(c)'
    BY DEF RequestOK
  <2> HIDE DEF r
  <2> QED
    BY <1>1, <2>1, <2>2, <2>3, OneRequestMoves DEF PrepareIInv
<1> QED
  BY <1>2, <1>3

\* A request that ends with an error.
LEMMA FailedKeeps ==
    ASSUME PrepareIInv, NEW c \in Askers, Failed(c),
           UNCHANGED <<units, pins, gate, operationOf, asked, undone>>, VerdictOK'
    PROVE  PrepareIInv'
<1>1. ask' = [ask EXCEPT ![c] = NoAsk] /\ UNCHANGED prepared
  BY DEF Failed
<1>2. OnFile' /\ asked' \in Nat
  BY <1>1 DEF PrepareIInv, OnFile
<1>3. ask'[c] = NoAsk => RequestOK(c)'
  BY DEF RequestOK
<1> QED
  BY <1>1, <1>2, <1>3, OneRequestMoves DEF PrepareIInv

\* A request that goes on.
LEMMA GoesOnKeeps ==
    ASSUME PrepareIInv, NEW c \in Askers, NEW r, ask' = [ask EXCEPT ![c] = r],
           ask'[c] = r => RequestOK(c)',
           UNCHANGED <<units, pins, gate, operationOf, asked, undone, prepared, verdict>>
    PROVE  PrepareIInv'
<1>1. OnFile' /\ asked' \in Nat /\ VerdictOK'
  BY VerdictKept DEF PrepareIInv, OnFile
<1> QED
  BY <1>1, OneRequestMoves DEF PrepareIInv

LEMMA PinsKeeps ==
    ASSUME PrepareIInv, NEW c \in Askers, Pins(c)
    PROVE  PrepareIInv'
<1>1. /\ ask[c] # NoAsk /\ RequestOK(c) /\ VerdictOK'
      /\ UNCHANGED <<units, pins, gate, operationOf, asked, undone, verdict>>
  BY VerdictKept DEF PrepareIInv, RequestsOK, Pins
<1> DEFINE r == [at |-> "snapshot", key |-> ask[c].key, amount |-> ask[c].amount,
                 number |-> Len(pins), pin |-> Last(pins)]
<1>2. CASE ask' = [ask EXCEPT ![c] = r] /\ UNCHANGED prepared
  <2>1. Len(pins) \in DOMAIN pins /\ Last(pins) = pins[Len(pins)]
        /\ Last(pins) \in PinRecords /\ Last(pins).fork \in 0..undone
    BY DEF PrepareIInv, PinsOK, Last
  <2>2. ask'[c] = r => RequestOK(c)'
    BY <1>1, <2>1 DEF RequestOK
  <2> HIDE DEF r
  <2> QED
    BY <1>1, <1>2, <2>2, GoesOnKeeps
<1>3. CASE Failed(c)
  BY <1>1, <1>3, FailedKeeps
<1>4. (ask' = [ask EXCEPT ![c] = r] /\ UNCHANGED prepared) \/ Failed(c)
  BY DEF Pins, PrepareIInv, RequestsOK
<1> QED
  BY <1>2, <1>3, <1>4

LEMMA ReadsSnapshotKeeps ==
    ASSUME PrepareIInv, NEW c \in Askers, NEW held \in Reservations, ReadsSnapshot(c, held)
    PROVE  PrepareIInv'
<1>1. /\ ask[c] # NoAsk /\ ask[c].at = "snapshot" /\ RequestOK(c) /\ VerdictOK'
      /\ UNCHANGED <<units, pins, gate, operationOf, asked, undone, verdict>>
  BY VerdictKept DEF PrepareIInv, RequestsOK, ReadsSnapshot
<1> DEFINE r == [at |-> "search", key |-> ask[c].key, amount |-> ask[c].amount,
                 number |-> ask[c].number, pin |-> ask[c].pin, reserved |-> held,
                 upper |-> Upper(pins[ask[c].number].state, held)]
<1>2. CASE ask' = [ask EXCEPT ![c] = r] /\ UNCHANGED prepared
  <2>1. ASSUME ask'[c] = r PROVE RequestOK(c)'
    <3>1. /\ ask'[c].at = "search" /\ ask'[c].key = ask[c].key /\ ask'[c].amount = ask[c].amount
          /\ ask'[c].number = ask[c].number /\ ask'[c].pin = ask[c].pin
          /\ ask'[c].reserved = held
          /\ ask'[c].upper = Upper(pins[ask[c].number].state, held)
      BY <2>1
    <3> QED
      BY <1>1, <3>1 DEF RequestOK, Canonical, Upper, TokenUnitsFloor
  <2> HIDE DEF r
  <2> QED
    BY <1>1, <1>2, <2>1, GoesOnKeeps
<1>3. CASE Failed(c)
  BY <1>1, <1>3, FailedKeeps
<1>4. (ask' = [ask EXCEPT ![c] = r] /\ UNCHANGED prepared) \/ Failed(c)
  BY DEF ReadsSnapshot, PrepareIInv, RequestsOK
<1> QED
  BY <1>2, <1>3, <1>4

LEMMA SearchesKeeps ==
    ASSUME PrepareIInv, NEW c \in Askers, Searches(c)
    PROVE  PrepareIInv'
<1>1. /\ ask[c] # NoAsk /\ ask[c].at = "search" /\ RequestOK(c)
      /\ UNCHANGED <<units, pins, gate, operationOf, asked, undone, prepared, verdict>>
  BY DEF PrepareIInv, RequestsOK, Searches
<1> DEFINE r == [at |-> "canonical", key |-> ask[c].key, amount |-> ask[c].amount,
                 number |-> ask[c].number, pin |-> ask[c].pin, reserved |-> ask[c].reserved,
                 maximum |-> ProtocolMax(c, pins[ask[c].number].state)]
<1>2. ask' = [ask EXCEPT ![c] = r]
  BY DEF Searches, PrepareIInv, RequestsOK
<1>3. ASSUME ask'[c] = r PROVE RequestOK(c)'
  <2>1. /\ ask'[c].at = "canonical" /\ ask'[c].key = ask[c].key /\ ask'[c].amount = ask[c].amount
        /\ ask'[c].number = ask[c].number /\ ask'[c].pin = ask[c].pin
        /\ ask'[c].reserved = ask[c].reserved
        /\ ask'[c].maximum = ProtocolMax(c, pins[ask[c].number].state)
    BY <1>3
  <2>2. Canonical(c) => ask[c].upper = Upper(ask[c].pin.state, ask[c].reserved)
    BY <1>1 DEF RequestOK
  <2>3. Canonical(c)' <=> Canonical(c)
    BY <1>1, <2>1 DEF Canonical
  <2>4. Canonical(c) =>
          ask'[c].maximum = (FindMaximum(ask[c].pin.state, Upper(ask[c].pin.state, ask[c].reserved))
                              \div units.quantum) * units.quantum
    BY <2>1, <2>2 DEF Canonical, ProtocolMax
  <2>5. /\ Canonical(c)' =>
             (ask[c].maximum =
                (FindMaximum(ask[c].pin.state, Upper(ask[c].pin.state, ask[c].reserved))
                      \div units.quantum) * units.quantum)'
    BY <1>1, <2>1, <2>3, <2>4 DEF Upper, TokenUnitsFloor
  <2>6. /\ ask'[c].key \in AskKeys /\ ask'[c].amount \in Amounts
        /\ ask'[c].number \in DOMAIN pins' /\ ask'[c].pin \in PinRecords
        /\ ask'[c].pin.fork \in 0..undone' /\ ask'[c].reserved \in Reservations
    BY <1>1, <2>1 DEF RequestOK
  <2> QED
    BY <2>1, <2>5, <2>6 DEF RequestOK
<1> HIDE DEF r
<1> QED
  BY <1>1, <1>2, <1>3, GoesOnKeeps

LEMMA JudgesKeeps ==
    ASSUME PrepareIInv, NEW c \in Askers, Judges(c)
    PROVE  PrepareIInv'
<1>1. /\ ask[c] # NoAsk /\ ask[c].at = "canonical" /\ RequestOK(c)
      /\ UNCHANGED <<units, pins, operationOf, asked, undone>>
  BY DEF PrepareIInv, RequestsOK, Judges
<1>2. VerdictOK'
  <2>1. CASE Canonical(c)
    <3>1. verdict' = [amount |-> ask[c].amount, of |-> ask[c].pin.state,
                      reserved |-> ask[c].reserved, allowed |-> Allowed(c)]
      BY <2>1 DEF Judges
    <3>2. /\ units \in Conversions /\ ask[c].pin.state \in CashStates
          /\ ask[c].reserved \in Reservations /\ ask[c].amount \in Amounts
      BY <1>1 DEF RequestOK, PrepareIInv, PinsOK, PinRecords
    <3>3. Allowed(c) <=> ask[c].amount \in Withdrawable(ask[c].pin.state, ask[c].reserved)
      BY <1>1, <2>1, <3>2, JudgedByTheMaximum DEF RequestOK, Allowed
    <3>4. Withdrawable(ask[c].pin.state, ask[c].reserved)
            = Withdrawable(verdict.of, verdict.reserved)'
      BY <1>1, <3>1 DEF Withdrawable, Simulated
    <3> QED
      BY <3>1, <3>3, <3>4 DEF VerdictOK
  <2>2. CASE ~Canonical(c)
    BY <1>1, <2>2, VerdictKept DEF Judges, PrepareIInv
  <2> QED
    BY <2>1, <2>2
<1> DEFINE r == [at |-> "gate", key |-> ask[c].key, amount |-> ask[c].amount]
<1>3. CASE /\ ask' = [ask EXCEPT ![c] = r] /\ gate' = Append(gate, c)
           /\ UNCHANGED prepared
  <2>1. /\ ask' = [d \in Askers |-> ask'[d]] /\ ask'[c] = r
        /\ \A d \in Askers : d # c => ask'[d] = ask[d]
    BY <1>3 DEF PrepareIInv, RequestsOK
  <2>2. PinsOK' /\ OnFile' /\ asked' \in Nat
    BY <1>1, <1>3 DEF PrepareIInv, PinsOK, OnFile
  <2>3. /\ gate' \in Seq(Askers) /\ gate' # <<>>
        /\ Len(gate') = Len(gate) + 1 /\ gate'[Len(gate) + 1] = c
        /\ \A i \in DOMAIN gate : i \in DOMAIN gate' /\ gate'[i] = gate[i]
        /\ gate # <<>> => Head(gate') = Head(gate)
    BY <1>3 DEF PrepareIInv
  <2>4. RequestOK(c)'
    <3>1. \E i \in DOMAIN gate' : gate'[i] = c
      BY <2>3 DEF PrepareIInv
    <3>2. ask'[c].at = "gate" /\ ask'[c].key = ask[c].key /\ ask'[c].amount = ask[c].amount
      BY <2>1
    <3> QED
      BY <1>1, <3>1, <3>2 DEF RequestOK
  <2>5. ASSUME NEW d \in Askers, d # c PROVE RequestOK(d)'
    <3>1. ask'[d] = ask[d] /\ RequestOK(d)
      BY <2>1, <2>5 DEF PrepareIInv, RequestsOK
    <3> QED
      BY <1>1, <2>3, <3>1 DEF RequestOK, Canonical, Upper, TokenUnitsFloor
  <2> QED
    BY <1>2, <2>1, <2>2, <2>3, <2>4, <2>5 DEF PrepareIInv, RequestsOK
<1>4. CASE Failed(c) /\ UNCHANGED gate
  BY <1>1, <1>2, <1>4, FailedKeeps
<1>5. \/ /\ ask' = [ask EXCEPT ![c] = r] /\ gate' = Append(gate, c)
         /\ UNCHANGED prepared
      \/ (Failed(c) /\ UNCHANGED gate)
  BY DEF Judges, PrepareIInv, RequestsOK
<1> QED
  BY <1>3, <1>4, <1>5

\* The first of the gate leaves it: whoever else waits is still in it, and
\* nobody else is past it.
LEMMA GateMovesOn ==
    ASSUME PrepareIInv, NEW c \in Askers, ask[c] # NoAsk,
           Head(gate) = c, gate # <<>>, gate' = Tail(gate),
           ask' = [ask EXCEPT ![c] = NoAsk],
           UNCHANGED <<units, pins>>, undone' \in {undone, undone + 1}
    PROVE  PinsOK' /\ gate' \in Seq(Askers) /\ RequestsOK'
<1>0. undone \in Nat /\ undone' \in Nat /\ undone <= undone'
  BY DEF PrepareIInv, PinsOK
<1>1. PinsOK'
  BY <1>0 DEF PrepareIInv, PinsOK
<1>2. /\ gate' \in Seq(Askers) /\ Len(gate') = Len(gate) - 1 /\ gate[1] = c
      /\ \A i \in DOMAIN gate' : gate'[i] = gate[i + 1]
  BY DEF PrepareIInv
<1>3. /\ ask' = [d \in Askers |-> ask'[d]] /\ ask'[c] = NoAsk
      /\ \A d \in Askers : d # c => ask'[d] = ask[d]
  BY DEF PrepareIInv, RequestsOK
<1>4. ASSUME NEW d \in Askers, d # c PROVE RequestOK(d)'
  <2>1. ask'[d] = ask[d] /\ RequestOK(d)
    BY <1>3, <1>4 DEF PrepareIInv, RequestsOK
  <2>2. ASSUME ask[d] # NoAsk PROVE ask[d].at # "put"
    BY <1>4, <2>1, <2>2 DEF RequestOK
  <2>3. ASSUME ask[d] # NoAsk, ask[d].at = "gate" PROVE \E i \in DOMAIN gate' : gate'[i] = d
    <3>1. PICK i \in DOMAIN gate : gate[i] = d
      BY <2>1, <2>3 DEF RequestOK
    <3>2. i # 1
      BY <1>2, <1>4, <3>1
    <3>3. i - 1 \in DOMAIN gate' /\ gate'[i - 1] = d
      BY <1>2, <3>1, <3>2 DEF PrepareIInv
    <3> QED
      BY <3>3
  <2>4. ASSUME ask[d] # NoAsk, ask[d].at \in {"snapshot", "search", "canonical"}
        PROVE  ask[d].pin.fork \in 0..undone'
    BY <1>0, <2>1, <2>4 DEF RequestOK
  <2> QED
    BY <2>1, <2>2, <2>3, <2>4 DEF RequestOK, Canonical, Upper, TokenUnitsFloor
<1> QED
  BY <1>1, <1>2, <1>3, <1>4 DEF RequestsOK, RequestOK

LEMMA ChecksKeyKeeps ==
    ASSUME PrepareIInv, NEW c \in Askers, ChecksKey(c)
    PROVE  PrepareIInv'
<1>1. /\ ask[c] # NoAsk /\ ask[c].at = "gate" /\ Head(gate) = c /\ RequestOK(c) /\ gate # <<>>
      /\ VerdictOK' /\ asked' \in Nat /\ undone \in Nat
      /\ UNCHANGED <<units, pins, operationOf, asked, undone, verdict>>
  BY VerdictKept DEF PrepareIInv, PinsOK, RequestsOK, RequestOK, ChecksKey, GateOpens
<1>2. CASE operationOf[ask[c].key] # NoOperation
  <2>1. /\ Replayed(c, ask[c].key, ask[c].amount) /\ gate' = Tail(gate)
        /\ ask[c].key \in AskKeys
    BY <1>1, <1>2 DEF ChecksKey, RequestOK
  <2>2. OnFile' /\ ask' = [ask EXCEPT ![c] = NoAsk]
    BY <1>1, <1>2, <2>1, ReplayedIsOnFile DEF PrepareIInv
  <2>3. PinsOK' /\ gate' \in Seq(Askers) /\ RequestsOK'
    <3>1. undone' \in {undone, undone + 1} /\ UNCHANGED <<units, pins>>
      BY <1>1
    <3> QED
      BY <1>1, <2>1, <2>2, <3>1, GateMovesOn, Zenon
  <2> QED
    BY <1>1, <2>2, <2>3 DEF PrepareIInv
<1>3. CASE operationOf[ask[c].key] = NoOperation
  <2>1. ask' = [ask EXCEPT ![c].at = "put"] /\ UNCHANGED <<gate, prepared>>
    BY <1>3 DEF ChecksKey
  <2> DEFINE r == [ask[c] EXCEPT !.at = "put"]
  <2>2. ask' = [ask EXCEPT ![c] = r]
    BY <2>1
  <2>3. ASSUME ask'[c] = r PROVE RequestOK(c)'
    <3>1. ask'[c].at = "put" /\ ask'[c].key = ask[c].key /\ ask'[c].amount = ask[c].amount
      BY <2>3
    <3> QED
      BY <1>1, <1>3, <2>1, <3>1 DEF RequestOK
  <2> HIDE DEF r
  <2> QED
    BY <1>1, <2>1, <2>2, <2>3, GoesOnKeeps
<1> QED
  BY <1>2, <1>3

LEMMA PutsKeeps ==
    ASSUME PrepareIInv, NEW c \in Askers, Puts(c)
    PROVE  PrepareIInv'
<1>1. /\ ask[c] # NoAsk /\ ask[c].at = "put" /\ RequestOK(c)
      /\ VerdictOK' /\ asked \in Nat /\ undone \in Nat
      /\ gate' = Tail(gate) /\ UNCHANGED <<units, pins, asked, verdict>>
  BY VerdictKept DEF PrepareIInv, PinsOK, RequestsOK, Puts
<1>2. /\ Head(gate) = c /\ gate # <<>> /\ operationOf[ask[c].key] = NoOperation
      /\ ask[c].key \in AskKeys /\ ask[c].amount \in Amounts
  BY <1>1 DEF RequestOK
<1> DEFINE o == [key |-> ask[c].key, amount |-> ask[c].amount, id |-> asked, by |-> c]
<1>3. CASE /\ operationOf' = [operationOf EXCEPT ![o.key] = o] /\ Answered(c, o)
           /\ UNCHANGED undone
  <2>1. o \in OperationRecords /\ o # NoOperation /\ o.key = ask[c].key
    BY <1>1, <1>2, PrepareAssumption DEF OperationRecords
  <2> HIDE DEF o
  <2>2. ask' = [ask EXCEPT ![c] = NoAsk] /\ prepared' = prepared \cup {o}
    BY <1>3 DEF Answered
  <2>3. \A q \in prepared : q \in OperationRecords /\ operationOf[q.key] = q /\ q # NoOperation
    BY PrepareAssumption DEF PrepareIInv, OnFile, OperationRecords
  <2>4. OnFile'
    <3>1. \A q \in prepared : q.key # o.key /\ q.key \in AskKeys
      BY <1>2, <2>1, <2>3 DEF OperationRecords
    <3>2. \A q \in prepared' : q \in OperationRecords /\ operationOf'[q.key] = q
      BY <1>2, <1>3, <2>1, <2>2, <2>3, <3>1 DEF PrepareIInv, OnFile
    <3>3. /\ operationOf' \in [AskKeys -> {NoOperation} \cup OperationRecords]
          /\ \A k \in AskKeys : operationOf'[k] # NoOperation => operationOf'[k].key = k
      BY <1>2, <1>3, <2>1 DEF PrepareIInv, OnFile
    <3> QED
      BY <3>2, <3>3 DEF OnFile
  <2>5. PinsOK' /\ gate' \in Seq(Askers) /\ RequestsOK'
    <3>1. undone' \in {undone, undone + 1} /\ UNCHANGED <<units, pins>>
      BY <1>1, <1>3
    <3> QED
      BY <1>1, <1>2, <2>2, <3>1, GateMovesOn, Zenon
  <2> QED
    BY <1>1, <2>4, <2>5 DEF PrepareIInv
<1>4. CASE Failed(c) /\ undone' = undone + 1 /\ UNCHANGED operationOf
  <2>1. ask' = [ask EXCEPT ![c] = NoAsk] /\ UNCHANGED prepared
    BY <1>4 DEF Failed
  <2>2. OnFile'
    BY <1>4, <2>1 DEF PrepareIInv, OnFile
  <2>3. PinsOK' /\ gate' \in Seq(Askers) /\ RequestsOK'
    <3>1. undone' \in {undone, undone + 1} /\ UNCHANGED <<units, pins>>
      BY <1>1, <1>4
    <3> QED
      BY <1>1, <1>2, <2>1, <3>1, GateMovesOn, Zenon
  <2> QED
    BY <1>1, <2>2, <2>3 DEF PrepareIInv
<1>5. \/ /\ operationOf' = [operationOf EXCEPT ![o.key] = o] /\ Answered(c, o)
         /\ UNCHANGED undone
      \/ (Failed(c) /\ undone' = undone + 1 /\ UNCHANGED operationOf)
  BY DEF Puts
<1> QED
  BY <1>3, <1>4, <1>5

\* The chain changes: what stays is as it was, and a replaced block is none that
\* was read before.
LEMMA ChainMovesKeeps ==
    ASSUME PrepareIInv, NEW s \in CashStates,
           PinMined(s) \/ PinReplaced(s)
    PROVE  PrepareIInv'
<1>1. /\ UNCHANGED <<units, ask, gate, operationOf, asked, prepared, verdict>>
      /\ pins \in Seq(PinRecords) /\ pins # <<>> /\ undone \in Nat
      /\ \A n \in DOMAIN pins : pins[n].fork \in 0..undone
  BY DEF PrepareIInv, PinsOK, PinMined, PinReplaced
<1>2. VerdictOK' /\ OnFile'
  BY <1>1, VerdictKept DEF PrepareIInv, OnFile
<1>3. /\ pins' \in Seq(PinRecords) /\ pins' # <<>> /\ undone' \in Nat /\ undone <= undone'
      /\ \A n \in DOMAIN pins' : pins'[n].fork \in 0..undone'
      /\ \A n \in DOMAIN pins :
            n \in DOMAIN pins' /\ (pins'[n] = pins[n] \/ pins'[n].fork > undone)
  <2>1. CASE PinMined(s)
    <3>1. [fork |-> undone, state |-> s] \in PinRecords
      BY <1>1 DEF PinRecords
    <3> QED
      BY <1>1, <2>1, <3>1 DEF PinMined
  <2>2. CASE PinReplaced(s)
    <3>1. [fork |-> undone + 1, state |-> s] \in PinRecords
      BY <1>1 DEF PinRecords
    <3>2. /\ undone' = undone + 1
          /\ pins' = [pins EXCEPT ![Len(pins)] = [fork |-> undone + 1, state |-> s]]
      BY <2>2 DEF PinReplaced
    <3> QED
      BY <1>1, <3>1, <3>2
  <2> QED
    BY <2>1, <2>2
<1>4. ASSUME NEW c \in Askers PROVE RequestOK(c)'
  <2>1. ask'[c] = ask[c] /\ RequestOK(c)
    BY <1>1 DEF PrepareIInv, RequestsOK
  <2>2. ASSUME ask[c] # NoAsk, ask[c].at \in {"snapshot", "search", "canonical"}
        PROVE  /\ ask[c].number \in DOMAIN pins' /\ ask[c].pin.fork \in 0..undone'
               /\ Canonical(c)' => Canonical(c)
    <3>1. /\ ask[c].number \in DOMAIN pins
          /\ ask[c].pin.fork \in 0..undone
      BY <2>1, <2>2 DEF RequestOK
    <3>2. pins'[ask[c].number] = pins[ask[c].number] \/ pins'[ask[c].number].fork > undone
      BY <1>3, <3>1
    <3> QED
      BY <1>1, <1>3, <2>1, <3>1, <3>2 DEF Canonical
  <2> QED
    BY <1>1, <2>1, <2>2 DEF RequestOK, Upper, TokenUnitsFloor
<1> QED
  BY <1>1, <1>2, <1>3, <1>4 DEF PrepareIInv, PinsOK, RequestsOK

LEMMA PrepareStopsKeeps ==
    ASSUME PrepareIInv, PrepareStops
    PROVE  PrepareIInv'
<1>1. /\ ask' = [c \in Askers |-> NoAsk] /\ gate' = <<>> /\ undone' = undone + 1
      /\ UNCHANGED <<units, pins, operationOf, asked, prepared, verdict>>
  BY DEF PrepareStops
<1>2. RequestsOK' /\ gate' \in Seq(Askers)
  BY <1>1 DEF RequestsOK, RequestOK
<1>3. PinsOK'
  BY <1>1 DEF PrepareIInv, PinsOK
<1>4. VerdictOK' /\ OnFile' /\ asked' \in Nat
  BY <1>1, VerdictKept DEF PrepareIInv, OnFile
<1> QED
  BY <1>2, <1>3, <1>4 DEF PrepareIInv

LEMMA PrepareInductive == PrepareIInv /\ [PrepareNext]_prepareVars => PrepareIInv'
<1> SUFFICES ASSUME PrepareIInv, [PrepareNext]_prepareVars PROVE PrepareIInv'
  OBVIOUS
<1>1. ASSUME NEW c \in Askers, NEW k \in AskKeys, NEW n \in Amounts, Asks(c, k, n)
      PROVE  PrepareIInv'
  BY <1>1, AsksKeeps
<1>2. ASSUME NEW c \in Askers, NEW n \in Reservations, ReadsSnapshot(c, n)
      PROVE  PrepareIInv'
  BY <1>2, ReadsSnapshotKeeps
<1>3. ASSUME NEW c \in Askers, Pins(c) \/ Searches(c) \/ Judges(c) \/ ChecksKey(c) \/ Puts(c)
      PROVE  PrepareIInv'
  BY <1>3, PinsKeeps, SearchesKeeps, JudgesKeeps, ChecksKeyKeeps, PutsKeeps
<1>4. ASSUME NEW s \in CashStates, PinMined(s) \/ PinReplaced(s) PROVE PrepareIInv'
  BY <1>4, ChainMovesKeeps
<1>5. CASE PrepareStops
  BY <1>5, PrepareStopsKeeps
<1>6. CASE UNCHANGED prepareVars
  <2>1. UNCHANGED <<units, pins, ask, gate, operationOf, asked, undone, prepared, verdict>>
    BY <1>6 DEF prepareVars
  <2>2. VerdictOK' /\ OnFile' /\ PinsOK' /\ gate' \in Seq(Askers) /\ asked' \in Nat
    BY <2>1, VerdictKept DEF PrepareIInv, OnFile, PinsOK
  <2>3. RequestsOK'
    BY <2>1 DEF PrepareIInv, RequestsOK, RequestOK, Canonical, Upper, TokenUnitsFloor
  <2> QED
    BY <2>2, <2>3 DEF PrepareIInv
<1> QED
  BY <1>1, <1>2, <1>3, <1>4, <1>5, <1>6 DEF PrepareNext

\* Every request that is judged is judged by its pinned block, and every
\* operation answered is the one on file (prepare, putIfIdempotencyAbsent).
THEOREM PrepareInvariant == PrepareSpec => []PrepareIInv
<1> QED
  BY PrepareInitial, PrepareInductive, PTL DEF PrepareSpec

\* A key leads to one operation in every answer, and an amount is allowed
\* exactly when it is withdrawable at the pinned block (prepare, findMaximum,
\* putIfIdempotencyAbsent), with any number of requests, blocks,
\* reorganisations, failed puts and stops.
THEOREM WithdrawalsArePreparedAsAsked == PrepareSpec => []PreparedAsAsked
<1>1. PrepareIInv => PreparedAsAsked
  BY DEF PrepareIInv, OnFile, VerdictOK, PreparedAsAsked
<1> QED
  BY <1>1, PrepareInvariant, PTL

-----------------------------------------------------------------------------
(* Replacement of checkpoints by the directory. *)

\* A prefix, element by element.
LEMMA PrefixIs ==
    ASSUME NEW S, NEW h \in Seq(S), NEW c \in Seq(S)
    PROVE  IsPrefix(h, c) <=> Len(h) <= Len(c) /\ \A i \in 1..Len(h) : h[i] = c[i]
<1>1. ASSUME Len(h) <= Len(c)
      PROVE  SubSeq(h, 1, Len(h)) = SubSeq(c, 1, Len(h)) <=> \A i \in 1..Len(h) : h[i] = c[i]
  <2>1. /\ SubSeq(h, 1, Len(h)) = [i \in 1..Len(h) |-> h[i]]
        /\ SubSeq(c, 1, Len(h)) = [i \in 1..Len(h) |-> c[i]]
    BY <1>1
  <2> QED
    BY <2>1
<1> QED
  BY <1>1 DEF IsPrefix

\* Hash, as a sequence.
LEMMA HashIs ==
    ASSUME NEW S, chain \in Seq(S), NEW n \in Nat, n <= Len(chain)
    PROVE  /\ Hash(n) \in Seq(S) /\ Len(Hash(n)) = n
           /\ \A i \in 1..n : Hash(n)[i] = chain[i]
BY DEF Hash

\* A sequence that is the hash of the block at its length is a prefix.
LEMMA HashIsPrefix ==
    ASSUME NEW S, chain \in Seq(S), NEW h \in Seq(S), Len(h) <= Len(chain)
    PROVE  Hash(Len(h)) = h <=> IsPrefix(h, chain)
<1>1. /\ Hash(Len(h)) \in Seq(S) /\ Len(Hash(Len(h))) = Len(h)
      /\ \A i \in 1..Len(h) : Hash(Len(h))[i] = chain[i]
  BY HashIs
<1>2. Hash(Len(h)) = h <=> \A i \in 1..Len(h) : Hash(Len(h))[i] = h[i]
  <2>1. Hash(Len(h)) = [i \in 1..Len(h) |-> Hash(Len(h))[i]]
    BY <1>1
  <2>2. h = [i \in 1..Len(h) |-> h[i]]
    OBVIOUS
  <2> QED
    BY <2>1, <2>2
<1>3. IsPrefix(h, chain) <=> \A i \in 1..Len(h) : h[i] = chain[i]
  BY PrefixIs
<1> QED
  BY <1>1, <1>2, <1>3

\* The first blocks of two chains are the same.
Agree(c, d, n) == \A i \in 1..n : c[i] = d[i]

-----------------------------------------------------------------------------
Checkpoints == [block : Nat \ {0}, hash : Seq(Blocks), ready : BOOLEAN]

\* A checkpoint names a confirmed block.
CheckpointOK ==
    checkpoint # NoCheckpoint =>
        /\ checkpoint \in Checkpoints /\ Len(checkpoint.hash) = checkpoint.block
        /\ checkpoint.block + Confirmations <= Len(chain)

\* After the comparison the checkpoint is on the chain and the pass goes on
\* from it; the checkpoint that is to be dropped is not on it; and what a pass
\* has read of the chain is confirmed.
DirectoryPassOK ==
    /\ step = "compare" => checkpoint # NoCheckpoint /\ from = checkpoint.block + 1
    /\ step = "reset" =>
          from = 1 /\ (checkpoint # NoCheckpoint => ~IsPrefix(checkpoint.hash, chain))
    /\ step = "rows" => from = 1 /\ checkpoint = NoCheckpoint
    /\ step \in {"head", "events", "apply", "save"} =>
          IF checkpoint = NoCheckpoint THEN from = 1
          ELSE from = checkpoint.block + 1 /\ IsPrefix(checkpoint.hash, chain)
    /\ step \in {"events", "apply", "save"} =>
          safe \in Nat /\ from <= safe /\ safe + Confirmations <= Len(chain)
    /\ step = "save" => hash = Hash(ToBlock)

DirectoryIInv == chain \in Seq(Blocks) /\ CheckpointOK /\ DirectoryPassOK

\* The chunk ends between its first block and the confirmed head.
LEMMA ToBlockBetween ==
    ASSUME from \in Nat \ {0}, safe \in Nat, from <= safe
    PROVE  ToBlock \in Nat /\ from <= ToBlock /\ ToBlock <= safe
<1>1. from + ChunkSize - 1 \in Nat /\ from <= from + ChunkSize - 1
  BY DirectoryAssumption
<1>2. PICK a \in Nat : a = from + ChunkSize - 1
  BY <1>1
<1>3. \E m \in {a, safe} : \A k \in {a, safe} : m <= k
  <2>1. CASE a <= safe
    BY <2>1
  <2>2. CASE ~(a <= safe)
    BY <2>2
  <2> QED BY <2>1, <2>2
<1>4. Min({a, safe}) \in {a, safe} /\ \A k \in {a, safe} : Min({a, safe}) <= k
  BY <1>3 DEF Min
<1> QED
  BY <1>1, <1>2, <1>4 DEF ToBlock

LEMMA DirectoryInitial == DirectoryInit => DirectoryIInv
BY DEF DirectoryInit, DirectoryIInv, CheckpointOK, DirectoryPassOK

\* A chain that keeps its confirmed blocks keeps all that was read of it; one
\* that does not is only met between passes.
LEMMA ChainKeeps ==
    ASSUME DirectoryIInv, chain' \in Seq(Blocks), Len(chain) <= Len(chain'),
           step # "idle" => Agree(chain, chain', Len(chain) - Confirmations),
           UNCHANGED <<passVars, checkpoint>>
    PROVE  DirectoryIInv'
<1>1. /\ UNCHANGED <<step, from, safe, pending, hash, hadReady, failures, checkpoint>>
      /\ Confirmations \in Nat /\ chain \in Seq(Blocks)
      /\ Len(chain) \in Nat /\ Len(chain') \in Nat
  BY DirectoryAssumption DEF passVars, DirectoryIInv
<1>2. CheckpointOK'
  BY <1>1 DEF DirectoryIInv, CheckpointOK, Checkpoints
<1>3. CASE step = "idle"
  BY <1>1, <1>2, <1>3 DEF DirectoryIInv, DirectoryPassOK
<1>4. CASE step # "idle"
  <2>1. \A i \in 1..Len(chain) - Confirmations : chain[i] = chain'[i]
    BY <1>4 DEF Agree
  <2>2. ASSUME checkpoint # NoCheckpoint
        PROVE  IsPrefix(checkpoint.hash, chain') <=> IsPrefix(checkpoint.hash, chain)
    <3>1. PICK h \in Seq(Blocks) : h = checkpoint.hash
      BY <2>2 DEF DirectoryIInv, CheckpointOK, Checkpoints
    <3>2. Len(h) \in Nat /\ Len(h) + Confirmations <= Len(chain)
      BY <2>2, <3>1 DEF DirectoryIInv, CheckpointOK, Checkpoints
    <3>3. \A i \in 1..Len(h) : chain[i] = chain'[i]
      BY <1>1, <2>1, <3>2
    <3>4. IsPrefix(h, chain) <=> \A i \in 1..Len(h) : h[i] = chain[i]
      BY <1>1, <3>2, PrefixIs
    <3>5. IsPrefix(h, chain') <=> \A i \in 1..Len(h) : h[i] = chain'[i]
      BY <1>1, <3>2, PrefixIs
    <3> QED
      BY <3>1, <3>3, <3>4, <3>5
  <2>3. ASSUME step \in {"events", "apply", "save"}
        PROVE  safe \in Nat /\ from <= safe /\ safe + Confirmations <= Len(chain')
    BY <1>1, <2>3 DEF DirectoryIInv, DirectoryPassOK
  <2>4. ASSUME step = "save" PROVE hash = Hash(ToBlock)'
    <3>1. /\ safe \in Nat /\ from <= safe /\ safe + Confirmations <= Len(chain)
          /\ from \in Nat \ {0} /\ hash = Hash(ToBlock)
      BY <2>4 DEF DirectoryIInv, DirectoryPassOK, CheckpointOK, Checkpoints
    <3>2. PICK n \in Nat : n = ToBlock /\ n <= safe
      BY <3>1, ToBlockBetween
    <3>3. ToBlock' = n
      BY <1>1, <3>2 DEF ToBlock
    <3>4. SubSeq(chain', 1, n) = SubSeq(chain, 1, n)
      <4>1. \A i \in 1..n : chain[i] = chain'[i]
        BY <1>1, <2>1, <3>1, <3>2
      <4>2. n <= Len(chain) /\ n <= Len(chain')
        BY <1>1, <3>1, <3>2
      <4>3. /\ SubSeq(chain, 1, n) = [i \in 1..n |-> chain[i]]
            /\ SubSeq(chain', 1, n) = [i \in 1..n |-> chain'[i]]
        BY <1>1, <4>2
      <4> QED
        BY <4>1, <4>3
    <3> QED
      BY <3>1, <3>2, <3>3, <3>4 DEF Hash
  <2> QED
    BY <1>1, <1>2, <2>2, <2>3, <2>4 DEF DirectoryIInv, DirectoryPassOK
<1> QED
  BY <1>3, <1>4

\* What a new block and a reorganisation leave of the chain.
LEMMA MineChain ==
    ASSUME chain \in Seq(Blocks), Mine
    PROVE  /\ chain' \in Seq(Blocks) /\ Len(chain) <= Len(chain')
           /\ Agree(chain, chain', Len(chain) - Confirmations)
<1>1. PICK b \in Blocks : chain' = Append(chain, b)
  BY DEF Mine
<1>2. Confirmations \in Nat
  BY DirectoryAssumption
<1> QED
  BY <1>1, <1>2 DEF Agree

LEMMA ReorgChain ==
    ASSUME ~DeepAnytime, chain \in Seq(Blocks), NEW d, Reorg(d)
    PROVE  /\ chain' \in Seq(Blocks) /\ Len(chain) <= Len(chain')
           /\ step # "idle" => Agree(chain, chain', Len(chain) - Confirmations)
<1>1. d \in 1..Len(chain) /\ (d <= Confirmations \/ step = "idle")
  BY DEF Reorg
<1>2. PICK suffix \in [1..d -> Blocks] : chain' = SubSeq(chain, 1, Len(chain) - d) \o suffix
  BY DEF Reorg
<1>3. chain \in Seq(Blocks) /\ Confirmations \in Nat
  BY DirectoryAssumption
<1>4. PICK n \in Nat : n = Len(chain) - d
  BY <1>1, <1>3
<1>5. /\ SubSeq(chain, 1, n) \in Seq(Blocks) /\ Len(SubSeq(chain, 1, n)) = n
      /\ \A i \in 1..n : SubSeq(chain, 1, n)[i] = chain[i]
  BY <1>1, <1>3, <1>4
<1>6. suffix \in Seq(Blocks) /\ Len(suffix) = d
  BY <1>1, <1>3, <1>2
<1>7. /\ chain' \in Seq(Blocks) /\ Len(chain') = Len(chain)
      /\ \A i \in 1..n : chain'[i] = chain[i]
  <2>1. PICK front \in Seq(Blocks) : front = SubSeq(chain, 1, n)
    BY <1>5
  <2>2. chain' = front \o suffix
    BY <1>2, <1>4, <2>1
  <2>3. /\ front \o suffix \in Seq(Blocks) /\ Len(front \o suffix) = n + d
        /\ \A i \in 1..n : (front \o suffix)[i] = front[i]
    BY <1>1, <1>5, <1>6, <2>1
  <2>4. n + d = Len(chain)
    BY <1>1, <1>3, <1>4
  <2> QED
    BY <1>5, <2>1, <2>2, <2>3, <2>4
<1>8. ASSUME step # "idle" PROVE Agree(chain, chain', Len(chain) - Confirmations)
  BY <1>1, <1>3, <1>4, <1>7, <1>8 DEF Agree
<1> QED
  BY <1>3, <1>7, <1>8

LEMMA ChainStepsKeep ==
    ASSUME ~DeepAnytime, DirectoryIInv, Mine \/ (\E d \in 1..MaxDepth : Reorg(d))
    PROVE  DirectoryIInv'
<1>1. UNCHANGED <<passVars, checkpoint>> /\ chain \in Seq(Blocks)
  BY DEF Mine, Reorg, tableVars, DirectoryIInv
<1>2. /\ chain' \in Seq(Blocks) /\ Len(chain) <= Len(chain')
      /\ step # "idle" => Agree(chain, chain', Len(chain) - Confirmations)
  BY <1>1, MineChain, ReorgChain
<1> QED
  BY <1>1, <1>2, ChainKeeps

\* The pass ends, in a step that leaves the chain and keeps the checkpoint
\* confirmed.
LEMMA PassEndsKeeps ==
    ASSUME DirectoryIInv, NEW how, how \in {"idle", "failed"}, PassEnds(how),
           CheckpointOK', UNCHANGED chain
    PROVE  DirectoryIInv'
BY DEF DirectoryIInv, PassEnds, DirectoryPassOK

LEMMA StartsKeeps ==
    ASSUME DirectoryIInv, StartPass \/ Compare \/ ResetCheckpoint
    PROVE  DirectoryIInv'
<1>1. UNCHANGED chain /\ chain \in Seq(Blocks) /\ CheckpointOK
  BY DEF StartPass, Compare, ResetCheckpoint, chainVars, DirectoryIInv
<1>2. CASE StartPass
  <2>1. /\ UNCHANGED checkpoint
        /\ IF checkpoint = NoCheckpoint THEN step' = "reset" /\ from' = 1
           ELSE step' = "compare" /\ from' = checkpoint.block + 1
    BY <1>2 DEF StartPass, tableVars
  <2> QED
    BY <1>1, <2>1 DEF DirectoryIInv, CheckpointOK, DirectoryPassOK
<1>3. CASE Compare
  <2>1. /\ UNCHANGED checkpoint /\ step = "compare"
        /\ IF Hash(checkpoint.block) = checkpoint.hash THEN step' = "head" /\ UNCHANGED from
           ELSE step' = "reset" /\ from' = 1
    BY <1>3 DEF Compare, Compared, tableVars
  <2>2. checkpoint # NoCheckpoint /\ from = checkpoint.block + 1
    BY <2>1 DEF DirectoryIInv, DirectoryPassOK
  <2>3. PICK h \in Seq(Blocks) : h = checkpoint.hash /\ Len(h) = checkpoint.block
    BY <1>1, <2>2 DEF CheckpointOK, Checkpoints
  <2>4. Len(h) <= Len(chain)
    BY <1>1, <2>2, <2>3, DirectoryAssumption DEF CheckpointOK
  <2>5. Hash(checkpoint.block) = checkpoint.hash <=> IsPrefix(checkpoint.hash, chain)
    BY <1>1, <2>3, <2>4, HashIsPrefix
  <2>6. CheckpointOK'
    BY <1>1, <2>1 DEF CheckpointOK, Checkpoints
  <2>7. DirectoryPassOK'
    BY <1>1, <2>1, <2>2, <2>5 DEF DirectoryPassOK
  <2> QED
    BY <1>1, <2>6, <2>7 DEF DirectoryIInv
<1>4. CASE ResetCheckpoint
  <2>1. step = "reset" /\ step' = "rows" /\ checkpoint' = NoCheckpoint /\ UNCHANGED from
    BY <1>4 DEF ResetCheckpoint
  <2> QED
    BY <1>1, <2>1 DEF DirectoryIInv, CheckpointOK, DirectoryPassOK
<1> QED
  BY <1>2, <1>3, <1>4

LEMMA ResetsKeep ==
    ASSUME DirectoryIInv, (\E a \in Accounts : ResetRow(a)) \/ ResetEnds
    PROVE  DirectoryIInv'
<1>1. /\ UNCHANGED <<chain, checkpoint, from, safe, hash>> /\ step = "rows"
      /\ step' \in {"rows", "head"}
  BY DEF ResetRow, ResetEnds, chainVars, passVars, tableVars
<1>2. from = 1 /\ checkpoint = NoCheckpoint
  BY <1>1 DEF DirectoryIInv, DirectoryPassOK
<1> QED
  BY <1>1, <1>2 DEF DirectoryIInv, CheckpointOK, DirectoryPassOK

\* From the head to the hash: the pass reads confirmed blocks.
LEMMA ReadsKeep ==
    ASSUME DirectoryIInv, ReadHead \/ GetEvents \/ ApplyEvent \/ ReadHash
    PROVE  DirectoryIInv'
<1>1. UNCHANGED <<chain, checkpoint>> /\ chain \in Seq(Blocks) /\ CheckpointOK
  BY DEF ReadHead, GetEvents, ApplyEvent, ReadHash, chainVars, tableVars, DirectoryIInv
<1>2. CheckpointOK'
  BY <1>1 DEF CheckpointOK, Checkpoints
<1>3. CASE ReadHead
  <2>1. CASE SafeHead < from
    BY <1>2, <1>3, <2>1, <1>1, PassEndsKeeps DEF ReadHead
  <2>2. CASE ~(SafeHead < from)
    <3>1. step = "head" /\ step' = "events" /\ safe' = SafeHead /\ UNCHANGED from
      BY <1>3, <2>2 DEF ReadHead
    <3>2. /\ from \in Nat \ {0}
          /\ IF checkpoint = NoCheckpoint THEN from = 1
             ELSE from = checkpoint.block + 1 /\ IsPrefix(checkpoint.hash, chain)
      BY <3>1 DEF DirectoryIInv, DirectoryPassOK, CheckpointOK, Checkpoints
    <3>3. SafeHead \in Nat /\ from <= SafeHead /\ SafeHead + Confirmations <= Len(chain)
      BY <1>1, <2>2, <3>2, DirectoryAssumption DEF SafeHead
    <3> QED
      BY <1>1, <1>2, <3>1, <3>2, <3>3 DEF DirectoryIInv, DirectoryPassOK
  <2> QED
    BY <2>1, <2>2
<1>4. CASE GetEvents \/ ApplyEvent
  <2>1. step \in {"events", "apply"} /\ step' = "apply" /\ UNCHANGED <<from, safe>>
    BY <1>4 DEF GetEvents, ApplyEvent
  <2> QED
    BY <1>1, <1>2, <2>1 DEF DirectoryIInv, DirectoryPassOK
<1>5. CASE ReadHash
  <2>1. step = "apply" /\ step' = "save" /\ UNCHANGED <<from, safe>> /\ hash' = Hash(ToBlock)
    BY <1>5 DEF ReadHash
  <2>2. Hash(ToBlock)' = Hash(ToBlock)
    BY <1>1, <2>1 DEF Hash, ToBlock
  <2> QED
    BY <1>1, <1>2, <2>1, <2>2 DEF DirectoryIInv, DirectoryPassOK
<1> QED
  BY <1>3, <1>4, <1>5

\* The checkpoint that is saved is that of the chunk's last block, and extends
\* the one before.
LEMMA SavedExtends ==
    ASSUME DirectoryIInv, SaveCheckpoint
    PROVE  /\ checkpoint' = [block |-> ToBlock, hash |-> Hash(ToBlock),
                             ready |-> hadReady \/ ToBlock = safe]
           /\ ToBlock \in Nat \ {0} /\ ToBlock <= safe /\ safe \in Nat
           /\ safe + Confirmations <= Len(chain) /\ ToBlock <= Len(chain)
           /\ checkpoint' \in Checkpoints /\ checkpoint' # NoCheckpoint
           /\ Len(checkpoint'.hash) = checkpoint'.block
           /\ IsPrefix(checkpoint'.hash, chain)
           /\ checkpoint # NoCheckpoint => IsPrefix(checkpoint.hash, checkpoint'.hash)
<1>1. /\ step = "save" /\ chain \in Seq(Blocks) /\ Confirmations \in Nat
      /\ safe \in Nat /\ from <= safe /\ safe + Confirmations <= Len(chain)
      /\ hash = Hash(ToBlock)
  BY DirectoryAssumption DEF SaveCheckpoint, DirectoryIInv, DirectoryPassOK
<1>2. /\ from \in Nat \ {0}
      /\ IF checkpoint = NoCheckpoint THEN from = 1
         ELSE from = checkpoint.block + 1 /\ IsPrefix(checkpoint.hash, chain)
  BY <1>1 DEF DirectoryIInv, DirectoryPassOK, CheckpointOK, Checkpoints
<1>3. PICK n \in Nat \ {0} : n = ToBlock /\ from <= n /\ n <= safe /\ n <= Len(chain)
  BY <1>1, <1>2, ToBlockBetween
<1>4. checkpoint # NoCheckpoint => checkpoint.block <= n /\ checkpoint.block \in Nat
  BY <1>2, <1>3 DEF DirectoryIInv, CheckpointOK, Checkpoints
<1>5. (hadReady \/ ToBlock = safe) \in BOOLEAN
  BY Zenon
<1>6. checkpoint' = [block |-> n, hash |-> Hash(n), ready |-> hadReady \/ ToBlock = safe]
  BY <1>1, <1>3, <1>4 DEF SaveCheckpoint
<1>7. /\ Hash(n) \in Seq(Blocks) /\ Len(Hash(n)) = n
      /\ \A i \in 1..n : Hash(n)[i] = chain[i]
  BY <1>1, <1>3, HashIs
<1>8. checkpoint' \in Checkpoints /\ checkpoint' # NoCheckpoint
  <2>1. PICK b \in BOOLEAN : b = (hadReady \/ ToBlock = safe)
    BY <1>5, Zenon
  <2>2. checkpoint' = [block |-> n, hash |-> Hash(n), ready |-> b]
    BY <1>6, <2>1, Zenon
  <2>3. checkpoint' \in [block : Nat, hash : Seq(Blocks), ready : BOOLEAN]
        /\ checkpoint' \in Checkpoints
    BY <1>7, <2>2 DEF Checkpoints
  <2> QED
    BY <2>3, CheckpointAssumption
<1>9. PICK g \in Seq(Blocks) : g = checkpoint'.hash /\ g = Hash(n)
  BY <1>6, <1>7
<1>10. IsPrefix(g, chain)
  BY <1>1, <1>3, <1>7, <1>9, PrefixIs
<1>11. ASSUME checkpoint # NoCheckpoint PROVE IsPrefix(checkpoint.hash, g)
  <2>1. PICK h \in Seq(Blocks) : h = checkpoint.hash /\ Len(h) = checkpoint.block
    BY <1>11 DEF DirectoryIInv, CheckpointOK, Checkpoints
  <2>2. Len(h) <= n /\ IsPrefix(h, chain)
    BY <1>2, <1>4, <1>11, <2>1
  <2>3. \A i \in 1..Len(h) : h[i] = chain[i]
    BY <1>1, <2>2, PrefixIs
  <2>4. \A i \in 1..Len(h) : h[i] = g[i]
    BY <1>3, <1>7, <1>9, <2>2, <2>3
  <2>5. IsPrefix(h, g)
    BY <1>7, <1>9, <2>2, <2>4, PrefixIs
  <2> QED
    BY <2>1, <2>5
<1>12. checkpoint'.block = n /\ Len(checkpoint'.hash) = n
  BY <1>6, <1>7
<1> QED
  BY <1>1, <1>3, <1>6, <1>8, <1>9, <1>10, <1>11, <1>12

LEMMA SaveKeeps ==
    ASSUME DirectoryIInv, SaveCheckpoint
    PROVE  DirectoryIInv'
<1>1. /\ UNCHANGED chain /\ Confirmations \in Nat /\ chain \in Seq(Blocks)
      /\ ToBlock \in Nat \ {0} /\ ToBlock <= safe /\ safe \in Nat
      /\ safe + Confirmations <= Len(chain)
      /\ checkpoint' \in Checkpoints /\ checkpoint' # NoCheckpoint
      /\ Len(checkpoint'.hash) = checkpoint'.block
      /\ checkpoint'.block = ToBlock /\ IsPrefix(checkpoint'.hash, chain)
  BY SavedExtends, DirectoryAssumption DEF SaveCheckpoint, chainVars, DirectoryIInv
<1>2. CheckpointOK'
  BY <1>1 DEF CheckpointOK, Checkpoints
<1>3. CASE ToBlock < safe
  <2>1. step' = "events" /\ from' = ToBlock + 1 /\ UNCHANGED safe
    BY <1>3 DEF SaveCheckpoint
  <2> QED
    BY <1>1, <1>2, <1>3, <2>1 DEF DirectoryIInv, DirectoryPassOK
<1>4. CASE ~(ToBlock < safe)
  BY <1>1, <1>2, <1>4, PassEndsKeeps DEF SaveCheckpoint
<1> QED
  BY <1>3, <1>4

LEMMA DirectoryInductive ==
    ASSUME ~DeepAnytime, DirectoryIInv, [DirectoryNext]_directoryVars
    PROVE  DirectoryIInv'
<1>1. CASE PassStep
  BY <1>1, StartsKeeps, ResetsKeep, ReadsKeep, SaveKeeps DEF PassStep
<1>2. CASE PassFails
  <2>1. PassEnds("failed") /\ UNCHANGED <<chain, checkpoint>>
    BY <1>2 DEF PassFails, chainVars, tableVars
  <2>2. CheckpointOK'
    BY <2>1 DEF DirectoryIInv, CheckpointOK, Checkpoints
  <2> QED
    BY <2>1, <2>2, PassEndsKeeps
<1>3. CASE ReadCheckpoint \/ (\E o \in Owners : ListAccounts(o)) \/ UNCHANGED directoryVars
  <2>1. UNCHANGED <<chain, passVars, checkpoint>> /\ chain \in Seq(Blocks)
    BY <1>3 DEF ReadCheckpoint, ListAccounts, directoryVars, chainVars, tableVars, DirectoryIInv
  <2>2. Agree(chain, chain', Len(chain) - Confirmations)
    BY <2>1 DEF Agree
  <2> QED
    BY <2>1, <2>2, ChainKeeps
<1>4. CASE Mine \/ (\E d \in 1..MaxDepth : Reorg(d))
  BY <1>4, ChainStepsKeep
<1> QED
  BY <1>1, <1>2, <1>3, <1>4 DEF DirectoryNext

\* Unless a reorganisation deeper than the confirmations falls in a pass, the
\* comparison at its start settles whether the checkpoint is on the chain
\* until the pass has replaced or dropped it (syncOnce, reset).
THEOREM DirectoryInvariant ==
    ASSUME ~DeepAnytime
    PROVE  DirectorySpec => []DirectoryIInv
<1>1. DirectoryInit => DirectoryIInv
  BY DirectoryInitial
<1>2. DirectoryIInv /\ [DirectoryNext]_directoryVars => DirectoryIInv'
  BY DirectoryInductive
<1> QED
  BY <1>1, <1>2, PTL DEF DirectorySpec

\* A stored checkpoint is only replaced by one that extends it, and only
\* dropped when it is not canonical (syncOnce, setCheckpoint).
THEOREM CheckpointsOnlyExtend ==
    ASSUME ~DeepAnytime
    PROVE  DirectorySpec => CheckpointOnlyExtends
<1> DEFINE Extends ==
      checkpoint # NoCheckpoint /\ checkpoint' # checkpoint =>
         IF checkpoint' = NoCheckpoint
         THEN ~IsPrefix(checkpoint.hash, chain)
         ELSE IsPrefix(checkpoint.hash, checkpoint'.hash)
<1>1. DirectoryIInv /\ [DirectoryNext]_directoryVars => [Extends]_directoryVars
  <2> SUFFICES ASSUME DirectoryIInv, DirectoryNext,
                      checkpoint # NoCheckpoint, checkpoint' # checkpoint
               PROVE  Extends
    OBVIOUS
  <2>1. CASE ResetCheckpoint
    BY <2>1 DEF ResetCheckpoint, DirectoryIInv, DirectoryPassOK
  <2>2. CASE SaveCheckpoint
    BY <2>2, SavedExtends
  <2>3. ResetCheckpoint \/ SaveCheckpoint
    BY DEF DirectoryNext, PassStep, PassFails, StartPass, Compare, ResetRow, ResetEnds,
           ReadHead, GetEvents, ApplyEvent, ReadHash, ReadCheckpoint, ListAccounts,
           Mine, Reorg, tableVars
  <2> QED
    BY <2>1, <2>2, <2>3
<1> QED
  BY <1>1, DirectoryInvariant, PTL DEF DirectorySpec, CheckpointOnlyExtends

-----------------------------------------------------------------------------
(* The rows of the directory: logs in their order. *)

\* The logs of L before l.
Earlier(l, L) == {k \in L : IsBefore(k.at, l.at)}

\* The positions of the logs of L tell them apart and order them.
Ordered(L) ==
    /\ IsFiniteSet(L)
    /\ \A k, l \in L : k = l \/ IsBefore(k.at, l.at) \/ IsBefore(l.at, k.at)
    /\ \A k \in L : ~IsBefore(k.at, k.at)
    /\ \A k, l, m \in L : IsBefore(k.at, l.at) /\ IsBefore(l.at, m.at) => IsBefore(k.at, m.at)

\* How many logs are before one orders them too.
LEMMA EarlierCounts ==
    ASSUME NEW L, Ordered(L), NEW l \in L
    PROVE  /\ Cardinality(Earlier(l, L)) \in 0..Cardinality(L) - 1
           /\ \A k \in L : IsBefore(k.at, l.at) <=>
                  Cardinality(Earlier(k, L)) < Cardinality(Earlier(l, L))
<1>0. IsFiniteSet(L) /\ Cardinality(L) \in Nat
  BY FS_CardinalityType DEF Ordered
<1>1. ASSUME NEW k \in L
      PROVE  IsFiniteSet(Earlier(k, L)) /\ Cardinality(Earlier(k, L)) \in Nat
  <2>1. Earlier(k, L) \in SUBSET L
    BY DEF Earlier
  <2> QED
    BY <1>0, <2>1, FS_Subset, FS_CardinalityType
<1>2. ASSUME NEW k \in L, NEW m \in L, IsBefore(k.at, m.at)
      PROVE  Cardinality(Earlier(k, L)) < Cardinality(Earlier(m, L))
  <2>1. /\ Earlier(k, L) \in SUBSET Earlier(m, L)
        /\ k \in Earlier(m, L) /\ k \notin Earlier(k, L)
    BY <1>2 DEF Earlier, Ordered
  <2>2. /\ Cardinality(Earlier(k, L)) <= Cardinality(Earlier(m, L))
        /\ Cardinality(Earlier(k, L)) # Cardinality(Earlier(m, L))
    BY <1>1, <2>1, FS_Subset
  <2> QED
    BY <1>1, <2>2
<1>3. Cardinality(Earlier(l, L)) < Cardinality(L)
  <2>1. Earlier(l, L) \in SUBSET L /\ Earlier(l, L) # L
    BY DEF Earlier, Ordered
  <2>2. /\ Cardinality(Earlier(l, L)) <= Cardinality(L)
        /\ Cardinality(Earlier(l, L)) # Cardinality(L)
    BY <1>0, <2>1, FS_Subset
  <2> QED
    BY <1>0, <1>1, <2>2
<1>4. ASSUME NEW k \in L, Cardinality(Earlier(k, L)) < Cardinality(Earlier(l, L))
      PROVE  IsBefore(k.at, l.at)
  BY <1>1, <1>2, <1>4 DEF Ordered
<1> QED
  BY <1>0, <1>1, <1>2, <1>3, <1>4

\* So every number below their number is that of one log.
LEMMA EveryPlaceIsTaken ==
    ASSUME NEW L, Ordered(L), NEW i \in 1..Cardinality(L)
    PROVE  \E l \in L : Cardinality(Earlier(l, L)) = i - 1
<1> DEFINE n == Cardinality(L)
           place == [l \in L |-> Cardinality(Earlier(l, L)) + 1]
<1>0. IsFiniteSet(L) /\ n \in Nat
  BY FS_CardinalityType DEF Ordered
<1>1. IsFiniteSet(1..n) /\ Cardinality(1..n) = n
  BY <1>0, FS_Interval
<1>2. place \in [L -> 1..n]
  BY <1>0, EarlierCounts
<1>3. \A k, l \in L : place[k] = place[l] => k = l
  <2> SUFFICES ASSUME NEW k \in L, NEW l \in L, place[k] = place[l] PROVE k = l
    OBVIOUS
  <2>1. Cardinality(Earlier(k, L)) \in Nat /\ Cardinality(Earlier(l, L)) \in Nat
    BY <1>0, EarlierCounts
  <2>2. ~IsBefore(k.at, l.at) /\ ~IsBefore(l.at, k.at)
    BY <2>1, EarlierCounts
  <2> QED
    BY <2>2 DEF Ordered
<1>4. place \in Injection(L, 1..n)
  BY <1>2, <1>3 DEF Injection, IsInjective
<1>5. place \in Surjection(L, 1..n)
  BY <1>1, <1>4, FS_Injection
<1>6. PICK l \in L : place[l] = i
  BY <1>5 DEF Surjection
<1>7. Cardinality(Earlier(l, L)) \in Nat
  BY <1>0, EarlierCounts
<1> QED
  BY <1>6, <1>7

\* Sorted lists each log once, in the order of their positions.
LEMMA SortedIs ==
    ASSUME NEW L, Ordered(L)
    PROVE  /\ Sorted(L) \in [1..Cardinality(L) -> L] /\ Sorted(L) \in Seq(L)
           /\ Cardinality(L) \in Nat /\ Len(Sorted(L)) = Cardinality(L)
           /\ \A i \in 1..Cardinality(L) : Cardinality(Earlier(Sorted(L)[i], L)) = i - 1
           /\ \A i, j \in 1..Cardinality(L) : i < j => IsBefore(Sorted(L)[i].at, Sorted(L)[j].at)
           /\ \A l \in L : \E i \in 1..Cardinality(L) : Sorted(L)[i] = l
<1> DEFINE n == Cardinality(L)
           s == Sorted(L)
<1>0. n \in Nat
  BY FS_CardinalityType DEF Ordered
<1>1. s = [i \in 1..n |-> CHOOSE l \in L : Cardinality(Earlier(l, L)) = i - 1]
  BY DEF Sorted, Earlier
<1> HIDE DEF s
<1>2. ASSUME NEW i \in 1..n PROVE s[i] \in L /\ Cardinality(Earlier(s[i], L)) = i - 1
  <2>1. \E l \in L : Cardinality(Earlier(l, L)) = i - 1
    BY EveryPlaceIsTaken
  <2>2. s[i] = CHOOSE l \in L : Cardinality(Earlier(l, L)) = i - 1
    BY <1>1
  <2> QED
    BY <2>1, <2>2
<1>3. s \in [1..n -> L]
  BY <1>1, <1>2
<1>4. s \in Seq(L) /\ Len(s) = n
  BY <1>0, <1>3
<1>5. ASSUME NEW i \in 1..n, NEW j \in 1..n, i < j PROVE IsBefore(s[i].at, s[j].at)
  BY <1>0, <1>2, <1>5, EarlierCounts
<1>6. ASSUME NEW l \in L PROVE \E i \in 1..n : s[i] = l
  <2>1. PICK i \in 1..n : i = Cardinality(Earlier(l, L)) + 1
    BY <1>0, EarlierCounts
  <2>2. s[i] \in L /\ Cardinality(Earlier(s[i], L)) = Cardinality(Earlier(l, L))
    BY <1>0, <1>2, <2>1, EarlierCounts
  <2>3. ~IsBefore(s[i].at, l.at) /\ ~IsBefore(l.at, s[i].at)
    BY <1>0, <2>2, EarlierCounts
  <2> QED
    BY <2>2, <2>3 DEF Ordered
<1> QED
  BY <1>0, <1>2, <1>3, <1>4, <1>5, <1>6 DEF s

\* Log i of block b.
LogAt(c, b, i) ==
    [account |-> c[b].events[i].account, owner |-> c[b].events[i].owner, at |-> <<b, i>>]

Logs == [account : Accounts, owner : Owners \cup {NoOwner}, at : Nat \X Nat]

\* The events of a block, numbered.
LEMMA EventsAre ==
    ASSUME NEW c \in Seq(Blocks), NEW b \in 1..Len(c)
    PROVE  \E n \in 0..MaxEvents : c[b].events \in [1..n -> Events]
<1>1. c[b] \in Blocks
  OBVIOUS
<1> QED
  BY <1>1 DEF Blocks

\* The logs, by their positions.
LEMMA LogsInAre ==
    ASSUME NEW c \in Seq(Blocks), NEW f \in Nat, NEW t \in Nat, 1 <= f, t <= Len(c)
    PROVE  /\ \A l : l \in LogsIn(c, f, t) <=>
                  \E b \in f..t : \E i \in DOMAIN c[b].events : l = LogAt(c, b, i)
           /\ \A b \in f..t : \A i \in DOMAIN c[b].events :
                  /\ i \in 1..MaxEvents
                  /\ LogAt(c, b, i) \in LogsIn(c, f, t) /\ LogAt(c, b, i) \in Logs
                  /\ LogAt(c, b, i).at = <<b, i>>
           /\ LogsIn(c, f, t) \subseteq Logs
<1>1. ASSUME NEW l
      PROVE  l \in LogsIn(c, f, t) <=>
                 \E b \in f..t : \E i \in DOMAIN c[b].events : l = LogAt(c, b, i)
  <2> DEFINE G(b) == {LogAt(c, b, i) : i \in DOMAIN c[b].events}
  <2>1. LogsIn(c, f, t) = UNION {G(b) : b \in f..t}
    BY Zenon DEF LogsIn, LogAt
  <2>2. l \in UNION {G(b) : b \in f..t} <=> \E b \in f..t : l \in G(b)
    <3> HIDE DEF G
    <3> QED OBVIOUS
  <2>3. \A b \in f..t : l \in G(b) <=> \E i \in DOMAIN c[b].events : l = LogAt(c, b, i)
    OBVIOUS
  <2> QED
    BY <2>1, <2>2, <2>3
<1>2. ASSUME NEW b \in f..t, NEW i \in DOMAIN c[b].events
      PROVE  i \in 1..MaxEvents /\ LogAt(c, b, i) \in Logs /\ LogAt(c, b, i).at = <<b, i>>
  <2>1. PICK n \in 0..MaxEvents : c[b].events \in [1..n -> Events]
    BY EventsAre
  <2>2. PICK e \in Events : e = c[b].events[i]
    BY <2>1
  <2>3. i \in 1..n /\ i \in 1..MaxEvents /\ b \in Nat
    BY <2>1, DirectoryAssumption
  <2>4. LogAt(c, b, i) = [account |-> e.account, owner |-> e.owner, at |-> <<b, i>>]
    BY <2>2 DEF LogAt
  <2> QED
    BY <2>2, <2>3, <2>4 DEF Logs, Events
<1> QED
  BY <1>1, <1>2

\* The block and the number of a log: a log has them, and what has them is one.
LEMMA LogOf ==
    ASSUME NEW c \in Seq(Blocks), NEW f \in Nat, NEW t \in Nat, 1 <= f, t <= Len(c),
           NEW l \in LogsIn(c, f, t)
    PROVE  \E b \in f..t : \E i \in DOMAIN c[b].events : l = LogAt(c, b, i)
BY LogsInAre

LEMMA LogIsIn ==
    ASSUME NEW c \in Seq(Blocks), NEW f \in Nat, NEW t \in Nat, 1 <= f, t <= Len(c),
           NEW b \in f..t, NEW l, \E i \in DOMAIN c[b].events : l = LogAt(c, b, i)
    PROVE  l \in LogsIn(c, f, t)
BY LogsInAre

\* Positions order the logs of a chain.
LEMMA LogsInOrdered ==
    ASSUME NEW c \in Seq(Blocks), NEW f \in Nat, NEW t \in Nat, 1 <= f, t <= Len(c)
    PROVE  Ordered(LogsIn(c, f, t))
<1> DEFINE L == LogsIn(c, f, t)
           P == (f..t) \X (1..MaxEvents)
           place == [l \in L |-> l.at]
<1>1. ASSUME NEW l \in L
      PROVE  \E b \in f..t : \E i \in DOMAIN c[b].events :
                 /\ l = LogAt(c, b, i) /\ l.at = <<b, i>> /\ i \in 1..MaxEvents
                 /\ b \in Nat /\ i \in Nat
  <2>1. PICK b \in f..t : \E i \in DOMAIN c[b].events : l = LogAt(c, b, i)
    BY LogsInAre
  <2>2. PICK i \in DOMAIN c[b].events : l = LogAt(c, b, i)
    BY <2>1
  <2>3. LogAt(c, b, i).at = <<b, i>> /\ i \in 1..MaxEvents
    BY LogsInAre
  <2>4. l.at = <<b, i>> /\ b \in Nat /\ i \in Nat
    BY <2>2, <2>3, DirectoryAssumption
  <2> QED
    BY <2>2, <2>3, <2>4
<1>2. IsFiniteSet(P)
  <2>1. IsFiniteSet(f..t) /\ IsFiniteSet(1..MaxEvents)
    BY FS_Interval, DirectoryAssumption
  <2> QED
    BY <2>1, FS_Product
<1>3. ASSUME NEW l \in L PROVE l.at \in P /\ l.at \in Nat \X Nat
  <2>1. PICK b \in f..t : \E i \in DOMAIN c[b].events :
             l.at = <<b, i>> /\ i \in 1..MaxEvents /\ b \in Nat /\ i \in Nat
    BY <1>1
  <2> QED
    BY <2>1
<1>4. ASSUME NEW k \in L, NEW l \in L
      PROVE  /\ k = l \/ IsBefore(k.at, l.at) \/ IsBefore(l.at, k.at)
             /\ k.at = l.at => k = l
             /\ ~IsBefore(k.at, k.at)
  <2>1. PICK b \in f..t : \E i \in DOMAIN c[b].events :
             k = LogAt(c, b, i) /\ k.at = <<b, i>> /\ b \in Nat /\ i \in Nat
    BY <1>1
  <2>2. PICK i \in DOMAIN c[b].events :
             k = LogAt(c, b, i) /\ k.at = <<b, i>> /\ b \in Nat /\ i \in Nat
    BY <2>1
  <2>3. PICK d \in f..t : \E j \in DOMAIN c[d].events :
             l = LogAt(c, d, j) /\ l.at = <<d, j>> /\ d \in Nat /\ j \in Nat
    BY <1>1
  <2>4. PICK j \in DOMAIN c[d].events :
             l = LogAt(c, d, j) /\ l.at = <<d, j>> /\ d \in Nat /\ j \in Nat
    BY <2>3
  <2> QED
    BY <2>2, <2>4 DEF IsBefore
<1>5. ASSUME NEW k \in L, NEW l \in L, NEW m \in L,
             IsBefore(k.at, l.at), IsBefore(l.at, m.at)
      PROVE  IsBefore(k.at, m.at)
  <2>1. k.at \in Nat \X Nat /\ l.at \in Nat \X Nat /\ m.at \in Nat \X Nat
    BY <1>3
  <2> QED
    BY <1>5, <2>1 DEF IsBefore
<1>6. place \in Injection(L, P)
  BY <1>3, <1>4 DEF Injection, IsInjective
<1>7. IsFiniteSet(L)
  BY <1>2, <1>6, FS_Injection
<1> QED
  BY <1>4, <1>5, <1>7 DEF Ordered

\* row is that of account a after the logs D, whatever their order was: it
\* names the last of the account's logs and the last owner they give it.
RowFits(row, a, D) ==
    LET mine == {l \in D : l.account = a}
        given == {l \in mine : l.owner # NoOwner}
    IN  IF mine = {} THEN row = NoRow
        ELSE \E last \in mine, deposit \in given :
                /\ \A l \in mine : l = last \/ IsBefore(l.at, last.at)
                /\ \A l \in given : l = deposit \/ IsBefore(l.at, deposit.at)
                /\ row = [owner |-> deposit.owner, active |-> last.owner # NoOwner,
                          at |-> last.at]

RowsFit(D) == \A a \in Accounts : RowFits(rows[a], a, D)

\* The rows are those of the logs D of chain c: all up to block f, and some of
\* those up to t, none without the ones before it.
Ahead(D, c, f, t) ==
    /\ D \subseteq LogsIn(c, 1, t) /\ LogsIn(c, 1, f) \subseteq D
    /\ \A l \in D, k \in LogsIn(c, 1, t) : IsBefore(k.at, l.at) => k \in D
    /\ RowsFit(D)


\* Both, of the first blocks.
LEMMA FirstLogs ==
    ASSUME NEW c \in Seq(Blocks), NEW t \in Nat, t <= Len(c)
    PROVE  LogsIn(c, 1, t) \subseteq Logs /\ Ordered(LogsIn(c, 1, t))
<1>1. LogsIn(c, 1, t) \subseteq Logs
  BY LogsInAre
<1>2. Ordered(LogsIn(c, 1, t))
  BY LogsInOrdered
<1> QED
  BY <1>1, <1>2

\* The logs of the first blocks of a chain are among those of a chain that goes
\* on from them, and none of the others is before one of them.
LEMMA LogsGrow ==
    ASSUME NEW c \in Seq(Blocks), NEW d \in Seq(Blocks), NEW t \in Nat, NEW u \in Nat,
           t <= u, t <= Len(c), u <= Len(d), Agree(c, d, t)
    PROVE  /\ LogsIn(c, 1, t) \subseteq LogsIn(d, 1, u)
           /\ \A l \in LogsIn(c, 1, t), k \in LogsIn(d, 1, u) :
                 IsBefore(k.at, l.at) => k \in LogsIn(c, 1, t)
<1>1. \A b \in 1..t : b \in 1..u /\ c[b] = d[b]
  BY DEF Agree
<1>2. \A b \in 1..t : \A i : LogAt(c, b, i) = LogAt(d, b, i)
  BY <1>1 DEF LogAt
<1>3. ASSUME NEW l \in LogsIn(c, 1, t) PROVE l \in LogsIn(d, 1, u)
  <2>1. PICK b \in 1..t : \E i \in DOMAIN c[b].events : l = LogAt(c, b, i)
    BY LogOf
  <2>2. PICK i \in DOMAIN c[b].events : l = LogAt(c, b, i)
    BY <2>1
  <2>3. b \in 1..u /\ i \in DOMAIN d[b].events /\ l = LogAt(d, b, i)
    BY <1>1, <1>2, <2>2
  <2> QED
    BY <2>3, LogIsIn
<1>4. ASSUME NEW l \in LogsIn(c, 1, t), NEW k \in LogsIn(d, 1, u), IsBefore(k.at, l.at)
      PROVE  k \in LogsIn(c, 1, t)
  <2>1. PICK b \in 1..t : \E i \in DOMAIN c[b].events : l = LogAt(c, b, i)
    BY LogOf
  <2>2. PICK i \in DOMAIN c[b].events : l = LogAt(c, b, i)
    BY <2>1
  <2>3. PICK e \in 1..u : \E j \in DOMAIN d[e].events : k = LogAt(d, e, j)
    BY LogOf
  <2>4. PICK j \in DOMAIN d[e].events : k = LogAt(d, e, j)
    BY <2>3
  <2>5. l.at = <<b, i>> /\ k.at = <<e, j>>
    BY <2>2, <2>4 DEF LogAt
  <2>6. e \in 1..t
    BY <1>4, <2>5 DEF IsBefore
  <2>7. j \in DOMAIN c[e].events /\ k = LogAt(c, e, j)
    BY <1>1, <1>2, <2>4, <2>6
  <2> QED
    BY <2>6, <2>7, LogIsIn
<1> QED
  BY <1>3, <1>4

\* The same, of one number of blocks.
LEMMA LogsSame ==
    ASSUME NEW c \in Seq(Blocks), NEW d \in Seq(Blocks), NEW t \in Nat,
           t <= Len(c), t <= Len(d), Agree(c, d, t)
    PROVE  LogsIn(c, 1, t) = LogsIn(d, 1, t)
<1>1. Agree(d, c, t)
  BY DEF Agree
<1>2. LogsIn(c, 1, t) \subseteq LogsIn(d, 1, t)
  BY LogsGrow
<1>3. LogsIn(d, 1, t) \subseteq LogsIn(c, 1, t)
  BY <1>1, LogsGrow
<1> QED
  BY <1>2, <1>3

\* The logs up to block t are those before block f and those from it.
LEMMA LogsSplit ==
    ASSUME NEW c \in Seq(Blocks), NEW f \in Nat \ {0}, NEW t \in Nat, f <= t, t <= Len(c)
    PROVE  LogsIn(c, 1, t) = LogsIn(c, 1, f - 1) \cup LogsIn(c, f, t)
<1>1. PICK e \in Nat : e = f - 1 /\ e <= Len(c) /\ e <= t
  OBVIOUS
<1>2. ASSUME NEW l \in LogsIn(c, 1, t) PROVE l \in LogsIn(c, 1, e) \cup LogsIn(c, f, t)
  <2>1. PICK b \in 1..t : \E i \in DOMAIN c[b].events : l = LogAt(c, b, i)
    BY LogOf
  <2>2. CASE b <= e
    <3>1. b \in 1..e
      BY <2>2
    <3>2. l \in LogsIn(c, 1, e)
      BY <1>1, <2>1, <3>1, LogIsIn
    <3> QED
      BY <3>2
  <2>3. CASE ~(b <= e)
    <3>1. b \in f..t
      BY <1>1, <2>3
    <3>2. l \in LogsIn(c, f, t)
      BY <2>1, <3>1, LogIsIn
    <3> QED
      BY <3>2
  <2> QED
    BY <2>2, <2>3
<1>3. ASSUME NEW l \in LogsIn(c, 1, e) PROVE l \in LogsIn(c, 1, t)
  <2>1. PICK b \in 1..e : \E i \in DOMAIN c[b].events : l = LogAt(c, b, i)
    BY <1>1, LogOf
  <2>2. b \in 1..t
    BY <1>1
  <2> QED
    BY <2>1, <2>2, LogIsIn
<1>4. ASSUME NEW l \in LogsIn(c, f, t) PROVE l \in LogsIn(c, 1, t)
  <2>1. PICK b \in f..t : \E i \in DOMAIN c[b].events : l = LogAt(c, b, i)
    BY LogOf
  <2>2. b \in 1..t
    OBVIOUS
  <2> QED
    BY <2>1, <2>2, LogIsIn
<1> QED
  BY <1>1, <1>2, <1>3, <1>4

\* Rows that are ahead of a block are ahead of the earlier ones, and of a chain
\* that keeps the blocks they come from.
LEMMA AheadFurther ==
    ASSUME NEW c \in Seq(Blocks), NEW d \in Seq(Blocks),
           NEW t \in Nat, NEW u \in Nat, t <= u, t <= Len(c), u <= Len(d), Agree(c, d, t),
           NEW f \in Nat, NEW g \in Nat, g <= f, f <= t,
           NEW D, Ahead(D, c, f, t)
    PROVE  D \in SUBSET LogsIn(d, 1, u) /\ Ahead(D, d, g, u)
<1>1. /\ LogsIn(c, 1, t) \subseteq LogsIn(d, 1, u)
      /\ \A l \in LogsIn(c, 1, t), k \in LogsIn(d, 1, u) :
            IsBefore(k.at, l.at) => k \in LogsIn(c, 1, t)
  BY LogsGrow
<1>2. LogsIn(d, 1, g) \subseteq LogsIn(c, 1, f)
  <2>1. Agree(d, c, g)
    BY DEF Agree
  <2> QED
    BY <2>1, LogsGrow
<1> QED
  BY <1>1, <1>2 DEF Ahead

\* Logs of which none lacks the ones before it are the first of their chain.
LEMMA FirstOnes ==
    ASSUME NEW L, Ordered(L), NEW D \in SUBSET L,
           \A l \in D, k \in L : IsBefore(k.at, l.at) => k \in D
    PROVE  /\ Cardinality(D) \in 0..Cardinality(L) /\ Cardinality(L) \in Nat
           /\ \A l \in L : l \in D <=> Cardinality(Earlier(l, L)) < Cardinality(D)
<1>1. /\ IsFiniteSet(L) /\ Cardinality(L) \in Nat
      /\ IsFiniteSet(D) /\ Cardinality(D) \in Nat /\ Cardinality(D) <= Cardinality(L)
  BY FS_CardinalityType, FS_Subset DEF Ordered
<1>2. ASSUME NEW l \in D PROVE Cardinality(Earlier(l, L)) < Cardinality(D)
  <2>1. Earlier(l, L) \in SUBSET D /\ Earlier(l, L) # D
    BY DEF Earlier, Ordered
  <2>2. /\ Cardinality(Earlier(l, L)) <= Cardinality(D)
        /\ Cardinality(Earlier(l, L)) # Cardinality(D)
    BY <1>1, <2>1, FS_Subset
  <2>3. Cardinality(Earlier(l, L)) \in Nat
    BY <1>1, EarlierCounts
  <2> QED
    BY <1>1, <2>2, <2>3
<1>3. ASSUME NEW l \in L, l \notin D
      PROVE  Cardinality(D) <= Cardinality(Earlier(l, L)) /\ Cardinality(Earlier(l, L)) \in Nat
  <2>1. D \in SUBSET Earlier(l, L)
    BY <1>3 DEF Earlier, Ordered
  <2>2. Earlier(l, L) \in SUBSET L
    BY DEF Earlier
  <2>3. IsFiniteSet(Earlier(l, L)) /\ Cardinality(Earlier(l, L)) \in Nat
    BY <1>1, <2>2, FS_Subset, FS_CardinalityType
  <2> QED
    BY <2>1, <2>3, FS_Subset
<1> QED
  BY <1>1, <1>2, <1>3

\* Rows that fit logs are the projection of them.
LEMMA ProjectionIs ==
    ASSUME NEW L, L \subseteq Logs, Ordered(L), NEW D \in SUBSET L,
           RowsFit(D), rows = [a \in Accounts |-> rows[a]],
           NEW logs \in Seq(D), \A l \in D : \E i \in 1..Len(logs) : logs[i] = l,
           \A i, j \in 1..Len(logs) : i < j => IsBefore(logs[i].at, logs[j].at)
    PROVE  rows = Projection(logs)
<1> DEFINE mine(a) == {i \in DOMAIN logs : logs[i].account = a}
           given(a) == {i \in mine(a) : logs[i].owner # NoOwner}
           row(a) == IF mine(a) = {} THEN NoRow
                     ELSE [owner |-> logs[Max(given(a))].owner,
                           active |-> Max(mine(a)) \in given(a),
                           at |-> logs[Max(mine(a))].at]
<1>1. Projection(logs) = [a \in Accounts |-> row(a)]
  BY Zenon DEF Projection
<1>2. Len(logs) \in Nat /\ DOMAIN logs = 1..Len(logs) /\ \A i \in 1..Len(logs) : logs[i] \in D
  OBVIOUS
<1>3. ASSUME NEW S \in SUBSET (1..Len(logs)), NEW i \in S,
             \A j \in S : logs[j] = logs[i] \/ IsBefore(logs[j].at, logs[i].at)
      PROVE  Max(S) = i
  <2>1. \A j \in S : ~(i < j)
    BY <1>2, <1>3 DEF Ordered
  <2>2. \A j \in S : i >= j
    BY <1>2, <2>1
  <2>3. \A m \in S : (\A j \in S : m >= j) => m = i
    BY <1>2, <2>2
  <2> QED
    BY <2>2, <2>3 DEF Max
<1>4. ASSUME NEW a \in Accounts PROVE rows[a] = row(a)
  <2> DEFINE mineIn == {l \in D : l.account = a}
             givenIn == {l \in mineIn : l.owner # NoOwner}
  <2>1. RowFits(rows[a], a, D)
    BY DEF RowsFit
  <2>2. CASE mineIn = {}
    <3>1. mine(a) = {}
      BY <1>2, <2>2
    <3> QED
      BY <2>1, <2>2, <3>1 DEF RowFits
  <2>3. CASE mineIn # {}
    <3>1. PICK last \in mineIn, deposit \in givenIn :
            /\ \A l \in mineIn : l = last \/ IsBefore(l.at, last.at)
            /\ \A l \in givenIn : l = deposit \/ IsBefore(l.at, deposit.at)
            /\ rows[a] = [owner |-> deposit.owner, active |-> last.owner # NoOwner,
                          at |-> last.at]
      BY <2>1, <2>3 DEF RowFits
    <3>2. PICK i \in 1..Len(logs) : logs[i] = last
      OBVIOUS
    <3>3. PICK j \in 1..Len(logs) : logs[j] = deposit
      OBVIOUS
    <3>4. i \in mine(a) /\ j \in given(a)
      BY <1>2, <3>2, <3>3
    <3>5. Max(mine(a)) = i
      <4>1. \A k \in mine(a) : logs[k] = logs[i] \/ IsBefore(logs[k].at, logs[i].at)
        BY <1>2, <3>1, <3>2
      <4>2. mine(a) \in SUBSET (1..Len(logs))
        BY <1>2
      <4> QED
        BY <1>3, <3>4, <4>1, <4>2
    <3>6. Max(given(a)) = j
      <4>1. \A k \in given(a) : logs[k] = logs[j] \/ IsBefore(logs[k].at, logs[j].at)
        BY <1>2, <3>1, <3>3
      <4>2. given(a) \in SUBSET (1..Len(logs))
        BY <1>2
      <4> QED
        BY <1>3, <3>4, <4>1, <4>2
    <3>7. (i \in given(a)) = (last.owner # NoOwner)
      <4>1. i \in given(a) <=> last.owner # NoOwner
        BY <3>2, <3>4
      <4> QED
        BY <4>1
    <3>8. row(a) = [owner |-> logs[Max(given(a))].owner, active |-> Max(mine(a)) \in given(a),
                    at |-> logs[Max(mine(a))].at]
      BY <3>4
    <3> HIDE DEF row, mine, given
    <3> QED
      BY <3>1, <3>2, <3>3, <3>5, <3>6, <3>7, <3>8, Zenon
  <2> QED
    BY <2>2, <2>3
<1> HIDE DEF row
<1>5. [a \in Accounts |-> rows[a]] = [a \in Accounts |-> row(a)]
  BY <1>4
<1> QED
  BY <1>1, <1>5

\* Rows that are ahead of a block of a chain are a projection of a part of its
\* history that has all the logs up to that block.
LEMMA AheadProjects ==
    ASSUME NEW c \in Seq(Blocks), NEW f \in Nat, NEW t \in Nat, f <= t, t <= Len(c),
           NEW D, Ahead(D, c, f, t), rows = [a \in Accounts |-> rows[a]]
    PROVE  /\ Cardinality(D) \in Cardinality(LogsIn(c, 1, f))..Len(History(c))
           /\ Cardinality(LogsIn(c, 1, f)) \in Nat
           /\ rows = Projection(SubSeq(History(c), 1, Cardinality(D)))
<1> DEFINE L == LogsIn(c, 1, Len(c))
           all == History(c)
           n == Cardinality(D)
<1>1. Len(c) \in Nat /\ Ordered(L) /\ L \subseteq Logs
  <2>1. PICK m \in Nat : m = Len(c)
    OBVIOUS
  <2>2. LogsIn(c, 1, m) \subseteq Logs /\ Ordered(LogsIn(c, 1, m))
    BY <2>1, FirstLogs
  <2> QED
    BY <2>1, <2>2
<1>2. D \in SUBSET L /\ Ahead(D, c, f, Len(c))
  <2>1. Agree(c, c, t)
    BY DEF Agree
  <2> QED
    BY <1>1, <2>1, AheadFurther
<1>3. \A l \in D, k \in L : IsBefore(k.at, l.at) => k \in D
  BY <1>2 DEF Ahead
<1>4. /\ n \in 0..Cardinality(L) /\ Cardinality(L) \in Nat /\ n \in Nat
      /\ \A l \in L : l \in D <=> Cardinality(Earlier(l, L)) < n
  BY <1>1, <1>2, <1>3, FirstOnes
<1>5. /\ all \in Seq(L) /\ Len(all) = Cardinality(L)
      /\ \A i \in 1..Len(all) : all[i] \in L /\ Cardinality(Earlier(all[i], L)) = i - 1
      /\ \A i, j \in 1..Len(all) : i < j => IsBefore(all[i].at, all[j].at)
      /\ \A l \in L : \E i \in 1..Len(all) : all[i] = l
  BY <1>1, SortedIs DEF History
<1>6. /\ Cardinality(LogsIn(c, 1, f)) \in Nat /\ Cardinality(LogsIn(c, 1, f)) <= n
  <2>1. LogsIn(c, 1, f) \in SUBSET D
    BY <1>2 DEF Ahead
  <2>2. IsFiniteSet(D)
    BY <1>1, <1>2, FS_Subset DEF Ordered
  <2> QED
    BY <1>4, <2>1, <2>2, FS_Subset, FS_CardinalityType
<1> HIDE DEF L, all
<1>7. PICK logs : logs = SubSeq(all, 1, n)
  OBVIOUS
<1>8. /\ Len(logs) = n /\ \A i \in 1..n : logs[i] = all[i] /\ i \in 1..Len(all)
      /\ logs = [i \in 1..n |-> all[i]]
  BY <1>4, <1>5, <1>7
<1>9. \A i \in 1..n : logs[i] \in D
  BY <1>4, <1>5, <1>8
<1>10. logs \in Seq(D)
  BY <1>4, <1>8, <1>9
<1>11. \A l \in D : \E i \in 1..Len(logs) : logs[i] = l
  <2> SUFFICES ASSUME NEW l \in D PROVE \E i \in 1..Len(logs) : logs[i] = l
    OBVIOUS
  <2>1. PICK i \in 1..Len(all) : all[i] = l
    BY <1>2, <1>5
  <2>2. i - 1 < n
    BY <1>2, <1>4, <1>5, <2>1
  <2> QED
    BY <1>4, <1>8, <2>1, <2>2
<1>12. \A i, j \in 1..Len(logs) : i < j => IsBefore(logs[i].at, logs[j].at)
  BY <1>5, <1>8
<1>13. rows = Projection(logs)
  BY <1>1, <1>2, <1>10, <1>11, <1>12, ProjectionIs DEF Ahead
<1> QED
  BY <1>4, <1>5, <1>6, <1>7, <1>13 DEF all

\* The logs of the chunk that are still to apply
PendingOK(D) ==
    /\ pending \in Seq(LogsIn(chain, 1, ToBlock))
    /\ \A i, j \in 1..Len(pending) : i < j => IsBefore(pending[i].at, pending[j].at)
    /\ \A l \in LogsIn(chain, 1, ToBlock) : l \in D \/ \E i \in 1..Len(pending) : l = pending[i]


\* An account has a row once it has a log.
LEMMA RowOrNot ==
    ASSUME NEW row, NEW a, NEW D \in SUBSET Logs, RowFits(row, a, D)
    PROVE  row = NoRow <=> \A l \in D : l.account # a
<1> DEFINE mine == {l \in D : l.account = a}
           given == {l \in mine : l.owner # NoOwner}
<1>1. CASE mine = {}
  BY <1>1 DEF RowFits
<1>2. CASE mine # {}
  <2>1. PICK last \in mine, deposit \in given :
           row = [owner |-> deposit.owner, active |-> last.owner # NoOwner, at |-> last.at]
    BY <1>2 DEF RowFits
  <2>2. deposit.owner \in Owners /\ last.at \in Nat \X Nat
    BY DEF Logs
  <2>3. (last.owner # NoOwner) \in BOOLEAN
    BY Zenon
  <2>4. PICK active \in BOOLEAN : active = (last.owner # NoOwner)
    BY <2>3, Zenon
  <2>5. row = [owner |-> deposit.owner, active |-> active, at |-> last.at]
    BY <2>1, <2>4, Zenon
  <2>6. row \in [owner : Owners, active : BOOLEAN, at : Nat \X Nat]
    BY <2>2, <2>5
  <2> QED
    BY <1>2, <2>6, RowAssumption
<1> QED
  BY <1>1, <1>2

\* A row names the last log of its account.
LEMMA RowIsLast ==
    ASSUME NEW row, NEW a, NEW D, RowFits(row, a, D), row # NoRow
    PROVE  \E last \in D : /\ row.at = last.at
                           /\ \A l \in D : l.account = a => l = last \/ IsBefore(l.at, last.at)
<1> DEFINE mine == {l \in D : l.account = a}
           given == {l \in mine : l.owner # NoOwner}
<1>1. PICK last \in mine, deposit \in given :
         /\ \A l \in mine : l = last \/ IsBefore(l.at, last.at)
         /\ row = [owner |-> deposit.owner, active |-> last.owner # NoOwner, at |-> last.at]
  BY Zenon DEF RowFits
<1>2. row.at = last.at
  BY <1>1, Zenon
<1> QED
  BY <1>1, <1>2

\* The row of an account whose log is newer than those it comes from.
LEMMA RowApplies ==
    ASSUME NEW D, NEW log, log.account \in Accounts, RowFits(rows[log.account], log.account, D),
           \A l \in D : l = log \/ IsBefore(l.at, log.at),
           log.owner # NoOwner \/ \E l \in D : l.account = log.account
    PROVE  RowFits(Applied(log), log.account, D \cup {log})
<1> DEFINE a == log.account
           mine == {l \in D : l.account = a}
           given == {l \in mine : l.owner # NoOwner}
           mine2 == {l \in D \cup {log} : l.account = a}
           given2 == {l \in mine2 : l.owner # NoOwner}
<1>1. mine2 = mine \cup {log} /\ log \in mine2 /\ mine2 # {}
      /\ \A l \in mine2 : l = log \/ IsBefore(l.at, log.at)
  OBVIOUS
<1>2. CASE log.owner # NoOwner
  <2>1. log \in given2 /\ \A l \in given2 : l = log \/ IsBefore(l.at, log.at)
    BY <1>1, <1>2
  <2>2. Applied(log) = [owner |-> log.owner, active |-> log.owner # NoOwner, at |-> log.at]
    BY <1>2, Zenon DEF Applied
  <2> QED
    BY <1>1, <2>1, <2>2, Zenon DEF RowFits
<1>3. CASE log.owner = NoOwner
  <2>1. mine # {}
    BY <1>3
  <2>2. PICK last \in mine, deposit \in given :
           /\ \A l \in given : l = deposit \/ IsBefore(l.at, deposit.at)
           /\ rows[a] = [owner |-> deposit.owner, active |-> last.owner # NoOwner, at |-> last.at]
    BY <2>1 DEF RowFits
  <2>3. given2 = given /\ deposit \in given2
    BY <1>1, <1>3
  <2>4. rows[a].owner = deposit.owner
    BY <2>2
  <2>5. Applied(log) = [owner |-> deposit.owner, active |-> log.owner # NoOwner, at |-> log.at]
    BY <1>3, <2>4, Zenon DEF Applied
  <2>6. \A l \in given2 : l = deposit \/ IsBefore(l.at, deposit.at)
    BY <2>2, <2>3
  <2> QED
    BY <1>1, <2>3, <2>5, <2>6, Zenon DEF RowFits
<1> QED
  BY <1>2, <1>3

\* An event is applied, or was before.
LEMMA AppliesNext ==
    ASSUME chain \in Seq(Blocks), NEW f \in Nat, NEW t \in Nat, t <= Len(chain),
           ToBlock \in Nat, ToBlock <= t, NEW D, Ahead(D, chain, f, t), PendingOK(D),
           rows = [a \in Accounts |-> rows[a]], ApplyEvent
    PROVE  \E E \in SUBSET LogsIn(chain, 1, t) :
              Ahead(E, chain, f, t)' /\ PendingOK(E)' /\ rows' = [a \in Accounts |-> rows'[a]]
<1> DEFINE L == LogsIn(chain, 1, t)
           R == LogsIn(chain, 1, ToBlock)
<1>1. /\ pending # <<>> /\ ~UnknownWithdrawal /\ pending' = Tail(pending)
      /\ UNCHANGED <<chain, from, safe>> /\ step = "apply"
  BY DEF ApplyEvent, chainVars
<1>2. PICK n \in Nat : n = Len(pending)
  BY DEF PendingOK
<1>3. PICK log : log = Head(pending)
  OBVIOUS
<1>4. /\ n > 0 /\ log = pending[1] /\ log \in R
      /\ \A i \in 1..n : pending[i] \in R
      /\ \A i, j \in 1..n : i < j => IsBefore(pending[i].at, pending[j].at)
      /\ \A l \in R : l \in D \/ \E i \in 1..n : l = pending[i]
  BY <1>1, <1>2, <1>3 DEF PendingOK
<1>5. /\ R \subseteq L /\ L \subseteq Logs /\ Ordered(L)
      /\ \A l \in R, k \in L : IsBefore(k.at, l.at) => k \in R
  <2>1. PICK b \in Nat : b = ToBlock
    OBVIOUS
  <2>2. Agree(chain, chain, b)
    BY DEF Agree
  <2>3. /\ LogsIn(chain, 1, b) \subseteq L
        /\ \A l \in LogsIn(chain, 1, b), k \in L : IsBefore(k.at, l.at) => k \in LogsIn(chain, 1, b)
    BY <2>1, <2>2, LogsGrow
  <2>4. L \subseteq Logs /\ Ordered(L)
    BY FirstLogs
  <2> QED
    BY <2>1, <2>3, <2>4
<1>6. /\ D \subseteq L /\ LogsIn(chain, 1, f) \subseteq D /\ RowsFit(D)
      /\ \A l \in D, k \in L : IsBefore(k.at, l.at) => k \in D
  BY DEF Ahead
<1>7. log \in L /\ log \in Logs /\ log.account \in Accounts
      /\ log.owner \in Owners \cup {NoOwner} /\ D \in SUBSET Logs
  BY <1>4, <1>5, <1>6 DEF Logs
<1>8. PendingOK(D \cup {log})'
  <2>1. pending' \in Seq(R) /\ Len(pending') = n - 1 /\ \A i \in 1..n - 1 : pending'[i] = pending[i + 1]
    BY <1>1, <1>2, <1>4 DEF PendingOK
  <2>2. ToBlock' = ToBlock
    BY <1>1 DEF ToBlock
  <2>3. \A l \in R : l \in D \cup {log} \/ \E i \in 1..n - 1 : l = pending'[i]
    <3> SUFFICES ASSUME NEW l \in R, l \notin D, l # log PROVE \E i \in 1..n - 1 : l = pending'[i]
      OBVIOUS
    <3>1. PICK i \in 1..n : l = pending[i]
      BY <1>4
    <3>2. i # 1 /\ i - 1 \in 1..n - 1 /\ pending'[i - 1] = pending[i]
      BY <1>4, <2>1, <3>1
    <3> QED
      BY <3>1, <3>2
  <2>4. \A i, j \in 1..n - 1 : i < j => IsBefore(pending'[i].at, pending'[j].at)
    <3> SUFFICES ASSUME NEW i \in 1..n - 1, NEW j \in 1..n - 1, i < j
                 PROVE  IsBefore(pending'[i].at, pending'[j].at)
      OBVIOUS
    <3>1. i + 1 \in 1..n /\ j + 1 \in 1..n /\ i + 1 < j + 1
      OBVIOUS
    <3>2. IsBefore(pending[i + 1].at, pending[j + 1].at)
      BY <1>4, <3>1
    <3> QED
      BY <2>1, <3>2
  <2> HIDE DEF R
  <2> QED
    BY <1>1, <2>1, <2>2, <2>3, <2>4 DEF PendingOK, R
<1>9. RowFits(rows[log.account], log.account, D)
  BY <1>6, <1>7 DEF RowsFit
<1> HIDE DEF L, R
<1>10. CASE Newer(log)
  <2>1. rows' = [rows EXCEPT ![log.account] = Applied(log)]
    BY <1>3, <1>10 DEF ApplyEvent
  <2>2. log \notin D
    <3> SUFFICES ASSUME log \in D PROVE FALSE
      OBVIOUS
    <3>1. rows[log.account] # NoRow
      BY <1>7, <1>9, RowOrNot
    <3>2. IsBefore(rows[log.account].at, log.at)
      BY <1>10, <3>1 DEF Newer
    <3>3. PICK last \in D : /\ rows[log.account].at = last.at
                            /\ log = last \/ IsBefore(log.at, last.at)
      BY <1>9, <3>1, RowIsLast
    <3> QED
      BY <1>5, <1>6, <1>7, <3>2, <3>3 DEF Ordered
  <2>3. \A l \in D : l = log \/ IsBefore(l.at, log.at)
    BY <1>5, <1>6, <1>7, <2>2 DEF Ordered
  <2>4. log.owner # NoOwner \/ \E l \in D : l.account = log.account
    BY <1>1, <1>3, <1>7, <1>9, RowOrNot DEF UnknownWithdrawal
  <2>5. RowFits(Applied(log), log.account, D \cup {log})
    BY <1>7, <1>9, <2>3, <2>4, RowApplies
  <2>6. rows' = [a \in Accounts |-> IF a = log.account THEN Applied(log) ELSE rows[a]]
    BY <2>1
  <2>7. ASSUME NEW a \in Accounts PROVE RowFits(rows'[a], a, D \cup {log})
    <3>1. CASE a = log.account
      BY <2>5, <2>6, <3>1
    <3>2. CASE a # log.account
      <4>1. rows'[a] = rows[a] /\ RowFits(rows[a], a, D)
        BY <1>6, <2>6, <3>2 DEF RowsFit
      <4>2. {l \in D \cup {log} : l.account = a} = {l \in D : l.account = a}
        BY <3>2
      <4> QED
        BY <4>1, <4>2 DEF RowFits
    <3> QED
      BY <3>1, <3>2
  <2>8. \A l \in D \cup {log}, k \in L : IsBefore(k.at, l.at) => k \in D \cup {log}
    <3> SUFFICES ASSUME NEW k \in L, IsBefore(k.at, log.at), k \notin D PROVE FALSE
      BY <1>6
    <3>1. k \in R
      BY <1>4, <1>5
    <3>2. PICK i \in 1..n : k = pending[i]
      BY <1>4, <3>1
    <3>3. IsBefore(log.at, k.at) \/ k = log
      BY <1>4, <3>2
    <3> QED
      BY <1>5, <1>7, <3>3 DEF Ordered
  <2>9. Ahead(D \cup {log}, chain, f, t)'
    BY <1>1, <1>6, <1>7, <2>7, <2>8 DEF Ahead, RowsFit, L
  <2> QED
    BY <1>6, <1>7, <1>8, <2>6, <2>9 DEF L
<1>11. CASE ~Newer(log)
  <2>1. rows' = rows
    BY <1>3, <1>11 DEF ApplyEvent
  <2>2. rows[log.account] # NoRow /\ ~IsBefore(rows[log.account].at, log.at)
    BY <1>11 DEF Newer
  <2>3. PICK last \in D : rows[log.account].at = last.at
    BY <1>9, <2>2, RowIsLast
  <2>4. log \in D
    BY <1>5, <1>6, <1>7, <2>2, <2>3 DEF Ordered
  <2>5. D \cup {log} = D
    BY <2>4
  <2>6. Ahead(D, chain, f, t)'
    BY <1>1, <2>1 DEF Ahead, RowsFit
  <2> QED
    BY <1>6, <1>8, <2>1, <2>5, <2>6 DEF L
<1> QED
  BY <1>10, <1>11

AheadTo(f, t) == \E D \in SUBSET LogsIn(chain, 1, t) : Ahead(D, chain, f, t)

ApplyOK == \E D \in SUBSET LogsIn(chain, 1, safe) :
              Ahead(D, chain, from - 1, safe) /\ PendingOK(D)

\* The rows are those of the history a checkpoint commits to.
Exact(c) == RowsFit(LogsIn(c.hash, 1, c.block))

\* Between the passes they may be ahead of it, while its history is canonical.
StoredOK ==
    checkpoint # NoCheckpoint =>
        \/ Exact(checkpoint)
        \/ /\ step # "idle" /\ IsPrefix(checkpoint.hash, chain)
           /\ AheadTo(checkpoint.block, SafeHead)

RowsOK ==
    /\ rows = [a \in Accounts |-> rows[a]]
    /\ step \in Steps \cup {"idle", "failed"}
    /\ step = "head" => AheadTo(from - 1, SafeHead)
    /\ step = "events" => AheadTo(from - 1, safe)
    /\ step = "apply" => ApplyOK
    /\ step = "save" => AheadTo(ToBlock, safe)
    /\ step \in {"idle", "failed", "compare", "reset"} => StoredOK

\* A chain that keeps the blocks of a hash keeps the hash as its prefix, and
\* the logs of the two are the same.
LEMMA PrefixKeeps ==
    ASSUME NEW h \in Seq(Blocks), NEW c \in Seq(Blocks), NEW d \in Seq(Blocks),
           Len(h) <= Len(c), Len(h) <= Len(d), Agree(c, d, Len(h)), IsPrefix(h, c)
    PROVE  IsPrefix(h, d) /\ LogsIn(h, 1, Len(h)) = LogsIn(c, 1, Len(h))
<1>1. \A i \in 1..Len(h) : h[i] = c[i] /\ h[i] = d[i]
  BY PrefixIs DEF Agree
<1>2. IsPrefix(h, d)
  BY <1>1, PrefixIs
<1>3. Agree(h, c, Len(h)) /\ Len(h) \in Nat
  BY <1>1 DEF Agree
<1>4. PICK n \in Nat : n = Len(h)
  BY <1>3
<1>5. LogsIn(h, 1, n) = LogsIn(c, 1, n)
  BY <1>3, <1>4, LogsSame
<1> QED
  BY <1>2, <1>4, <1>5

\* The logs of a stored checkpoint on the chain.
LEMMA StoredLogs ==
    ASSUME DirectoryIInv, checkpoint # NoCheckpoint, IsPrefix(checkpoint.hash, chain)
    PROVE  LogsIn(checkpoint.hash, 1, checkpoint.block) = LogsIn(chain, 1, checkpoint.block)
<1>1. /\ checkpoint \in Checkpoints /\ Len(checkpoint.hash) = checkpoint.block
      /\ checkpoint.block + Confirmations <= Len(chain) /\ chain \in Seq(Blocks)
  BY DEF DirectoryIInv, CheckpointOK
<1>2. PICK h \in Seq(Blocks) : h = checkpoint.hash /\ Len(h) = checkpoint.block /\ Len(h) <= Len(chain)
  BY <1>1, DirectoryAssumption DEF Checkpoints
<1>3. Agree(chain, chain, Len(h))
  BY DEF Agree
<1>4. LogsIn(h, 1, Len(h)) = LogsIn(chain, 1, Len(h))
  BY <1>1, <1>2, <1>3, PrefixKeeps
<1> QED
  BY <1>2, <1>4

\* The confirmed head is a block of the chain, the last confirmed one.
LEMMA SafeHeadIs ==
    ASSUME chain \in Seq(Blocks)
    PROVE  /\ SafeHead \in Nat /\ SafeHead <= Len(chain)
           /\ \A n \in Nat : n + Confirmations <= Len(chain) => n <= SafeHead
           /\ \A n \in 1..SafeHead : n <= Len(chain) - Confirmations
<1>1. Len(chain) \in Nat /\ Confirmations \in Nat
  BY DirectoryAssumption
<1> QED
  BY <1>1 DEF SafeHead

\* The chunk starts no later than one block above the confirmed head.
LEMMA FromIs ==
    ASSUME DirectoryIInv, step \in {"head", "events", "apply", "save"}
    PROVE  /\ from \in Nat \ {0} /\ from - 1 <= SafeHead /\ from - 1 \in Nat
           /\ checkpoint # NoCheckpoint =>
                 /\ from - 1 = checkpoint.block /\ checkpoint.block \in Nat
                 /\ IsPrefix(checkpoint.hash, chain)
<1>1. chain \in Seq(Blocks) /\ SafeHead \in Nat
  BY SafeHeadIs DEF DirectoryIInv
<1>2. CASE checkpoint = NoCheckpoint
  BY <1>1, <1>2 DEF DirectoryIInv, DirectoryPassOK
<1>3. CASE checkpoint # NoCheckpoint
  <2>1. checkpoint.block \in Nat /\ checkpoint.block <= SafeHead
    BY <1>1, <1>3, SafeHeadIs DEF DirectoryIInv, CheckpointOK, Checkpoints
  <2> QED
    BY <1>3, <2>1 DEF DirectoryIInv, DirectoryPassOK
<1> QED
  BY <1>2, <1>3

\* So does the confirmed head a pass has read.
LEMMA SafeIs ==
    ASSUME DirectoryIInv, step \in {"events", "apply", "save"}
    PROVE  /\ safe \in Nat /\ safe <= SafeHead /\ safe <= Len(chain) /\ from <= safe
           /\ ToBlock \in Nat \ {0} /\ from <= ToBlock /\ ToBlock <= safe
<1>1. chain \in Seq(Blocks) /\ SafeHead \in Nat /\ SafeHead <= Len(chain)
  BY SafeHeadIs DEF DirectoryIInv
<1>2. safe \in Nat /\ from <= safe /\ safe + Confirmations <= Len(chain) /\ from \in Nat \ {0}
  BY FromIs DEF DirectoryIInv, DirectoryPassOK
<1>3. safe <= SafeHead
  BY <1>1, <1>2, SafeHeadIs
<1> QED
  BY <1>1, <1>2, <1>3, ToBlockBetween

\* Rows that are ahead of the chain are ahead of one that keeps its confirmed
\* blocks.
LEMMA AheadKeeps ==
    ASSUME chain \in Seq(Blocks), chain' \in Seq(Blocks), Len(chain) <= Len(chain'),
           Agree(chain, chain', Len(chain) - Confirmations), rows' = rows,
           NEW f \in Nat, NEW t \in Nat, f <= t, t <= SafeHead,
           NEW g \in Nat, NEW u \in Nat, g <= f, t <= u, u <= Len(chain'),
           NEW D, Ahead(D, chain, f, t)
    PROVE  /\ D \in SUBSET LogsIn(chain', 1, u) /\ Ahead(D, chain, g, u)'
           /\ \A n \in 0..SafeHead : LogsIn(chain', 1, n) = LogsIn(chain, 1, n)
<1>1. SafeHead \in Nat /\ SafeHead <= Len(chain)
  BY SafeHeadIs
<1>2. \A n \in 0..SafeHead : Agree(chain, chain', n)
  BY <1>1, SafeHeadIs DEF Agree
<1>3. Agree(chain, chain', t) /\ t <= Len(chain)
  BY <1>1, <1>2
<1>4. D \in SUBSET LogsIn(chain', 1, u) /\ Ahead(D, chain', g, u)
  BY <1>3, AheadFurther
<1>5. ASSUME NEW n \in 0..SafeHead PROVE LogsIn(chain', 1, n) = LogsIn(chain, 1, n)
  <2>1. n \in Nat /\ n <= Len(chain) /\ n <= Len(chain') /\ Agree(chain, chain', n)
    BY <1>1, <1>2
  <2> QED
    BY <2>1, LogsSame
<1> QED
  BY <1>4, <1>5 DEF Ahead, RowsFit

\* A chain that keeps its confirmed blocks, but for one between the passes.
LEMMA ChainKeepsRows ==
    ASSUME DirectoryIInv, RowsOK, chain' \in Seq(Blocks), Len(chain) <= Len(chain'),
           step # "idle" => Agree(chain, chain', Len(chain) - Confirmations),
           UNCHANGED <<passVars, tableVars>>
    PROVE  RowsOK'
<1>1. /\ UNCHANGED <<step, from, safe, pending, checkpoint, rows>> /\ chain \in Seq(Blocks)
      /\ UNCHANGED ToBlock
  BY DEF passVars, tableVars, DirectoryIInv, ToBlock
<1>2. CASE step = "idle"
  <2>1. checkpoint # NoCheckpoint => Exact(checkpoint)
    BY <1>2 DEF RowsOK, StoredOK
  <2>2. checkpoint # NoCheckpoint => Exact(checkpoint)'
    BY <1>1, <2>1 DEF Exact, RowsFit
  <2> QED
    BY <1>1, <1>2, <2>2 DEF RowsOK, StoredOK
<1>3. CASE step # "idle"
  <2>1. /\ Agree(chain, chain', Len(chain) - Confirmations) /\ Confirmations \in Nat
        /\ SafeHead \in Nat /\ SafeHead <= Len(chain)
        /\ SafeHead' \in Nat /\ SafeHead <= SafeHead' /\ SafeHead' <= Len(chain')
    <3>1. SafeHead \in Nat /\ SafeHead <= Len(chain)
      BY <1>1, SafeHeadIs
    <3>2. SafeHead' \in Nat /\ SafeHead <= SafeHead' /\ SafeHead' <= Len(chain')
      BY <1>1, DirectoryAssumption DEF SafeHead
    <3> QED
      BY <1>3, <3>1, <3>2, DirectoryAssumption
  <2>2. ASSUME NEW f \in Nat, NEW t \in Nat, NEW u \in Nat, f <= t, t <= SafeHead,
               t <= u, u <= SafeHead', AheadTo(f, t)
        PROVE  AheadTo(f, u)'
    <3>1. PICK D : Ahead(D, chain, f, t)
      BY <2>2 DEF AheadTo
    <3>2. D \in SUBSET LogsIn(chain', 1, u) /\ Ahead(D, chain, f, u)'
      BY <1>1, <2>1, <2>2, <3>1, AheadKeeps
    <3> QED
      BY <3>2 DEF AheadTo
  <2>3. ASSUME step = "head" PROVE AheadTo(from - 1, SafeHead)'
    <3>1. PICK f \in Nat : f = from - 1 /\ f <= SafeHead
      BY <2>3, FromIs
    <3>2. AheadTo(f, SafeHead)
      BY <2>3, <3>1 DEF RowsOK
    <3>3. \A u : u = SafeHead' => AheadTo(f, u)'
      BY <2>1, <2>2, <3>1, <3>2
    <3> QED
      BY <1>1, <3>1, <3>3 DEF AheadTo
  <2>4. ASSUME step = "events" PROVE AheadTo(from - 1, safe)'
    <3>1. PICK f \in Nat, t \in Nat : f = from - 1 /\ t = safe /\ f <= t /\ t <= SafeHead
      BY <2>4, FromIs, SafeIs
    <3>2. AheadTo(f, t)
      BY <2>4, <3>1 DEF RowsOK
    <3>3. AheadTo(f, t)'
      BY <2>1, <2>2, <3>1, <3>2
    <3> QED
      BY <1>1, <3>1, <3>3 DEF AheadTo
  <2>5. ASSUME step = "save" PROVE AheadTo(ToBlock, safe)'
    <3>1. PICK f \in Nat, t \in Nat : f = ToBlock /\ t = safe /\ f <= t /\ t <= SafeHead
      BY <2>5, FromIs, SafeIs
    <3>2. AheadTo(f, t)
      BY <2>5, <3>1 DEF RowsOK
    <3>3. AheadTo(f, t)'
      BY <2>1, <2>2, <3>1, <3>2
    <3> QED
      BY <1>1, <3>1, <3>3 DEF AheadTo
  <2>6. ASSUME step = "apply" PROVE ApplyOK'
    <3>1. PICK f \in Nat, t \in Nat, b \in Nat :
             f = from - 1 /\ t = safe /\ b = ToBlock /\ f <= t /\ t <= SafeHead /\ b <= t
      BY <2>6, FromIs, SafeIs
    <3>2. PICK D : Ahead(D, chain, f, t) /\ PendingOK(D)
      BY <2>6, <3>1 DEF RowsOK, ApplyOK
    <3>3. D \in SUBSET LogsIn(chain', 1, t) /\ Ahead(D, chain, f, t)'
      BY <1>1, <2>1, <3>1, <3>2, AheadKeeps
    <3>4. LogsIn(chain', 1, b) = LogsIn(chain, 1, b)
      BY <1>1, <2>1, <3>1, <3>2, AheadKeeps
    <3>5. PendingOK(D)'
      BY <1>1, <3>1, <3>2, <3>4 DEF PendingOK
    <3> QED
      BY <1>1, <3>1, <3>3, <3>5 DEF ApplyOK
  <2>7. ASSUME StoredOK PROVE StoredOK'
    <3> SUFFICES ASSUME checkpoint # NoCheckpoint PROVE StoredOK'
      BY <1>1 DEF StoredOK
    <3>1. CASE Exact(checkpoint)
      <4>1. Exact(checkpoint)'
        BY <1>1, <3>1 DEF Exact, RowsFit
      <4> QED
        BY <4>1 DEF StoredOK
    <3>2. CASE ~Exact(checkpoint)
      <4>1. IsPrefix(checkpoint.hash, chain) /\ AheadTo(checkpoint.block, SafeHead)
        BY <2>7, <3>2 DEF StoredOK
      <4>2. PICK h \in Seq(Blocks), n \in Nat :
               h = checkpoint.hash /\ n = checkpoint.block /\ Len(h) = n
               /\ n + Confirmations <= Len(chain)
        BY DEF DirectoryIInv, CheckpointOK, Checkpoints
      <4>3. n <= SafeHead
        BY <1>1, <4>2, SafeHeadIs
      <4>4. Agree(chain, chain', n)
        BY <1>1, <2>1, <4>2 DEF Agree
      <4>5. IsPrefix(h, chain')
        BY <1>1, <2>1, <4>1, <4>2, <4>3, <4>4, PrefixKeeps
      <4>6. \A u : u = SafeHead' => AheadTo(n, u)'
        BY <2>1, <2>2, <4>1, <4>2, <4>3
      <4> QED
        BY <1>1, <1>3, <4>2, <4>5, <4>6 DEF StoredOK, AheadTo
    <3> QED
      BY <3>1, <3>2
  <2> QED
    BY <1>1, <2>3, <2>4, <2>5, <2>6, <2>7 DEF RowsOK
<1> QED
  BY <1>2, <1>3

\* The pass starts and compares: what is stored is ahead of the checkpoint, and
\* no further than the confirmed head.
LEMMA StartKeepsRows ==
    ASSUME DirectoryIInv, RowsOK, StartPass \/ Compare \/ ResetCheckpoint
    PROVE  RowsOK'
<1>1. UNCHANGED <<chain, rows>> /\ chain \in Seq(Blocks)
  BY DEF StartPass, Compare, ResetCheckpoint, chainVars, tableVars, DirectoryIInv
<1>3. CASE StartPass
  <2>1. step \in {"idle", "failed"} /\ step' \in {"reset", "compare"} /\ UNCHANGED checkpoint
    BY <1>3 DEF StartPass, tableVars
  <2>2. StoredOK
    BY <2>1 DEF RowsOK
  <2>3. StoredOK'
    BY <1>1, <2>1, <2>2 DEF StoredOK, Exact, RowsFit, AheadTo, Ahead, SafeHead
  <2> QED
    BY <1>1, <2>1, <2>3 DEF RowsOK, Steps
<1>4. CASE Compare
  <2>1. /\ UNCHANGED checkpoint /\ step = "compare"
        /\ IF Hash(checkpoint.block) = checkpoint.hash THEN step' = "head" /\ UNCHANGED from
           ELSE step' = "reset" /\ from' = 1
    BY <1>4 DEF Compare, Compared, tableVars
  <2>2. /\ checkpoint # NoCheckpoint /\ from = checkpoint.block + 1
        /\ checkpoint.block + Confirmations <= Len(chain)
    BY <2>1 DEF DirectoryIInv, DirectoryPassOK, CheckpointOK
  <2>3. PICK h \in Seq(Blocks), n \in Nat :
           h = checkpoint.hash /\ n = checkpoint.block /\ Len(h) = n
    BY <2>2 DEF DirectoryIInv, CheckpointOK, Checkpoints
  <2>4. n <= SafeHead /\ SafeHead \in Nat /\ SafeHead <= Len(chain)
    BY <1>1, <2>2, <2>3, SafeHeadIs
  <2>5. Hash(n) = h <=> IsPrefix(h, chain)
    BY <1>1, <2>3, <2>4, HashIsPrefix
  <2>6. StoredOK
    BY <2>1 DEF RowsOK
  <2>7. CASE IsPrefix(h, chain)
    <3>1. AheadTo(n, SafeHead)
      <4>1. CASE Exact(checkpoint)
        <5>1. LogsIn(h, 1, n) = LogsIn(chain, 1, n)
          BY <2>2, <2>3, <2>7, StoredLogs
        <5>2. RowsFit(LogsIn(chain, 1, n))
          BY <2>3, <4>1, <5>1 DEF Exact
        <5>3. Agree(chain, chain, n)
          BY DEF Agree
        <5>4. Ahead(LogsIn(chain, 1, n), chain, n, n)
          BY <5>2 DEF Ahead
        <5>5. /\ LogsIn(chain, 1, n) \in SUBSET LogsIn(chain, 1, SafeHead)
              /\ Ahead(LogsIn(chain, 1, n), chain, n, SafeHead)
          <6>1. PICK u \in Nat : u = SafeHead
            BY <2>4
          <6> QED
            BY <1>1, <2>4, <5>3, <5>4, <6>1, AheadFurther
        <5> QED
          BY <5>5 DEF AheadTo
      <4>2. CASE ~Exact(checkpoint)
        BY <2>2, <2>3, <2>6, <4>2 DEF StoredOK
      <4> QED
        BY <4>1, <4>2
    <3>2. step' = "head" /\ from' - 1 = n
      BY <2>1, <2>2, <2>3, <2>5, <2>7
    <3>3. AheadTo(from - 1, SafeHead)'
      BY <1>1, <3>1, <3>2 DEF AheadTo, Ahead, RowsFit, SafeHead
    <3> QED
      BY <1>1, <3>2, <3>3 DEF RowsOK, Steps
  <2>8. CASE ~IsPrefix(h, chain)
    <3>1. step' = "reset" /\ Exact(checkpoint)
      BY <2>1, <2>2, <2>3, <2>5, <2>6, <2>8 DEF StoredOK
    <3>2. StoredOK'
      BY <1>1, <2>1, <3>1 DEF StoredOK, Exact, RowsFit
    <3> QED
      BY <1>1, <3>1, <3>2 DEF RowsOK, Steps
  <2> QED
    BY <2>7, <2>8
<1>5. CASE ResetCheckpoint
  <2>1. step' = "rows"
    BY <1>5 DEF ResetCheckpoint
  <2> QED
    BY <1>1, <2>1 DEF RowsOK, Steps
<1> QED
  BY <1>3, <1>4, <1>5

\* The rows are deleted, and start again from no log.
LEMMA ResetKeepsRows ==
    ASSUME DirectoryIInv, RowsOK, (\E a \in Accounts : ResetRow(a)) \/ ResetEnds
    PROVE  RowsOK'
<1>1. UNCHANGED <<chain, from>> /\ step = "rows" /\ chain \in Seq(Blocks) /\ from = 1
  BY DEF ResetRow, ResetEnds, chainVars, passVars, DirectoryIInv, DirectoryPassOK
<1>2. ASSUME NEW a \in Accounts, ResetRow(a) PROVE RowsOK'
  <2>1. rows' = [rows EXCEPT ![a] = NoRow] /\ step' = step
    BY <1>2 DEF ResetRow, passVars
  <2>2. rows' = [b \in Accounts |-> rows'[b]]
    BY <2>1 DEF RowsOK
  <2> QED
    BY <1>1, <2>1, <2>2 DEF RowsOK, Steps
<1>3. CASE ResetEnds
  <2>1. rows' = rows /\ step' = "head" /\ \A a \in Accounts : rows[a] = NoRow
    BY <1>3 DEF ResetEnds, tableVars
  <2>2. LogsIn(chain, 1, 0) = {}
    BY DEF LogsIn
  <2>3. RowsFit({})
    BY <2>1 DEF RowsFit, RowFits
  <2>4. Ahead({}, chain, 0, SafeHead)
    BY <2>2, <2>3 DEF Ahead
  <2>5. AheadTo(0, SafeHead)'
    BY <1>1, <2>1, <2>4 DEF AheadTo, Ahead, RowsFit, SafeHead
  <2>6. from' - 1 = 0
    BY <1>1
  <2>7. AheadTo(from - 1, SafeHead)'
    BY <2>5, <2>6 DEF AheadTo
  <2> QED
    BY <1>1, <2>1, <2>7 DEF RowsOK, Steps
<1> QED
  BY <1>2, <1>3

\* Rows that are ahead of a block and not of a later one are those of the
\* history up to it.
LEMMA AheadOfAll ==
    ASSUME NEW c \in Seq(Blocks), NEW t \in Nat, NEW D, Ahead(D, c, t, t)
    PROVE  RowsFit(LogsIn(c, 1, t))
<1>1. D = LogsIn(c, 1, t)
  BY DEF Ahead
<1> QED
  BY <1>1 DEF Ahead

\* The head is read, and the events up to the end of the chunk.
LEMMA ReadsKeepRows ==
    ASSUME DirectoryIInv, RowsOK, ReadHead \/ GetEvents
    PROVE  RowsOK'
<1>1. /\ UNCHANGED <<chain, rows, checkpoint>> /\ chain \in Seq(Blocks)
      /\ SafeHead \in Nat /\ SafeHead <= Len(chain)
  BY SafeHeadIs DEF ReadHead, GetEvents, chainVars, tableVars, DirectoryIInv
<1>2. CASE ReadHead
  <2>1. step = "head" /\ AheadTo(from - 1, SafeHead)
    BY <1>2 DEF ReadHead, RowsOK
  <2>2. PICK f \in Nat : /\ f = from - 1 /\ f <= SafeHead
                         /\ checkpoint # NoCheckpoint =>
                               f = checkpoint.block /\ IsPrefix(checkpoint.hash, chain)
    BY <2>1, FromIs
  <2>3. from = f + 1
    BY <2>1, <2>2, FromIs
  <2>4. CASE SafeHead < from
    <3>1. step' = "idle"
      BY <1>2, <2>4 DEF ReadHead, PassEnds
    <3>2. SafeHead = f
      BY <1>1, <2>2, <2>3, <2>4
    <3>3. ASSUME checkpoint # NoCheckpoint PROVE Exact(checkpoint)
      <4>1. PICK D : Ahead(D, chain, f, f)
        BY <2>1, <2>2, <3>2 DEF AheadTo
      <4>2. RowsFit(LogsIn(chain, 1, f))
        BY <1>1, <4>1, AheadOfAll
      <4>3. LogsIn(checkpoint.hash, 1, checkpoint.block) = LogsIn(chain, 1, f)
        BY <2>2, <3>3, StoredLogs
      <4> QED
        BY <4>2, <4>3 DEF Exact
    <3>4. StoredOK'
      BY <1>1, <3>3 DEF StoredOK, Exact, RowsFit
    <3> QED
      BY <1>1, <3>1, <3>4 DEF RowsOK, Steps
  <2>5. CASE ~(SafeHead < from)
    <3>1. step' = "events" /\ safe' = SafeHead /\ UNCHANGED from
      BY <1>2, <2>5 DEF ReadHead
    <3>2. AheadTo(from - 1, safe)'
      BY <1>1, <2>1, <3>1 DEF AheadTo, Ahead, RowsFit
    <3> QED
      BY <1>1, <3>1, <3>2 DEF RowsOK, Steps
  <2> QED
    BY <2>4, <2>5
<1>3. CASE GetEvents
  <2>1. /\ step = "events" /\ step' = "apply" /\ UNCHANGED <<from, safe, ToBlock>>
        /\ pending' = Sorted(LogsIn(chain, from, ToBlock)) /\ AheadTo(from - 1, safe)
    BY <1>1, <1>3 DEF GetEvents, RowsOK, ToBlock
  <2>2. PICK g \in Nat \ {0}, b \in Nat, t \in Nat :
           g = from /\ b = ToBlock /\ t = safe /\ g <= b /\ b <= t /\ t <= Len(chain)
    BY <2>1, FromIs, SafeIs
  <2>3. PICK D : D \in SUBSET LogsIn(chain, 1, t) /\ Ahead(D, chain, g - 1, t)
    BY <2>1, <2>2 DEF AheadTo
  <2>4. LogsIn(chain, 1, b) = LogsIn(chain, 1, g - 1) \cup LogsIn(chain, g, b)
    BY <1>1, <2>2, LogsSplit
  <2>5. Ordered(LogsIn(chain, g, b))
    <3>1. 1 <= g /\ b <= Len(chain) /\ g \in Nat
      BY <1>1, <2>2
    <3> QED
      BY <1>1, <3>1, LogsInOrdered
  <2>6. PICK s : s = Sorted(LogsIn(chain, g, b))
    OBVIOUS
  <2>7. /\ s \in Seq(LogsIn(chain, g, b))
        /\ \A i, j \in 1..Len(s) : i < j => IsBefore(s[i].at, s[j].at)
        /\ \A l \in LogsIn(chain, g, b) : \E i \in 1..Len(s) : s[i] = l
    BY <2>5, <2>6, SortedIs
  <2>8. s \in Seq(LogsIn(chain, 1, b))
    BY <2>4, <2>7
  <2>9. PendingOK(D)'
    BY <1>1, <2>1, <2>2, <2>3, <2>4, <2>6, <2>7, <2>8 DEF PendingOK, Ahead
  <2>10. Ahead(D, chain, g - 1, t)'
    BY <1>1, <2>3 DEF Ahead, RowsFit
  <2>11. ApplyOK'
    BY <1>1, <2>1, <2>2, <2>3, <2>9, <2>10 DEF ApplyOK
  <2> QED
    BY <1>1, <2>1, <2>11 DEF RowsOK, Steps
<1> QED
  BY <1>2, <1>3

\* The events are applied one by one; then the logs up to the end of the chunk
\* are in the rows.
LEMMA ApplyKeepsRows ==
    ASSUME DirectoryIInv, RowsOK, ApplyEvent \/ ReadHash
    PROVE  RowsOK'
<1>1. /\ UNCHANGED <<chain, checkpoint, from, safe, ToBlock>> /\ chain \in Seq(Blocks)
      /\ step = "apply" /\ ApplyOK
  BY DEF ApplyEvent, ReadHash, chainVars, tableVars, DirectoryIInv, RowsOK, ToBlock
<1>2. PICK f \in Nat, b \in Nat, t \in Nat :
         f = from - 1 /\ b = ToBlock /\ t = safe /\ f <= b /\ b <= t /\ t <= Len(chain)
  BY <1>1, FromIs, SafeIs
<1>3. PICK D : /\ D \in SUBSET LogsIn(chain, 1, t) /\ Ahead(D, chain, f, t)
               /\ PendingOK(D)
  BY <1>1, <1>2 DEF ApplyOK
<1>4. CASE ApplyEvent
  <2>1. rows = [a \in Accounts |-> rows[a]]
    BY DEF RowsOK
  <2>2. PICK E \in SUBSET LogsIn(chain, 1, t) :
           Ahead(E, chain, f, t)' /\ PendingOK(E)' /\ rows' = [a \in Accounts |-> rows'[a]]
    BY <1>1, <1>2, <1>3, <1>4, <2>1, AppliesNext
  <2>3. ApplyOK'
    BY <1>1, <1>2, <2>2 DEF ApplyOK
  <2>4. step' = "apply"
    BY <1>1, <1>4 DEF ApplyEvent
  <2> QED
    BY <2>2, <2>3, <2>4 DEF RowsOK, Steps
<1>5. CASE ReadHash
  <2>1. pending = <<>> /\ rows' = rows /\ step' = "save"
    BY <1>5 DEF ReadHash, tableVars
  <2>2. LogsIn(chain, 1, b) \subseteq D
    BY <1>2, <1>3, <2>1 DEF PendingOK
  <2>3. Ahead(D, chain, b, t)
    BY <1>3, <2>2 DEF Ahead
  <2>4. AheadTo(ToBlock, safe)'
    BY <1>1, <1>2, <1>3, <2>1, <2>3 DEF AheadTo, Ahead, RowsFit
  <2> QED
    BY <2>1, <2>4 DEF RowsOK, Steps
<1> QED
  BY <1>4, <1>5

\* The checkpoint is saved once they are.
LEMMA SaveKeepsRows ==
    ASSUME DirectoryIInv, RowsOK, SaveCheckpoint
    PROVE  RowsOK'
<1>1. /\ UNCHANGED <<chain, rows>> /\ chain \in Seq(Blocks) /\ step = "save"
      /\ AheadTo(ToBlock, safe)
  BY DEF SaveCheckpoint, chainVars, DirectoryIInv, RowsOK
<1>2. PICK b \in Nat \ {0}, t \in Nat :
         b = ToBlock /\ t = safe /\ b <= t /\ t <= Len(chain)
  BY <1>1, SafeIs
<1>3. checkpoint'.block = b /\ checkpoint'.hash = Hash(b)
  BY <1>2, SavedExtends
<1>4. CASE ToBlock < safe
  <2>1. step' = "events" /\ from' = ToBlock + 1 /\ UNCHANGED safe
    BY <1>4 DEF SaveCheckpoint
  <2>2. from' - 1 = b
    BY <1>2, <2>1
  <2>3. AheadTo(from - 1, safe)'
    BY <1>1, <1>2, <2>1, <2>2 DEF AheadTo, Ahead, RowsFit
  <2> QED
    BY <1>1, <2>1, <2>3 DEF RowsOK, Steps
<1>5. CASE ~(ToBlock < safe)
  <2>1. step' = "idle" /\ t = b
    BY <1>2, <1>5 DEF SaveCheckpoint, PassEnds
  <2>2. PICK D : Ahead(D, chain, b, b)
    BY <1>1, <1>2, <2>1 DEF AheadTo
  <2>3. RowsFit(LogsIn(chain, 1, b))
    BY <1>1, <2>2, AheadOfAll
  <2>4. LogsIn(Hash(b), 1, b) = LogsIn(chain, 1, b)
    <3>1. PICK h \in Seq(Blocks) : h = Hash(b) /\ Len(h) = b /\ \A i \in 1..b : h[i] = chain[i]
      BY <1>1, <1>2, HashIs
    <3>2. Agree(h, chain, b) /\ b \in Nat
      BY <3>1 DEF Agree
    <3> QED
      BY <1>1, <1>2, <3>1, <3>2, LogsSame
  <2>5. StoredOK'
    BY <1>1, <1>3, <2>3, <2>4 DEF StoredOK, Exact, RowsFit
  <2> QED
    BY <1>1, <2>1, <2>5 DEF RowsOK, Steps
<1> QED
  BY <1>4, <1>5

\* A pass that fails leaves rows that are ahead of its checkpoint.
LEMMA FailKeepsRows ==
    ASSUME DirectoryIInv, RowsOK, PassFails
    PROVE  RowsOK'
<1>1. /\ UNCHANGED <<chain, rows, checkpoint>> /\ chain \in Seq(Blocks)
      /\ step \in Steps /\ step' = "failed" /\ SafeHead \in Nat /\ SafeHead <= Len(chain)
  BY SafeHeadIs DEF PassFails, PassEnds, chainVars, tableVars, DirectoryIInv
<1>2. ASSUME checkpoint # NoCheckpoint
      PROVE  \/ Exact(checkpoint)
             \/ IsPrefix(checkpoint.hash, chain) /\ AheadTo(checkpoint.block, SafeHead)
  <2>1. CASE step \in {"compare", "reset"}
    BY <1>2, <2>1 DEF RowsOK, StoredOK
  <2>2. CASE step = "rows"
    BY <1>2, <2>2 DEF DirectoryIInv, DirectoryPassOK
  <2>3. CASE step = "head"
    BY <1>2, <2>3, FromIs DEF RowsOK
  <2>4. CASE step \in {"events", "apply", "save"}
    <3>1. PICK n \in Nat, t \in Nat, b \in Nat :
             /\ n = checkpoint.block /\ n = from - 1 /\ t = safe /\ b = ToBlock
             /\ n <= b /\ b <= t /\ t <= SafeHead /\ IsPrefix(checkpoint.hash, chain)
      BY <1>2, <2>4, FromIs, SafeIs
    <3>2. PICK f \in {n, b} : \E D : Ahead(D, chain, f, t)
      BY <2>4, <3>1 DEF RowsOK, ApplyOK, AheadTo
    <3>3. PICK D : Ahead(D, chain, f, t)
      BY <3>2
    <3>4. Agree(chain, chain, t)
      BY DEF Agree
    <3>5. PICK u \in Nat : u = SafeHead
      BY <1>1
    <3>6. D \in SUBSET LogsIn(chain, 1, u) /\ Ahead(D, chain, n, u)
      <4>1. f \in Nat /\ n <= f /\ f <= t
        BY <3>1
      <4> QED
        BY <1>1, <3>1, <3>4, <3>5, <3>3, <4>1, AheadFurther
    <3> QED
      BY <3>1, <3>5, <3>6 DEF AheadTo
  <2> QED
    BY <1>1, <2>1, <2>2, <2>3, <2>4 DEF Steps
<1>3. StoredOK'
  BY <1>1, <1>2 DEF StoredOK, Exact, RowsFit, AheadTo, Ahead, SafeHead
<1> QED
  BY <1>1, <1>3 DEF RowsOK, Steps

LEMMA RowsInitial == DirectoryInit => RowsOK
<1> SUFFICES ASSUME DirectoryInit PROVE RowsOK
  OBVIOUS
<1>1. rows = [a \in Accounts |-> NoRow] /\ checkpoint = NoCheckpoint /\ step = "idle"
  BY DEF DirectoryInit
<1>2. rows = [a \in Accounts |-> rows[a]]
  BY <1>1
<1> QED
  BY <1>1, <1>2 DEF RowsOK, StoredOK

LEMMA RowsInductive ==
    ASSUME ~DeepAnytime, DirectoryIInv, RowsOK, [DirectoryNext]_directoryVars
    PROVE  RowsOK'
<1>1. CASE PassStep
  BY <1>1, StartKeepsRows, ResetKeepsRows, ReadsKeepRows, ApplyKeepsRows, SaveKeepsRows
     DEF PassStep
<1>2. CASE PassFails
  BY <1>2, FailKeepsRows
<1>3. CASE ReadCheckpoint \/ (\E o \in Owners : ListAccounts(o)) \/ UNCHANGED directoryVars
  <2>1. UNCHANGED <<chain, passVars, tableVars>> /\ chain \in Seq(Blocks)
    BY <1>3 DEF ReadCheckpoint, ListAccounts, directoryVars, chainVars, DirectoryIInv
  <2>2. Agree(chain, chain', Len(chain) - Confirmations) /\ Len(chain) <= Len(chain')
    BY <2>1 DEF Agree
  <2> QED
    BY <2>1, <2>2, ChainKeepsRows
<1>4. CASE Mine \/ (\E d \in 1..MaxDepth : Reorg(d))
  <2>1. UNCHANGED <<passVars, tableVars>>
    BY <1>4 DEF Mine, Reorg
  <2>2. /\ chain' \in Seq(Blocks) /\ Len(chain) <= Len(chain')
        /\ step # "idle" => Agree(chain, chain', Len(chain) - Confirmations)
    BY <1>4, MineChain, ReorgChain DEF DirectoryIInv
  <2> QED
    BY <2>1, <2>2, ChainKeepsRows
<1> QED
  BY <1>1, <1>2, <1>3, <1>4 DEF DirectoryNext

\* Unless a reorganisation deeper than the confirmations falls in a pass, the
\* rows are those of the first logs of the chain, all that the checkpoint has
\* and no more than are confirmed, at each step of a pass and after one that
\* failed (syncOnce, applyEvent, reset).
THEOREM RowsInvariant ==
    ASSUME ~DeepAnytime
    PROVE  DirectorySpec => [](DirectoryIInv /\ RowsOK)
<1>1. DirectoryInit => DirectoryIInv /\ RowsOK
  BY DirectoryInitial, RowsInitial
<1>2. DirectoryIInv /\ RowsOK /\ [DirectoryNext]_directoryVars => (DirectoryIInv /\ RowsOK)'
  BY DirectoryInductive, RowsInductive
<1> QED
  BY <1>1, <1>2, PTL DEF DirectorySpec

\* What the invariant says of a stored checkpoint, at any step.
LEMMA StoredRows ==
    ASSUME DirectoryIInv, RowsOK, checkpoint # NoCheckpoint
    PROVE  rows \in ProjectionsFrom(checkpoint.hash)
<1>1. PICK h \in Seq(Blocks), n \in Nat :
         h = checkpoint.hash /\ n = checkpoint.block /\ Len(h) = n
         /\ n + Confirmations <= Len(chain) /\ chain \in Seq(Blocks)
  BY DEF DirectoryIInv, CheckpointOK, Checkpoints
<1>2. rows = [a \in Accounts |-> rows[a]] /\ Ordered(LogsIn(h, 1, n)) /\ LogsIn(h, 1, n) \subseteq Logs
  BY <1>1, FirstLogs DEF RowsOK
<1>3. SafeHead \in Nat /\ SafeHead <= Len(chain) /\ n <= SafeHead
  BY <1>1, SafeHeadIs
<1>4. CASE Exact(checkpoint)
  <2>1. RowsFit(LogsIn(h, 1, n)) /\ History(h) = Sorted(LogsIn(h, 1, n))
    BY <1>1, <1>4 DEF Exact, History
  <2>2. PICK s : s = Sorted(LogsIn(h, 1, n))
    OBVIOUS
  <2>3. /\ s \in Seq(LogsIn(h, 1, n))
        /\ \A l \in LogsIn(h, 1, n) : \E i \in 1..Len(s) : s[i] = l
        /\ \A i, j \in 1..Len(s) : i < j => IsBefore(s[i].at, s[j].at)
    BY <1>2, <2>2, SortedIs
  <2>4. rows = Projection(s)
    BY <1>2, <2>1, <2>3, ProjectionIs
  <2> QED
    BY <1>1, <2>1, <2>2, <2>4 DEF ProjectionsFrom
<1>5. CASE ~Exact(checkpoint)
  <2>1. /\ IsPrefix(h, chain)
        /\ \E t \in Nat : n <= t /\ t <= Len(chain) /\ \E D : Ahead(D, chain, n, t)
    <3>1. CASE step \in {"idle", "failed", "compare", "reset"}
      BY <1>1, <1>3, <1>5, <3>1 DEF RowsOK, StoredOK, AheadTo
    <3>2. CASE step = "rows"
      BY <3>2 DEF DirectoryIInv, DirectoryPassOK
    <3>3. CASE step = "head"
      BY <1>1, <1>3, <3>3, FromIs DEF RowsOK, AheadTo
    <3>4. CASE step \in {"events", "apply"}
      <4>1. safe \in Nat /\ safe <= Len(chain) /\ n = from - 1 /\ n <= safe
            /\ IsPrefix(h, chain)
        BY <1>1, <3>4, FromIs, SafeIs
      <4> QED
        BY <3>4, <4>1 DEF RowsOK, ApplyOK, AheadTo
    <3>5. CASE step = "save"
      <4>1. safe \in Nat /\ safe <= Len(chain) /\ n = from - 1 /\ n <= safe
            /\ IsPrefix(h, chain) /\ ToBlock \in Nat /\ n <= ToBlock /\ ToBlock <= safe
        BY <1>1, <3>5, FromIs, SafeIs
      <4>2. PICK D : Ahead(D, chain, ToBlock, safe)
        BY <3>5 DEF RowsOK, AheadTo
      <4>3. Agree(chain, chain, safe)
        BY DEF Agree
      <4>4. Ahead(D, chain, n, safe)
        BY <1>1, <4>1, <4>2, <4>3, AheadFurther
      <4> QED
        BY <4>1, <4>4
    <3> QED
      BY <3>1, <3>2, <3>3, <3>4, <3>5 DEF RowsOK, Steps
  <2>2. PICK t \in Nat : n <= t /\ t <= Len(chain) /\ \E D : Ahead(D, chain, n, t)
    BY <2>1
  <2>3. PICK D : Ahead(D, chain, n, t)
    BY <2>2
  <2>4. /\ Cardinality(D) \in Cardinality(LogsIn(chain, 1, n))..Len(History(chain))
        /\ rows = Projection(SubSeq(History(chain), 1, Cardinality(D)))
    BY <1>1, <1>2, <2>2, <2>3, AheadProjects
  <2>5. Len(History(h)) = Cardinality(LogsIn(h, 1, n))
    BY <1>1, <1>2, SortedIs DEF History
  <2>6. LogsIn(h, 1, n) = LogsIn(chain, 1, n)
    BY <1>1, <2>1, StoredLogs
  <2> QED
    BY <1>1, <2>1, <2>4, <2>5, <2>6 DEF ProjectionsFrom
<1> QED
  BY <1>4, <1>5

\* While a checkpoint is stored the rows are the projection of the history its
\* hash commits to, or of that history and some of the logs after it
\* (syncOnce, applyEvent, reset).
THEOREM RowsAreTheProjection ==
    ASSUME ~DeepAnytime
    PROVE  DirectorySpec => []ProjectionExact
<1>1. DirectoryIInv /\ RowsOK => ProjectionExact
  BY StoredRows DEF ProjectionExact
<1> QED
  BY <1>1, RowsInvariant, PTL

\* So an answer, given while its checkpoint or one that extends it is stored,
\* lists what the owner held then or since (getAccounts, listActiveAccountIds).
THEOREM AnswersAreExact ==
    ASSUME ~DeepAnytime
    PROVE  DirectorySpec => AnswersExact
<1> DEFINE ExactAnswer ==
      Answers /\ checkpoint # NoCheckpoint /\ IsPrefix(reading.hash, checkpoint.hash) =>
         \E p \in ProjectionsFrom(checkpoint.hash) :
             answer'.accounts = {a \in Accounts : /\ p[a] # NoRow /\ p[a].active
                                                  /\ p[a].owner = answer'.owner}
<1>1. DirectoryIInv /\ RowsOK /\ [DirectoryNext]_directoryVars => [ExactAnswer]_directoryVars
  <2> SUFFICES ASSUME DirectoryIInv, RowsOK, DirectoryNext, Answers, checkpoint # NoCheckpoint
               PROVE  \E p \in ProjectionsFrom(checkpoint.hash) :
                         answer'.accounts = {a \in Accounts : /\ p[a] # NoRow /\ p[a].active
                                                              /\ p[a].owner = answer'.owner}
    OBVIOUS
  <2>1. PICK o \in Owners : ListAccounts(o)
    BY DEF DirectoryNext, PassStep, PassFails, StartPass, Compare, ResetCheckpoint, ResetRow,
           ResetEnds, ReadHead, GetEvents, ApplyEvent, ReadHash, SaveCheckpoint,
           ReadCheckpoint, Mine, Reorg, readVars, Answers
  <2>2. answer'.owner = o /\ answer'.accounts = Listed(o)
    BY <2>1 DEF ListAccounts
  <2>3. rows \in ProjectionsFrom(checkpoint.hash)
    BY StoredRows
  <2> QED
    BY <2>2, <2>3 DEF Listed
<1> QED
  BY <1>1, RowsInvariant, PTL DEF DirectorySpec, AnswersExact

=============================================================================
