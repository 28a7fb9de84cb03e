---------------------------- MODULE AccountLock ----------------------------
(***************************************************************************)
(* The process-local mutex of account-lock.ts.                             *)
(*                                                                         *)
(* A call asks for a set of keys.  runKeys sorts them and nests one runOne *)
(* per key.  runOne reads the key's tail promise, chains its own run after *)
(* it, makes that run the new tail, and removes the tail again when the    *)
(* run has settled and nobody chained after it.  A run is identified here  *)
(* by its job and its key.  Keys are numbered by the order in which they   *)
(* are taken: rfq resource keys below account keys.  A call that throws    *)
(* before it asks for its inner keys is a call that needs fewer of them.   *)
(***************************************************************************)
EXTENDS Integers, FiniteSets

CONSTANTS Jobs,   \* the calls of run / runResource in flight
          Keys,   \* lock keys, numbered in lock order
          Need,   \* Need[j]: the keys job j asks for
          NoJob   \* "no promise in the map", and "no previous run"

ASSUME LockAssumption ==
    /\ Keys \subseteq Nat
    /\ Need \in [Jobs -> SUBSET Keys]
    /\ NoJob \notin Jobs

VARIABLES
    tails,    \* tails[k]: the job whose run is the tail promise of key k
    prev,     \* prev[j][k]: the run that job j's run on k is chained after
    st,       \* st[j][k]: how far runOne of job j on key k has come
    ticket,   \* history: the position of j's run among the requests for k
    issued    \* history: the number of requests made for k so far

lockVars == <<tails, prev, st, ticket, issued>>

RunState == {"none",      \* runOne not called yet
             "waiting",   \* chained after prev, which has not settled
             "held",      \* work is running under the key
             "settled",   \* the run's promise has settled
             "cleaned"}   \* the finally block has run; runOne returned

LockTypeOK ==
    /\ tails \in [Keys -> Jobs \cup {NoJob}]
    /\ prev \in [Jobs -> [Keys -> Jobs \cup {NoJob}]]
    /\ st \in [Jobs -> [Keys -> RunState]]
    /\ ticket \in [Jobs -> [Keys -> Nat]]
    /\ issued \in [Keys -> Nat]

LockInit ==
    /\ tails = [k \in Keys |-> NoJob]
    /\ prev = [j \in Jobs |-> [k \in Keys |-> NoJob]]
    /\ st = [j \in Jobs |-> [k \in Keys |-> "none"]]
    /\ ticket = [j \in Jobs |-> [k \in Keys |-> 0]]
    /\ issued = [k \in Keys |-> 0]

Before(j, k) == {i \in Need[j] : i < k}
After(j, k)  == {i \in Need[j] : i > k}

(***************************************************************************)
(* runKeys nests the keys in sorted order: runOne for k starts as the work *)
(* of the run on the key just before it.                                   *)
(***************************************************************************)
Innermost(j, k) == \A i \in Before(j, k) : st[j][i] = "held"

Settled(j, k) == st[j][k] \in {"settled", "cleaned"}

\* Mutant: the run becomes the tail before it reads the tail.
RequestAfterItself(j, k) ==
    /\ k \in Need[j]
    /\ st[j][k] = "none"
    /\ Innermost(j, k)
    /\ prev' = [prev EXCEPT ![j][k] = j]
    /\ tails' = [tails EXCEPT ![k] = j]
    /\ st' = [st EXCEPT ![j][k] = "waiting"]
    /\ issued' = [issued EXCEPT ![k] = @ + 1]
    /\ ticket' = [ticket EXCEPT ![j][k] = issued[k] + 1]

\* Mutant: the run never becomes the tail.
RequestWithoutTail(j, k) ==
    /\ k \in Need[j]
    /\ st[j][k] = "none"
    /\ Innermost(j, k)
    /\ prev' = [prev EXCEPT ![j][k] = tails[k]]
    /\ st' = [st EXCEPT ![j][k] = "waiting"]
    /\ issued' = [issued EXCEPT ![k] = @ + 1]
    /\ ticket' = [ticket EXCEPT ![j][k] = issued[k] + 1]
    /\ UNCHANGED tails

\* Reads the tail, chains after it and becomes the tail, all in one tick.
Request(j, k) ==
    /\ k \in Need[j]
    /\ st[j][k] = "none"
    /\ Innermost(j, k)
    /\ prev' = [prev EXCEPT ![j][k] = tails[k]]
    /\ tails' = [tails EXCEPT ![k] = j]
    /\ st' = [st EXCEPT ![j][k] = "waiting"]
    /\ issued' = [issued EXCEPT ![k] = @ + 1]
    /\ ticket' = [ticket EXCEPT ![j][k] = issued[k] + 1]

\* Mutant: a waiting run starts as soon as the key is free.
PreviousBarged(j, k) == \A i \in Jobs : st[i][k] # "held"

\* The promise this run is chained after, or an already resolved one.
PreviousSettled(j, k) ==
    prev[j][k] # NoJob => Settled(prev[j][k], k)

\* previous.catch(() => undefined).then(work): work starts whether the
\* previous run resolved or rejected.
Acquire(j, k) ==
    /\ st[j][k] = "waiting"
    /\ PreviousSettled(j, k)
    /\ st' = [st EXCEPT ![j][k] = "held"]
    /\ UNCHANGED <<tails, prev, ticket, issued>>

\* The work of the run on k ends, with a value or an error: for the last key
\* that is the caller's work, for any other the return of the inner runOne.
Settle(j, k) ==
    /\ st[j][k] = "held"
    /\ \A i \in After(j, k) : st[j][i] = "cleaned"
    /\ st' = [st EXCEPT ![j][k] = "settled"]
    /\ UNCHANGED <<tails, prev, ticket, issued>>

\* Mutant: the key leaves the map whatever its tail is.
TailAfterAny(j, k) == NoJob

\* finally: the key leaves the map unless a later run became the tail.
TailAfter(j, k) == IF tails[k] = j THEN NoJob ELSE tails[k]

Cleanup(j, k) ==
    /\ st[j][k] = "settled"
    /\ tails' = [tails EXCEPT ![k] = TailAfter(j, k)]
    /\ st' = [st EXCEPT ![j][k] = "cleaned"]
    /\ UNCHANGED <<prev, ticket, issued>>

Finished(j) == \A k \in Need[j] : st[j][k] = "cleaned"

AllFinished == (\A j \in Jobs : Finished(j)) /\ UNCHANGED lockVars

LockStep(j, k) == Request(j, k) \/ Acquire(j, k) \/ Settle(j, k) \/ Cleanup(j, k)

LockNext == \/ \E j \in Jobs, k \in Keys : LockStep(j, k)
            \/ AllFinished

LockSpec == LockInit /\ [][LockNext]_lockVars

-----------------------------------------------------------------------------
(* What the lock guarantees. *)

Requested(j, k) == st[j][k] # "none"

\* No two calls run under the same key at once, whatever order the tail map
\* is written, read and cleaned up in (account-lock.ts: the identity test in
\* the finally block decides it).
MutualExclusion ==
    \A k \in Keys, i, j \in Jobs :
        (st[i][k] = "held" /\ st[j][k] = "held") => i = j

\* A key is served in request order: a run that has it, or had it, leaves no
\* earlier request for that key unserved.
FirstComeFirstServed ==
    \A k \in Keys, i, j \in Jobs :
        (/\ Requested(i, k)
         /\ ticket[i][k] < ticket[j][k]
         /\ st[j][k] \in {"held", "settled", "cleaned"}) => Settled(i, k)

\* The lock implements one abstract mutex per key.
HolderOf(k) == IF \E j \in Jobs : st[j][k] = "held"
               THEN CHOOSE j \in Jobs : st[j][k] = "held" ELSE NoJob

Abstract == INSTANCE KeyedMutex WITH holder <- [k \in Keys |-> HolderOf(k)]

ImplementsKeyedMutex == Abstract!MutexSpec
=============================================================================
