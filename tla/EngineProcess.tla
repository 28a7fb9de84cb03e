--------------------------- MODULE EngineProcess ---------------------------
(***************************************************************************)
(* What index.ts builds once and gives to both the RFQ engine and the      *)
(* withdrawal engine: the executor (TxSubmitter), the AccountLock, the     *)
(* subaccounts on the chain, and the life of the process itself.           *)
(* AccountLock.tla shows the lock to be one mutex per key; here a call     *)
(* takes its account keys in one step, from the moment it has them all.    *)
(***************************************************************************)
EXTENDS TxSubmitter, FiniteSets

CONSTANTS Accounts,    \* subaccount ids
          Nobody,      \* the holder of a free account key
          InitialCash, \* InitialCash[a]: cash of a before anything runs
          MaxCrashes   \* bound: how often the process stops

ASSUME ProcessAssumption ==
    /\ Nobody \notin Ops
    /\ InitialCash \in [Accounts -> Int]
    /\ MaxCrashes \in Nat

VARIABLES lockedBy,   \* lockedBy[a]: the operation running under account a
          cash,       \* cash[a]: the on-chain cash of a
          phase,      \* down, inside a recover(), or serving
          todo,       \* the records the recover() calls have not reached
          crashes     \* how often the process has stopped

fundsVars == <<lockedBy, cash>>
processVars == <<phase, todo, crashes>>
sharedVars == <<submitterVars, fundsVars, processVars>>

ProcessTypeOK ==
    /\ SubmitterTypeOK
    /\ lockedBy \in [Accounts -> Ops \cup {Nobody}]
    /\ cash \in [Accounts -> Int]
    /\ phase \in {"down", "recovering", "serving"}
    /\ todo \subseteq Ops
    /\ crashes \in 0..MaxCrashes

ProcessInit ==
    /\ SubmitterInit
    /\ lockedBy = [a \in Accounts |-> Nobody]
    /\ cash = InitialCash
    /\ phase = "serving"
    /\ todo = {}
    /\ crashes = 0

-----------------------------------------------------------------------------
(* Account keys.                                                           *)
AllFree(A) == \A a \in A : lockedBy[a] = Nobody

LockAccounts(A, o) ==
    lockedBy' = [a \in Accounts |-> IF a \in A THEN o ELSE lockedBy[a]]

UnlockAccounts(o) ==
    lockedBy' = [a \in Accounts |-> IF lockedBy[a] = o THEN Nobody ELSE lockedBy[a]]

Debit(a, amount) == cash' = [cash EXCEPT ![a] = @ - amount]

-----------------------------------------------------------------------------
(* The process.                                                            *)
Serving == phase = "serving"
Up == phase # "down"

\* Locks, calls and latches live in memory only.
ProcessStops ==
    /\ Up
    /\ crashes < MaxCrashes
    /\ crashes' = crashes + 1
    /\ phase' = "down"
    /\ todo' = {}
    /\ SubmitterCrash
    /\ lockedBy' = [a \in Accounts |-> Nobody]
    /\ UNCHANGED cash

\* The journals are replayed, then recover() goes over their records.
ProcessStarts(records) ==
    /\ phase = "down"
    /\ phase' = "recovering"
    /\ todo' = records
    /\ UNCHANGED <<crashes, submitterVars, fundsVars>>

TakeTurn(o) ==
    /\ phase = "recovering"
    /\ o \in todo
    /\ todo' = todo \ {o}
    /\ UNCHANGED <<phase, crashes>>

\* Mutant: the server starts while recover() still runs.
StartServingEarly ==
    /\ phase = "recovering"
    /\ phase' = "serving"
    /\ UNCHANGED <<todo, crashes, submitterVars, fundsVars>>

\* recover() has returned; the server starts.
StartServing ==
    /\ phase = "recovering"
    /\ todo = {}
    /\ phase' = "serving"
    /\ UNCHANGED <<todo, crashes, submitterVars, fundsVars>>
=============================================================================
