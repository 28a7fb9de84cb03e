----------------------------- MODULE KeyedMutex -----------------------------
(***************************************************************************)
(* What AccountLock promises its callers: a set of independent mutexes,    *)
(* one per key.  A job holds a key or it does not; a key has at most one   *)
(* holder, and it passes from one holder to the next through being free.   *)
(***************************************************************************)
CONSTANTS Jobs,     \* the calls of run / runResource
          Keys,     \* lock keys
          NoJob     \* the holder of a free key

VARIABLE holder     \* holder[k] is the job that runs under key k

MutexInit == holder = [k \in Keys |-> NoJob]

Take(j, k) == /\ holder[k] = NoJob
              /\ holder' = [holder EXCEPT ![k] = j]

Give(j, k) == /\ holder[k] = j
              /\ holder' = [holder EXCEPT ![k] = NoJob]

MutexNext == \E j \in Jobs, k \in Keys : Take(j, k) \/ Give(j, k)

MutexSpec == MutexInit /\ [][MutexNext]_holder
=============================================================================
