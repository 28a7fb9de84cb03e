----------------------------- MODULE DurableMap -----------------------------
(***************************************************************************)
(* What the durable stores promise the engines: a map whose records only   *)
(* advance.  A put that returned is there for good; one that threw, or was *)
(* cut off by a crash, may turn out to have been stored.                   *)
(***************************************************************************)
EXTENDS Naturals

CONSTANTS Ids

VARIABLES stored,  \* stored[id]: the version of the record; 0 before the first
          tried    \* tried[id]: how many puts of the record were begun

mapVars == <<stored, tried>>

MapInit == /\ stored = [id \in Ids |-> 0]
           /\ tried = [id \in Ids |-> 0]

Put(id) == /\ tried' = [tried EXCEPT ![id] = @ + 1]
           /\ \/ stored' = [stored EXCEPT ![id] = tried'[id]]
              \/ UNCHANGED stored

\* A crash, in the middle of at most one put: the records found afterwards
\* are those that were there, or later ones some put has tried to store.
Crash == /\ \/ UNCHANGED tried
            \/ \E id \in Ids : tried' = [tried EXCEPT ![id] = @ + 1]
         /\ stored' \in [Ids -> Nat]
         /\ \A id \in Ids : stored'[id] \in stored[id] .. tried'[id]

MapNext == Crash \/ \E id \in Ids : Put(id)

MapSpec == MapInit /\ [][MapNext]_mapVars
=============================================================================
