------------------------------ MODULE JsonlLog ------------------------------
(***************************************************************************)
(* The append-only journal under JsonlRfqStore (store.ts) and              *)
(* JsonlWithdrawalOperationStore (withdrawal-store.ts).  A put opens the   *)
(* file for append, writes the record and a newline in one call, syncs and *)
(* closes it, and only then sets the in-memory index, all in one tick; the *)
(* constructor replays the file, skipping every line that does not parse.  *)
(* A record is its id and the number of the put that wrote it; deleting a  *)
(* quote writes one more record, the tombstone.                            *)
(***************************************************************************)
EXTENDS Naturals, SequencesExt

CONSTANTS
    Ids,         \* ids of the records
    Junk,        \* a line that does not parse
    NoTail,      \* the file is empty or ends in a newline
    ErrorLeaves, \* what a put that throws may leave in the file
    MaxPuts,     \* bound: puts per record
    MaxErrors,   \* bound: puts that throw
    MaxCrashes   \* bound: crashes

ASSUME JsonlAssumption ==
    /\ ErrorLeaves \subseteq {"none", "part", "line"}
    /\ MaxPuts \in Nat /\ MaxErrors \in Nat /\ MaxCrashes \in Nat
    /\ \A id \in Ids, n \in 1..MaxPuts : {Junk, NoTail} \cap {[id |-> id, put |-> n]} = {}
    /\ Junk # NoTail

VARIABLES
    lines,    \* the lines of the file that end in a newline
    tail,     \* what follows the last newline
    index,    \* index[id]: the record in memory, by its put
    up,       \* the process runs
    tried,    \* tried[id]: how many puts of id were begun
    errors, crashes

logVars == <<lines, tail, index, up, tried, errors, crashes>>

Record(id, n) == [id |-> id, put |-> n]

LogInit ==
    /\ lines = <<>> /\ tail = NoTail
    /\ index = [id \in Ids |-> 0]
    /\ up = TRUE
    /\ tried = [id \in Ids |-> 0]
    /\ errors = 0 /\ crashes = 0

\* load(): the latest line of id that parses wins, the unterminated one too.
Whole(line) == line \notin {Junk, NoTail}

\* Mutant: the first line of id wins.
ReplayFirst(id) ==
    LET file == Append(lines, tail)
        mine == {i \in DOMAIN file : Whole(file[i]) /\ file[i].id = id}
    IN  IF mine = {} THEN 0 ELSE file[Min(mine)].put

Replay(id) ==
    LET file == Append(lines, tail)
        mine == {i \in DOMAIN file : Whole(file[i]) /\ file[i].id = id}
    IN  IF mine = {} THEN 0 ELSE file[Max(mine)].put

(***************************************************************************)
(* What an append of r leaves in the file: nothing, part of the line, all  *)
(* of it but the newline, or the whole line.  Its bytes follow whatever    *)
(* the file ends in, so after an unterminated line they only make one      *)
(* longer line that does not parse.                                        *)
(***************************************************************************)
Leftover == {"none", "part", "unterminated", "line"}

Glued(r) == IF tail = NoTail THEN r ELSE Junk

Appends(r, left) ==
    /\ lines' = IF left = "line" THEN Append(lines, Glued(r)) ELSE lines
    /\ tail' = CASE left = "none" -> tail
                 [] left = "part" -> Junk
                 [] left = "unterminated" -> Glued(r)
                 [] left = "line" -> NoTail

Begin(id) == /\ up
             /\ tried[id] < MaxPuts
             /\ tried' = [tried EXCEPT ![id] = @ + 1]

\* The record is in the file and synced, then in the index.
Put(id) ==
    /\ Begin(id)
    /\ Appends(Record(id, tried'[id]), "line")
    /\ index' = [index EXCEPT ![id] = tried'[id]]
    /\ UNCHANGED <<up, errors, crashes>>

\* open, write or sync throws: the caller sees an error, the index keeps the
\* old record, whatever is in the file.
PutThrows(id) ==
    /\ Begin(id)
    /\ errors < MaxErrors
    /\ errors' = errors + 1
    /\ \E left \in ErrorLeaves : Appends(Record(id, tried'[id]), left)
    /\ UNCHANGED <<index, up, crashes>>

Stops == /\ up
         /\ crashes < MaxCrashes
         /\ crashes' = crashes + 1
         /\ up' = FALSE

Crash == Stops /\ UNCHANGED <<lines, tail, index, tried, errors>>

\* A crash in the middle of an append.
CrashInPut(id) ==
    /\ Stops /\ Begin(id)
    /\ \E left \in Leftover : Appends(Record(id, tried'[id]), left)
    /\ UNCHANGED <<index, errors>>

Restart ==
    /\ ~up
    /\ up' = TRUE
    /\ index' = [id \in Ids |-> Replay(id)]
    /\ UNCHANGED <<lines, tail, tried, errors, crashes>>

LogNext ==
    \/ \E id \in Ids : Put(id) \/ PutThrows(id) \/ CrashInPut(id)
    \/ Crash \/ Restart

LogSpec == LogInit /\ [][LogNext]_logVars

-----------------------------------------------------------------------------
\* What the engines can see of the store: the index, and while the process
\* is down, what the next load() will find.
Visible(id) == IF up THEN index[id] ELSE Replay(id)

Durable == INSTANCE DurableMap WITH stored <- [id \in Ids |-> Visible(id)]

\* The file does not end in a newline, or an append followed such an end.
Torn == tail # NoTail \/ Junk \in ToSet(lines)

\* Through crashes that tear the final line and puts that throw, the records
\* the engines see only advance (store.ts load: "tolerate a torn final line
\* from a crash mid-append").  The exception is what AcknowledgedSurvives is
\* about: a crash of a process that has appended to a file already torn.
ImplementsDurableMap ==
    /\ Durable!MapInit
    /\ [][Durable!MapNext \/ (Torn /\ up /\ ~up')]_(Durable!mapVars)

\* "Operation claims and tx hashes must survive a process crash before the
\* executor is allowed to continue broadcasting" (withdrawal-store.ts): what
\* a put has put in the index is what a crash now would leave in the file.
AcknowledgedSurvives == up => \A id \in Ids : Replay(id) >= index[id]
=============================================================================
