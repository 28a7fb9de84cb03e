------------------------- MODULE MultiplierRegistry -------------------------
(***************************************************************************)
(* The history of a scaled token's multiplier: finalised checkpoints and   *)
(* one pending checkpoint that follows the issuer's schedule               *)
(* (MultiplierCheckpointRegistry.sol), written by a keeper that polls      *)
(* (services/oracle-feeds/src/multiplier.ts) and by anybody else.          *)
(*                                                                         *)
(* The token is external: it announces a multiplier and when it takes      *)
(* effect, may replace the announcement, and clear it afterwards.  A       *)
(* contract call is one transaction; every read of the keeper is a step.   *)
(***************************************************************************)
EXTENDS Integers, SequencesExt

CONSTANTS
    Multipliers,       \* multipliers of the token
    None,              \* no announcement, no pending checkpoint, or a revert
    MaxTokenTime       \* bound: the chain's clock

ASSUME MultiplierAssumption ==
    /\ None \notin Multipliers /\ Multipliers # {}
    /\ None \notin [multiplier : Multipliers, at : Nat]
    /\ None \notin Seq([at : Nat, multiplier : Multipliers])
    /\ MaxTokenTime \in Nat

VARIABLES
    tokenTime,         \* block.timestamp
    token,             \* the token: multiplier before the announcement, announcement
    applied,           \* history: the token's multiplier at each time
    checkpoints,
    pendingCheckpoint,
    keeper,            \* the pass in progress: its step and what it has read
    heard              \* whether a whole pass has followed the last change

tokenVars == <<tokenTime, token, applied>>
registryVars == <<checkpoints, pendingCheckpoint>>
multiplierVars == <<tokenVars, registryVars, keeper, heard>>

-----------------------------------------------------------------------------
Announced == token.next # None

UiMultiplierAt(time) ==
    IF Announced /\ time >= token.next.at THEN token.next.multiplier ELSE token.before

UiMultiplier == UiMultiplierAt(tokenTime)

\* Announcements are made a pass of the keeper ahead, and a pass is over
\* before the clock moves on: an hour's notice against a minute's polling.
Hears == heard = "yes" /\ heard' = "no"

Announce(m, at) ==
    /\ Hears
    /\ at > tokenTime
    /\ token' = [before |-> UiMultiplier, next |-> [multiplier |-> m, at |-> at]]
    /\ UNCHANGED <<tokenTime, applied, registryVars, keeper>>

\* The issuer clears an announcement that has taken effect.  One it withdraws
\* before, leaving a pending checkpoint behind, is out of this model.
ClearAnnouncement ==
    /\ Announced /\ tokenTime >= token.next.at
    /\ Hears
    /\ token' = [before |-> UiMultiplier, next |-> None]
    /\ UNCHANGED <<tokenTime, applied, registryVars, keeper>>

TokenTick ==
    /\ tokenTime < MaxTokenTime
    /\ Hears
    /\ tokenTime' = tokenTime + 1
    /\ applied' = Append(applied, UiMultiplierAt(tokenTime + 1))
    /\ UNCHANGED <<token, registryVars, keeper>>

-----------------------------------------------------------------------------
StillAnnounced(p) == token.next = p

AlreadyEffective(p) == tokenTime >= p.at /\ UiMultiplier = p.multiplier

Newest(points, time) ==
    points[CHOOSE i \in DOMAIN points :
              /\ points[i].at <= time
              /\ \A j \in DOMAIN points : points[j].at <= time => j <= i].multiplier

\* multiplierAt over a history; None is a revert.
ReadAt(points, p, time) ==
    IF p # None /\ p.at <= time
    THEN IF StillAnnounced(p) \/ AlreadyEffective(p) THEN p.multiplier ELSE None
    ELSE Newest(points, time)

MultiplierAt(time) == ReadAt(checkpoints, pendingCheckpoint, time)

\* _recordFinal: the history, or None for a revert.
RecordFinal(points, time, m) ==
    CASE time < Last(points).at -> None
      [] time = Last(points).at ->
            IF Last(points).multiplier = m THEN points ELSE None
      [] time > Last(points).at ->
            IF Last(points).multiplier = m THEN points
            ELSE Append(points, [at |-> time, multiplier |-> m])

\* Mutant: a pending checkpoint that took effect is dropped with the others.
ReconciledDropped ==
    [points  |-> checkpoints,
     pending |-> IF pendingCheckpoint # None /\ StillAnnounced(pendingCheckpoint)
                 THEN pendingCheckpoint ELSE None]

\* _reconcilePending: a pending checkpoint that took effect is finalised, one
\* the issuer replaced is dropped.
Reconciled ==
    LET p == pendingCheckpoint
    IN  CASE p = None -> [points |-> checkpoints, pending |-> None]
          [] p # None /\ AlreadyEffective(p) ->
                [points |-> RecordFinal(checkpoints, p.at, p.multiplier), pending |-> None]
          [] p # None /\ ~AlreadyEffective(p) ->
                [points |-> checkpoints, pending |-> IF StillAnnounced(p) THEN p ELSE None]

\* checkpointCurrent leaves the registry so; points None is a revert.
CurrentCheckpoint ==
    LET r == Reconciled
        effective == IF Announced /\ tokenTime >= token.next.at THEN token.next.at ELSE tokenTime
    IN  IF r.points = None \/ ReadAt(r.points, r.pending, tokenTime) = None
            THEN [r EXCEPT !.points = None]
        ELSE IF ReadAt(r.points, r.pending, tokenTime) = UiMultiplier THEN r
        ELSE [r EXCEPT !.points = RecordFinal(r.points, effective, UiMultiplier)]

\* checkpointPending likewise.
ScheduledCheckpoint ==
    LET r == Reconciled
    IN  IF Announced /\ token.next.at > tokenTime
        THEN [r EXCEPT !.pending = token.next]
        ELSE [r EXCEPT !.points = None]

Executes(outcome) ==
    /\ outcome.points # None
    /\ checkpoints' = outcome.points
    /\ pendingCheckpoint' = outcome.pending

\* Anybody may write to the registry.
CheckpointCurrent ==
    Executes(CurrentCheckpoint) /\ UNCHANGED <<tokenVars, keeper, heard>>

CheckpointPending ==
    Executes(ScheduledCheckpoint) /\ UNCHANGED <<tokenVars, keeper, heard>>

-----------------------------------------------------------------------------
Idle == [at |-> "idle"]

PassStarts ==
    /\ keeper = Idle
    /\ keeper' = [at |-> "now", current |-> UiMultiplier]
    /\ heard' = IF heard = "no" THEN "listening" ELSE heard
    /\ UNCHANGED <<tokenVars, registryVars>>

PassEnds == keeper' = Idle /\ heard' = IF heard = "listening" THEN "yes" ELSE heard

ReadsNow ==
    /\ keeper.at = "now"
    /\ keeper' = [at |-> "compare", current |-> keeper.current, now |-> tokenTime]
    /\ UNCHANGED <<tokenVars, registryVars, heard>>

\* The registry's multiplier now; the read throws where the registry reverts.
Compares ==
    /\ keeper.at = "compare"
    /\ CASE MultiplierAt(keeper.now) = None -> PassEnds
         [] MultiplierAt(keeper.now) = keeper.current ->
               keeper' = [keeper EXCEPT !.at = "pending"] /\ UNCHANGED heard
         [] OTHER -> keeper' = [keeper EXCEPT !.at = "send current"] /\ UNCHANGED heard
    /\ UNCHANGED <<tokenVars, registryVars>>

\* A transaction that reverts throws when its gas is estimated, and goes
\* unnoticed when it has been sent.
Sends(outcome, next) ==
    \/ /\ Executes(outcome) /\ next
    \/ /\ outcome.points = None /\ UNCHANGED registryVars
       /\ next \/ PassEnds

SendsCurrent ==
    /\ keeper.at = "send current"
    /\ Sends(CurrentCheckpoint, keeper' = [keeper EXCEPT !.at = "pending"] /\ UNCHANGED heard)
    /\ UNCHANGED tokenVars

\* The announcement, still ahead of the clock read at the start and in no checkpoint.
ReadsPending ==
    /\ keeper.at = "pending"
    /\ LET known == ToSet(checkpoints) \cup {pendingCheckpoint}
       IN  IF Announced /\ token.next.at > keeper.now /\ token.next \notin known
           THEN keeper' = [keeper EXCEPT !.at = "send pending"] /\ UNCHANGED heard
           ELSE PassEnds
    /\ UNCHANGED <<tokenVars, registryVars>>

SendsPending ==
    /\ keeper.at = "send pending"
    /\ Sends(ScheduledCheckpoint, PassEnds)
    /\ UNCHANGED tokenVars

KeeperStep == PassStarts \/ ReadsNow \/ Compares \/ SendsCurrent \/ ReadsPending \/ SendsPending

-----------------------------------------------------------------------------
MultiplierInit ==
    /\ tokenTime = 1
    /\ \E m \in Multipliers :
          /\ token = [before |-> m, next |-> None]
          /\ applied = <<m>>
          /\ checkpoints = <<[at |-> 0, multiplier |-> m]>>
    /\ pendingCheckpoint = None
    /\ keeper = Idle
    /\ heard = "no"

MultiplierNext ==
    \/ \E m \in Multipliers, at \in 1..MaxTokenTime + 1 : Announce(m, at)
    \/ ClearAnnouncement \/ TokenTick
    \/ CheckpointCurrent \/ CheckpointPending
    \/ KeeperStep

MultiplierSpec == MultiplierInit /\ [][MultiplierNext]_multiplierVars

-----------------------------------------------------------------------------
\* The registry's history is one of multipliers at growing times.
RegistryTypeOK ==
    /\ checkpoints \in Seq([at : 0..MaxTokenTime, multiplier : Multipliers])
    /\ \A i \in 1..Len(checkpoints) - 1 : checkpoints[i].at < checkpoints[i + 1].at
    /\ pendingCheckpoint \in
          {None} \cup [at : 1..MaxTokenTime + 1, multiplier : Multipliers]
    /\ heard \in {"yes", "no", "listening"}

\* What a settlement is scaled by is the multiplier the token had at the
\* expiry: however passes of the keeper, calls of others and the issuer's
\* announcements, replaced ones included, interleave, what the history answers
\* for any time so far is what the token applied, and it does answer
\* (multiplierAt, _reconcilePending, _recordFinal).
HistoryExact ==
    \A time \in 1..tokenTime : MultiplierAt(time) = applied[time]
=============================================================================
