------------------------------ MODULE MCOracle ------------------------------
(***************************************************************************)
(* The oracle side, checked as four systems that do not act on each other: *)
(* the daemon's loops over the expiry index, the settlement integral, the  *)
(* anchored settlement feed and the multiplier registry with its keeper.   *)
(* A behaviour is one of them moving while the others stand still.         *)
(***************************************************************************)
EXTENDS OracleDaemon, SettlementTwap, AnchoredSettlementFeed, MultiplierRegistry

CONSTANT Subjects   \* the systems this run looks at

VARIABLE subject    \* the one that moves

oracleVars == <<subject, daemonVars, twapVars, feedVars, multiplierVars>>

\* Both accounts' series expire together.
MCExpiry == [a \in Accounts |-> 1]

\* Two loops and one trader, or the settlement worker alone and two.
MCScenarios == {[loops |-> Callers, traders |-> {1}],
                [loops |-> {"settlement"}, traders |-> {1, 2}]}

OracleInit ==
    /\ subject \in Subjects
    /\ DaemonInit /\ TwapInit /\ FeedInit /\ MultiplierInit
    /\ subject # "daemon" => scenario = CHOOSE s \in Scenarios : TRUE
    /\ subject # "registry" => token.before = CHOOSE m \in Multipliers : TRUE

DaemonAlone == subject = "daemon" /\ UNCHANGED <<subject, twapVars, feedVars, multiplierVars>>
TwapAlone == subject = "twap" /\ UNCHANGED <<subject, daemonVars, feedVars, multiplierVars>>
FeedAlone == subject = "feed" /\ UNCHANGED <<subject, daemonVars, twapVars, multiplierVars>>
RegistryAlone == subject = "registry" /\ UNCHANGED <<subject, daemonVars, twapVars, feedVars>>

OracleNext ==
    \/ DaemonAlone /\ DaemonNext
    \/ TwapAlone /\ TwapNext
    \/ FeedAlone /\ FeedNext
    \/ RegistryAlone /\ MultiplierNext

\* The fairness of the specifications.
OracleFairness ==
    /\ WF_oracleVars(DaemonAlone /\ FeedStep) /\ WF_oracleVars(DaemonAlone /\ WorkStep)
    /\ WF_oracleVars(DaemonAlone /\ (SyncStep \/ SyncThrows) /\ UNCHANGED loopVars)
    /\ WF_oracleVars(DaemonAlone /\ EmptyBlock /\ UNCHANGED loopVars)
    /\ \A e \in Expiries : WF_oracleVars(DaemonAlone /\ CooldownEnds(e))
    /\ \A e \in FeedExpiries : WF_oracleVars(FeedAlone /\ FixSettlementPrice(e, FALSE))

OracleSpec == OracleInit /\ [][OracleNext]_oracleVars /\ OracleFairness

\* Every part of the oracle side has its type.
OracleTypeOK == DaemonTypeOK /\ TwapTypeOK /\ FeedTypeOK /\ RegistryTypeOK
=============================================================================
