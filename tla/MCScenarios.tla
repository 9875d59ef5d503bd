------------------------------ MODULE MCScenarios ------------------------------
(* The four experiments of the scenario library share nothing.  Each is      *)
(* explored from all of its initial states while the other three rest in     *)
(* one of theirs.                                                            *)
EXTENDS RecoveryTrial, DetectionTrial, ResponseTrial, SupportTrial

MCRPWatched == {RPCurrent, [RPCurrent EXCEPT !.input = "benign"]}

MCSPCurrent == [input |-> "attack", target |-> "wildcard", compensator |-> "enforce",
                sham |-> FALSE]
MCSPWatched == {MCSPCurrent, [MCSPCurrent EXCEPT !.input = "benign"],
                [MCSPCurrent EXCEPT !.target = "assigned", !.sham = TRUE]}

RCRestCell == CHOOSE c \in RCells : c.input = "attack"
RCRestFixtures == [t \in RTargets |-> CHOOSE f \in Supplied(t) : TRUE]
DTRestCell == CHOOSE c \in DCells : TRUE

RCRest == /\ rcCell = RCRestCell /\ rcFixtures = RCRestFixtures
          /\ rcThreshold = 1 /\ RCInit
DTRest == dtCell = DTRestCell /\ DTInit
RPRest == RPInit /\ rpWindow = [start |-> 0, end |-> 16 * Readings] /\ rpVerifier = "written"
SPRest == SPInit /\ spWindow = [start |-> 0, end |-> 16 * SPReadings] /\ spVerifier = "written"

\* A window that opens after the first trial is combined with changed sources only: the
\* bundle is refused with any, and every edit is explored under the window that admits it.
RPStart == RPInit /\ (rpWindow.start = 0 \/ rpVerifier = "changed")

VARIABLE part    \* the experiment that is explored

ScenarioVars == << part, rcVars, dtVars, rpVars, spVars >>

ScenarioInit ==
    \/ part = "recovery" /\ RCInit /\ DTRest /\ RPRest /\ SPRest
    \/ part = "detection" /\ RCRest /\ DTInit /\ RPRest /\ SPRest
    \/ part = "response" /\ RCRest /\ DTRest /\ RPStart /\ SPRest
    \/ part = "support" /\ RCRest /\ DTRest /\ RPRest /\ SPInit

\* An experiment that has ended stays as it is.
Ended ==
    /\ \/ rcStep \in {"failed", "assessed"} \/ dtStep = "assessed"
       \/ rpStep \in {"failed", "refused", "evaluated"}
       \/ spStep \in {"failed", "refused", "admitted"}
    /\ UNCHANGED ScenarioVars

ScenarioNext ==
    \/ part = "recovery" /\ RCNext /\ UNCHANGED << part, dtVars, rpVars, spVars >>
    \/ part = "detection" /\ DTNext /\ UNCHANGED << part, rcVars, rpVars, spVars >>
    \/ part = "response" /\ RPNext /\ UNCHANGED << part, rcVars, dtVars, spVars >>
    \/ part = "support" /\ SPNext /\ UNCHANGED << part, rcVars, dtVars, rpVars >>
    \/ Ended

ScenarioSpec == ScenarioInit /\ [][ScenarioNext]_ScenarioVars
===============================================================================
