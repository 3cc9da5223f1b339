----------------------------- MODULE MCSequential -----------------------------
(***************************************************************************)
(* The components that one thread calls, for TLC: the audio managers, the  *)
(* model backends and the report of the recognition tests.  None looks at  *)
(* another, so that each is explored by itself, whatever order of calls    *)
(* its client makes, while the others stay as they were created.           *)
(***************************************************************************)
EXTENDS AudioManager2, StagedManagers, ModelBackends, AccuracyReport

VARIABLE part      (* the component called                                  *)

sequentialVars == <<vars, managerVars, backendVars, reportVars, part>>

SequentialInit ==
  /\ Init /\ ManagerInit /\ BackendInit /\ ReportInit
  /\ part \in {"audio2", "managers", "backends", "report"}
  /\ part # "managers" => mgr = CHOOSE m \in DOMAIN Managers : TRUE
  /\ part # "backends" => version = CHOOSE v \in Version : TRUE

SequentialNext ==
  /\ \/ /\ part = "audio2" /\ Next
        /\ UNCHANGED <<managerVars, backendVars, reportVars>>
     \/ /\ part = "managers" /\ ManagerNext
        /\ UNCHANGED <<vars, backendVars, reportVars>>
     \/ /\ part = "backends" /\ BackendNext
        /\ UNCHANGED <<vars, managerVars, reportVars>>
     \/ /\ part = "report" /\ ReportNext
        /\ UNCHANGED <<vars, managerVars, backendVars>>
  /\ UNCHANGED part

SequentialSpec == SequentialInit /\ [][SequentialNext]_sequentialVars
=============================================================================
