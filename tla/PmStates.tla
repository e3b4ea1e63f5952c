------------------------------ MODULE PmStates ------------------------------
(***************************************************************************)
(* The power-management states of the MHI host (enum MHI_PM_STATE), the    *)
(* predicates the code asks of them and the transition table behind        *)
(* mhi_tryset_pm_state.  A state is a single bit in the code and a string  *)
(* here; a mask is a set of states.                                        *)
(***************************************************************************)

\* Levels of the priority ladder: L0 is normal operation.
L0 == {"DISABLE", "POR", "M0", "M2", "M3_ENTER", "M3", "M3_EXIT", "FW_DL_ERR"}
L1 == {"SYS_ERR_DETECT", "SYS_ERR_PROCESS"}
L2 == {"SHUTDOWN_PROCESS"}
L3 == {"LD_ERR_FATAL_DETECT"}

PmState == L0 \cup L1 \cup L2 \cup L3

\* What may pre-empt every operating state.
Async == {"SYS_ERR_DETECT", "SHUTDOWN_PROCESS", "LD_ERR_FATAL_DETECT"}

(***************************************************************************)
(* mhi_state_transitions: the states each state may be left for.           *)
(***************************************************************************)
ToStates ==
  [s \in PmState |->
     CASE s = "DISABLE"             -> {"POR"}
       [] s = "POR"                 -> Async \cup {"POR", "DISABLE", "M0", "FW_DL_ERR"}
       [] s = "M0"                  -> Async \cup {"M2", "M3_ENTER", "FW_DL_ERR"}
       [] s = "M2"                  -> Async \cup {"M0"}
       [] s = "M3_ENTER"            -> Async \cup {"M3"}
       [] s = "M3"                  -> Async \cup {"M3_EXIT"}
       [] s = "M3_EXIT"             -> Async \cup {"M0"}
       [] s = "FW_DL_ERR"           -> Async \cup {"FW_DL_ERR"}
       [] s = "SYS_ERR_DETECT"      -> {"SYS_ERR_PROCESS", "SHUTDOWN_PROCESS",
                                        "LD_ERR_FATAL_DETECT"}
       [] s = "SYS_ERR_PROCESS"     -> {"POR", "SHUTDOWN_PROCESS", "LD_ERR_FATAL_DETECT"}
       [] s = "SHUTDOWN_PROCESS"    -> {"DISABLE", "LD_ERR_FATAL_DETECT"}
       [] s = "LD_ERR_FATAL_DETECT" -> {"LD_ERR_FATAL_DETECT", "SHUTDOWN_PROCESS"}]

\* mhi_tryset_pm_state: the state the controller is in after the attempt.
Tryset(cur, to) == IF to \in ToStates[cur] THEN to ELSE cur

RegAccessValid == PmState \ {"DISABLE", "M3", "LD_ERR_FATAL_DETECT"}
InErrorState == {"FW_DL_ERR"} \cup L1 \cup L2 \cup L3
InFatalState == {"LD_ERR_FATAL_DETECT"}
DbAccessValid == {"M0"}
EventAccessInvalid == {"DISABLE"} \cup InErrorState
InSuspendState == {"M3_ENTER", "M3"}

\* The execution environments that occur, and the ones that count as PBL.
EE == {"PTHRU", "EDL", "SBL", "AMSS", "RDDM", "DISABLE_TRANSITION", "MAX"}
InPbl == {"PTHRU", "EDL"}
MissionMode == {"AMSS"}
=============================================================================
