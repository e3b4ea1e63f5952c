------------------------------ MODULE PmLadder ------------------------------
(***************************************************************************)
(* What the controller promises about its pm_state, whoever moves it: the  *)
(* ladder of levels in the comment above mhi_state_transitions, together   *)
(* with pm_mutex.  Trouble may be noted by anybody at any time; only its   *)
(* owner handles it, and nobody else leaves an error behind; the modem is  *)
(* put to sleep and woken under pm_mutex only.                             *)
(***************************************************************************)
EXTENDS PmStates

VARIABLES state, owner
vars == <<state, owner>>

Handler == {"syserr", "power"}
Process(p) == IF p = "syserr" THEN "SYS_ERR_PROCESS" ELSE "SHUTDOWN_PROCESS"
Nobody == "none"

Init == state = "DISABLE" /\ owner = Nobody

\* Normal operation: powering up, reaching M0, dozing in M2, falling asleep when told to.
Operate == /\ state \in L0
           /\ state' \in (ToStates[state] \cap L0) \ {"DISABLE", "M3_ENTER", "M3_EXIT"}
           /\ owner' = owner

Sleep == /\ owner = "rpm" /\ owner' = owner
         /\ state' \in ToStates[state] \cap {"M3_ENTER", "M3_EXIT"}

Detect == /\ state' \in ToStates[state] \cap {"SYS_ERR_DETECT", "LD_ERR_FATAL_DETECT"}
          /\ owner' = owner

\* An error or a shutdown is taken up ...
Begin(p) == /\ owner = Nobody /\ owner' = p
            /\ Process(p) \in ToStates[state] /\ state' = Process(p)

\* ... and brought to its end by whoever took it up.
Recover == state = "SYS_ERR_PROCESS" /\ state' = "POR" /\ owner = "syserr" /\ owner' \in {owner, Nobody}
Stop == state = "SHUTDOWN_PROCESS" /\ state' = "DISABLE" /\ owner = "power" /\ owner' = Nobody

\* pm_mutex changes hands.
Hand == /\ \/ owner = Nobody /\ owner' \in Handler \cup {"rpm"}
           \/ owner # Nobody /\ owner' = Nobody
        /\ state' = state

Next == Operate \/ Sleep \/ Detect \/ (\E p \in Handler : Begin(p)) \/ Recover \/ Stop \/ Hand

Spec == Init /\ [][Next]_vars
=============================================================================
