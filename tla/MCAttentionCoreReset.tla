------------------------ MODULE MCAttentionCoreReset ------------------------
(***************************************************************************)
(* AttentionCore for TLC when the host uses i_soft_reset: the number of    *)
(* cycles it is high is bounded, everything else is as in AttentionCore.   *)
(***************************************************************************)
EXTENDS AttentionCore

CONSTANT MaxResetCycles

VARIABLE reset_cycles

mcVars == <<vars, reset_cycles>>

MCInit == Init /\ reset_cycles = 0

MCNext ==
  \/ Clock(FALSE) /\ UNCHANGED reset_cycles
  \/ /\ reset_cycles < MaxResetCycles
     /\ Clock(TRUE)
     /\ reset_cycles' = reset_cycles + 1

MCSpec == MCInit /\ [][MCNext]_mcVars

(* The clock runs on, and the host leaves the last run alone.               *)
MCFairSpec == MCSpec /\ WF_mcVars(Clock(FALSE) /\ UNCHANGED reset_cycles)

(* A soft reset ends a run and nothing else: the run started after the last *)
(* one comes to its end.                                                    *)
NextRunCompletes == (busy /\ reset_cycles = MaxResetCycles) ~> done
=============================================================================
