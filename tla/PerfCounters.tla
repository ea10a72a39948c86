---------------------------- MODULE PerfCounters -----------------------------
(***************************************************************************)
(* rtl/top/fa_perf_counters.sv: counters a run leaves behind for the host. *)
(* The twenty per-run counters are cleared together and each counts one    *)
(* event; o_busy_cycles stands for them.                                   *)
(***************************************************************************)
EXTENDS Naturals

CONSTANT CountWrap  (* counters wrap here: 2^32 *)

VARIABLES o_run_count, o_busy_cycles

perfVars == <<o_run_count, o_busy_cycles>>

Init == o_run_count = 0 /\ o_busy_cycles = 0

Count(counter, event) == (counter + (IF event THEN 1 ELSE 0)) % CountWrap

(* Mutant of Tick: only a soft reset clears the counters of a run.          *)
TickAccumulates(soft_reset, run_start, perf_active) ==
  /\ o_run_count' = Count(o_run_count, run_start /\ ~soft_reset)
  /\ o_busy_cycles' = IF soft_reset THEN 0 ELSE Count(o_busy_cycles, perf_active)

(* A soft reset wins over a start, and a start over whatever is counted.    *)
Tick(soft_reset, run_start, perf_active) ==
  /\ o_run_count' = Count(o_run_count, run_start /\ ~soft_reset)
  /\ o_busy_cycles' = IF soft_reset \/ run_start THEN 0
                      ELSE Count(o_busy_cycles, perf_active)
=============================================================================
