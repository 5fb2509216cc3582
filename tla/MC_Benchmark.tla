---------------------------- MODULE MC_Benchmark ----------------------------
(***************************************************************************)
(* Model-checking instance of Benchmark: every helper, Runs of 1, 3 and   *)
(* 10 (the three branches of the average), one- and two-tick calls, an    *)
(* empty lambda of zero or one tick, and two calibration samples.         *)
(***************************************************************************)
EXTENDS Benchmark

MC_Helpers == {"n_test", "mbs", "mbs2", "json", "json_val", "benchmark",
               "show_benchmark", "bench_test", "bench_test2", "expecting",
               "expecting_exception"}
MC_Averaged == {"n_test", "mbs"}
MC_RunCounts == {1, 3, 10}
MC_Durations == {1, 2}
MC_CalDurations == {0, 1}
MC_Gaps == {0, 1}
MC_ByteCounts == {0, 1000}
MC_ItemCounts == {1, 3}
MC_TickExp == -9
=============================================================================
