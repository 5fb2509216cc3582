\* bench_n_test and bench_n_test_mbs print an average below the minimum
\* they print: with Runs == 1, line 259 (410) divides total_time - max_time,
\* the only sample taken off, so the average is the loop overhead alone.
\* Deadlock is not
\* checked: a call that has returned is the end of the behaviour.
CONSTANTS
  Helpers <- MC_Averaged
  RunCounts <- MC_RunCounts
  CalibrationRuns = 2
  Durations <- MC_Durations
  CalDurations <- MC_CalDurations
  Gaps <- MC_Gaps
  ByteCounts <- MC_ByteCounts
  ItemCounts <- MC_ItemCounts
  DblMax = 1000000
  TickExp <- MC_TickExp
SPECIFICATION Spec
INVARIANT AvgWithinRange
CHECK_DEADLOCK FALSE
